------------------------- MODULE LookupCachesProofs -------------------------
(***************************************************************************)
(* Theorems about LookupCaches, for any files, names, databases' rows and  *)
(* number of jobs, queries, preloads and restarts                          *)
(* (crates/sage-index/src/{lookup_state,cache_queries,workspace_lifecycle, *)
(* cache_persistence}.rs): no search for references leaves out a file that *)
(* mentions the name, and no cache in front of the rows gives an old       *)
(* answer.                                                                 *)
(***************************************************************************)
EXTENDS LookupCaches, TLAPS

-----------------------------------------------------------------------------
(* Types.                                                                  *)

Text == (SUBSET Identifiers) \union {Absent}
FilterTables == UNION {[S -> SUBSET Identifiers] : S \in SUBSET Paths}

IsIndex(i) ==
  /\ i = [db |-> i.db, backed |-> i.backed, files |-> i.files, symbols |-> i.symbols,
          records |-> i.records, spans |-> i.spans, filters |-> i.filters,
          unwritten |-> i.unwritten]
  /\ i.db \in Databases /\ i.backed \in BOOLEAN /\ i.unwritten \in BOOLEAN
  /\ i.files \in [Paths -> Text]
  /\ i.filters = NoRow \/ i.filters \in FilterTables

IsJob(j) ==
  /\ j = [kind |-> j.kind, stage |-> j.stage, ready |-> j.ready, copy |-> j.copy,
          versions |-> j.versions, gone |-> j.gone, parsed |-> j.parsed,
          material |-> j.material, updates |-> j.updates]
  /\ j.kind \in {"reconcile", "rebuild", "refresh"}
  /\ j.stage \in {"started", "parsed", "written"}
  /\ j.ready \in BOOLEAN /\ j.material \in BOOLEAN /\ j.updates \in BOOLEAN
  /\ IsIndex(j.copy)
  /\ DOMAIN j.versions \subseteq Paths /\ j.versions \in [DOMAIN j.versions -> Nat]
  /\ j.gone \subseteq Paths
  /\ j.parsed \in [Paths -> Text]

IsQuery(q) ==
  /\ q = [kind |-> q.kind, of |-> q.of, found |-> q.found]
  /\ \/ q.kind \in {"symbols", "snapshot", "spans"} /\ q.of \in Identifiers
     \/ q.kind = "records" /\ q.of \in Opened

CachesTypeOK ==
  /\ text \in [Paths -> Text]
  /\ unseen \subseteq Paths /\ removed \subseteq Paths
  /\ pending \in [Paths -> Nat]
  /\ dbRows \in [Databases -> [Paths -> FileRow \union {Absent}]]
  /\ table \in [Databases -> SUBSET (Paths \X Identifiers)]
  /\ IsIndex(index)
  /\ job # NoJob => IsJob(job)
  /\ query # NoRow => IsQuery(query)
  /\ current \in BOOLEAN

-----------------------------------------------------------------------------
(* The parts of the invariant that follow the text of a path.              *)

At(kind, stage) == job # NoJob /\ job.kind = kind /\ job.stage = stage

\* An editable path whose text is not waiting for the watchers.
Heard(p) == p \in EditablePaths /\ p \notin unseen

\* The job under way will leave no mark of the path.
Left(p) == pending[p] = 0 \/ (p \in DOMAIN job.versions /\ job.versions[p] = pending[p])

\* A path is searched for the names of its text.
Covers(i, filters, p) ==
  IF i.backed /\ p \in DOMAIN filters
  THEN filters[p] = text[p] /\ (p \in Stored(i.db) \/ i.files[p] # Absent)
  ELSE i.files[p] # Absent

\* The index covers what was refreshed, and its filters are there when rows are.
Covered ==
  current => /\ index.backed => index.filters # NoRow
             /\ ~TornCrash => \A p \in Paths : Heard(p) /\ text[p] # Absent /\ pending[p] = 0 =>
                  Covers(index, index.filters, p)

\* The row says what the disk says.
RowRight(db, p) ==
  IF text[p] = Absent THEN p \notin Stored(db)
  ELSE p \in Stored(db) /\ dbRows[db][p].spans = text[p]
RowsCurrent ==
  current /\ Settled /\ ~index.unwritten =>
    \A p \in Paths : Heard(p) /\ pending[p] = 0 => RowRight(index.db, p)

\* A path reported as deleted is deleted unless a newer change is on its way.
GoneIsGone == \A p \in removed : p \in unseen \/ text[p] = Absent

\* Until the first reconcile is written no row of an editable path is torn.
RowsWhole ==
  ~TornCrash /\ ~current /\ Settled => \A p \in EditablePaths, db \in Databases :
    p \in Stored(db) => dbRows[db][p].names = dbRows[db][p].print

\* Spans and fingerprint are of the same moment, and the table is made from the rows.
RowsMade ==
  /\ \A db \in Databases : \A p \in Stored(db) : dbRows[db][p].spans = dbRows[db][p].print
  /\ \A db \in Databases : table[db] = Exports(dbRows[db])

\* Which jobs there are, and the marks they started from.
JobKinds == job # NoJob =>
  /\ (job.kind = "reconcile") = ~current
  /\ job.kind # "refresh" => job.versions = Empty
  /\ job.updates => job.kind = "refresh"
  /\ job.kind = "refresh" => (job.ready <=> index.filters # NoRow)
  /\ \A p \in DOMAIN job.versions : 1 <= job.versions[p] /\ job.versions[p] <= pending[p]
  /\ job.kind = "refresh" => \A p \in job.gone :
       /\ p \in DOMAIN job.versions
       /\ p \notin unseen /\ job.versions[p] = pending[p] => text[p] = Absent

SameBase ==
  /\ job.copy.db = index.db /\ job.copy.backed = index.backed
  /\ job.copy.unwritten = index.unwritten
EmptyCaches(i) == i.symbols = Empty /\ i.records = Empty /\ i.spans = Empty

StartedRefresh == At("refresh", "started") => SameBase /\ job.copy.files = index.files
ParsedRefresh == At("refresh", "parsed") =>
  /\ SameBase
  /\ \A p \in DOMAIN job.versions : p \in job.gone \/ job.parsed[p] # Absent
  /\ \A p \in Paths : job.parsed[p] # Absent =>
       /\ p \in DOMAIN job.versions /\ p \notin job.gone /\ job.copy.files[p] = job.parsed[p]
       /\ p \notin unseen /\ job.versions[p] = pending[p] => job.parsed[p] = text[p]
  /\ \A p \in Paths \ DOMAIN job.versions : pending[p] # 0 \/ job.copy.files[p] = index.files[p]
Rebuilding == job # NoJob /\ job.kind = "rebuild" =>
  /\ EmptyCaches(job.copy)
  /\ job.stage # "written" => ~job.copy.unwritten
  /\ job.stage = "parsed" =>
       /\ ~job.copy.backed /\ job.copy.files = job.parsed
       /\ \A p \in Paths : Heard(p) /\ pending[p] = 0 => job.parsed[p] = text[p]
ParsedReconcile == At("reconcile", "parsed") =>
  /\ EmptyCaches(job.copy) /\ ~job.copy.unwritten
  /\ \A p \in Paths : p \in job.gone => job.parsed[p] = Absent
  /\ \A p \in Paths : Heard(p) /\ pending[p] = 0 =>
       \/ text[p] # Absent /\ job.parsed[p] = text[p]
       \/ /\ text[p] = Absent /\ job.parsed[p] = Absent
          /\ p \in job.gone \/ p \notin Stored(job.copy.db)
       \/ /\ text[p] # Absent /\ job.parsed[p] = Absent
          /\ p \notin job.gone /\ p \in Stored(job.copy.db)
          /\ ~TornCrash => dbRows[job.copy.db][p].names = text[p]
          /\ dbRows[job.copy.db][p].print = text[p]
WrittenJob == job # NoJob /\ job.stage = "written" =>
  /\ job.copy.backed => Merged # NoRow
  /\ \A p \in Paths : Heard(p) /\ Left(p) =>
       /\ text[p] # Absent /\ ~TornCrash => Covers(job.copy, Merged, p)
       /\ ~job.copy.unwritten => RowRight(job.copy.db, p)

-----------------------------------------------------------------------------
(* The parts that follow the entries of the caches.                        *)

\* The names in the rows of one database, and what a query reads of them.
RowsPairs(rows) == {s \in Paths \X Identifiers : rows[s[1]] # Absent /\ s[2] \in rows[s[1]].names}
Named(rows, backed, n) == IF backed THEN RowsNamed(RowsPairs(rows), n) ELSE {}
FileIn(files, rows, p) == IF files[p] # Absent THEN files[p] ELSE rows[p].names
SpansIn(rows, n) == {p \in EditablePaths : rows[p] # Absent /\ n \in rows[p].spans}

FromRows(i, rows, k) ==
  \E n \in Identifiers : Key[n] = k /\ i.symbols[k] = Named(rows, i.backed, n)
FromHot(i, exports, k) ==
  k \in HotKeys /\ i.symbols[k] \subseteq Keyed(exports \union Pairs(i.files), k)
SymbolsRight(i, rows, exports) ==
  \A k \in DOMAIN i.symbols : FromRows(i, rows, k) \/ FromHot(i, exports, k)
RecordsRight(i, rows) == \A p \in DOMAIN i.records : i.records[p] = FileIn(i.files, rows, p)
SpansRight(i, rows) == \A n \in DOMAIN i.spans : i.spans[n] = SpansIn(rows, n)

CachesRight == Settled =>
  /\ SymbolsRight(index, dbRows[index.db], table[index.db])
  /\ RecordsRight(index, dbRows[index.db])
  /\ SpansRight(index, dbRows[index.db])

\* What a query found is still so when it puts it into a cache.
QueryRight == Settled /\ query # NoRow =>
  /\ query.kind = "symbols" => query.found = Named(dbRows[index.db], index.backed, query.of)
  /\ query.kind = "records" => query.found = FileIn(index.files, dbRows[index.db], query.of)
  /\ query.kind = "spans" => query.found = SpansIn(dbRows[index.db], query.of)

\* No name of a path the refresh writes is behind an entry its copy has kept.
Untouched(j, rows, n) ==
  \A p \in DOMAIN j.versions :
    <<p, n>> \notin RowsPairs(rows) /\ (j.parsed[p] # Absent => n \notin j.parsed[p])
KeptRight(j, rows, exports) ==
  \A k \in DOMAIN j.copy.symbols :
    \/ FromHot(j.copy, exports, k)
    \/ \E n \in Identifiers : /\ Key[n] = k /\ j.copy.symbols[k] = Named(rows, j.copy.backed, n)
                              /\ j.copy.backed => Untouched(j, rows, n)
JobCaches == job # NoJob =>
  /\ At("refresh", "started") => SymbolsRight(job.copy, dbRows[job.copy.db], table[job.copy.db])
  /\ At("refresh", "parsed") =>
       /\ job.copy.records = Empty /\ job.copy.spans = Empty
       /\ job.material => job.copy.symbols = Empty
       /\ KeptRight(job, dbRows[job.copy.db], table[job.copy.db])
  /\ job.stage = "parsed" /\ job.kind # "rebuild" /\ ~job.material =>
       \A p \in Material : job.parsed[p] = Absent /\ p \notin job.gone
  /\ job.stage = "written" =>
       /\ job.copy.records = Empty /\ job.copy.spans = Empty
       /\ SymbolsRight(job.copy, dbRows[job.copy.db], table[job.copy.db])

-----------------------------------------------------------------------------
(* Types.                                                                  *)

LEMMA NothingIsAbsent ==
  /\ \A names \in SUBSET Identifiers : names # Absent
  /\ \A row \in FileRow : row # Absent
  /\ \A filters \in FilterTables : filters # NoRow
  /\ EditablePaths \subseteq Paths /\ Material \subseteq Paths /\ Opened \subseteq Paths
BY CachesAssumption DEF FilterTables

LEMMA FilterTable ==
  ASSUME NEW filters, filters \in FilterTables
  PROVE  /\ DOMAIN filters \subseteq Paths /\ filters # NoRow
         /\ \A p \in DOMAIN filters : filters[p] \in SUBSET Identifiers
BY NothingIsAbsent DEF FilterTables

LEMMA PairsType ==
  ASSUME NEW files, NEW s, s \in Pairs(files)
  PROVE  s \in Paths \X Identifiers
BY DEF Pairs

LEMMA HydratedType ==
  ASSUME NEW db \in Databases
  PROVE  IsIndex(Hydrated(db))
BY NothingIsAbsent DEF IsIndex, Hydrated, Text

\* What filters the rows give, and how those of a refresh are merged.
LEMMA FiltersOfRows ==
  ASSUME NEW stored \in [Paths -> FileRow \union {Absent}]
  PROVE  /\ FiltersOf(stored) \in FilterTables /\ FiltersOf(stored) # NoRow
         /\ DOMAIN FiltersOf(stored) \subseteq Paths
         /\ \A p \in Paths : p \in DOMAIN FiltersOf(stored) <=> stored[p] # Absent
         /\ \A p \in Paths : stored[p] # Absent => FiltersOf(stored)[p] = stored[p].names
<1> DEFINE S == {p \in Paths : stored[p] # Absent}
<1>1. \A p \in S : stored[p].names \in SUBSET Identifiers
  BY DEF FileRow
<1>2. FiltersOf(stored) = [p \in S |-> stored[p].names]
  BY DEF FiltersOf
<1>3. FiltersOf(stored) \in [S -> SUBSET Identifiers]
  BY <1>1, <1>2
<1>4. FiltersOf(stored) \in FilterTables
  BY <1>3 DEF FilterTables
<1> QED BY <1>2, <1>4, FilterTable

LEMMA FiltersMerged ==
  ASSUME NEW filters \in FilterTables, NEW files \in [Paths -> Text], NEW gone \in SUBSET Paths,
         NEW merged, merged = PutFilters(filters, files, gone)
  PROVE  /\ merged \in FilterTables /\ merged # NoRow
         /\ \A p \in Paths : files[p] # Absent => p \in DOMAIN merged /\ merged[p] = files[p]
         /\ \A p \in Paths : files[p] = Absent =>
              /\ p \in DOMAIN merged <=> p \in DOMAIN filters /\ p \notin gone
              /\ p \in DOMAIN merged => merged[p] = filters[p]
<1> DEFINE f == [p \in {p \in Paths : files[p] # Absent} |-> files[p]]
           g == Drop(filters, gone)
<1>0. filters # NoRow /\ DOMAIN filters \subseteq Paths /\ \A p \in DOMAIN filters : filters[p] \in SUBSET Identifiers
  BY FilterTable
<1>1. merged = Over(f, g)
  BY <1>0 DEF PutFilters
<1>2. /\ \A p \in DOMAIN f : p \in Paths /\ files[p] # Absent /\ f[p] = files[p]
      /\ \A p \in Paths : files[p] # Absent => p \in DOMAIN f
  OBVIOUS
<1>3. DOMAIN g = DOMAIN filters \ gone /\ \A p \in DOMAIN filters : p \notin gone => g[p] = filters[p]
  BY DEF Drop
<1> HIDE DEF f, g
<1>4. /\ merged = [p \in DOMAIN merged |-> merged[p]]
      /\ DOMAIN merged = DOMAIN f \union DOMAIN g
      /\ \A p \in DOMAIN f : merged[p] = f[p]
      /\ \A p \in DOMAIN g : p \notin DOMAIN f => merged[p] = g[p]
  BY <1>1 DEF Over
<1>5. \A p \in DOMAIN merged : p \in Paths /\ merged[p] \in SUBSET Identifiers
  <2> TAKE p \in DOMAIN merged
  <2>1. CASE p \in DOMAIN f
    BY <2>1, <1>2, <1>4 DEF Text
  <2>2. CASE p \notin DOMAIN f
    BY <2>2, <1>0, <1>3, <1>4
  <2> QED BY <2>1, <2>2
<1>6. merged \in [DOMAIN merged -> SUBSET Identifiers]
  BY <1>4, <1>5
<1>7. merged \in FilterTables
  BY <1>5, <1>6 DEF FilterTables
<1>8. merged # NoRow
  BY <1>7, FilterTable
<1> QED BY <1>2, <1>3, <1>4, <1>7, <1>8

-----------------------------------------------------------------------------
(* What the steps do, field by field.                                      *)

Same(i, j) ==
  /\ i.db = j.db /\ i.backed = j.backed /\ i.unwritten = j.unwritten
  /\ i.files = j.files /\ i.filters = j.filters

LEMMA IndexFields ==
  ASSUME NEW db, NEW backed, NEW files, NEW symbols, NEW records, NEW spans, NEW filters,
         NEW unwritten, NEW i,
         i = [db |-> db, backed |-> backed, files |-> files, symbols |-> symbols,
              records |-> records, spans |-> spans, filters |-> filters, unwritten |-> unwritten]
  PROVE  /\ i.db = db /\ i.backed = backed /\ i.files = files /\ i.symbols = symbols
         /\ i.records = records /\ i.spans = spans /\ i.filters = filters
         /\ i.unwritten = unwritten
OBVIOUS

LEMMA Resymboled ==
  ASSUME NEW i, IsIndex(i), NEW symbols
  PROVE  LET c == [i EXCEPT !.symbols = symbols] IN
         /\ IsIndex(c) /\ Same(c, i)
         /\ c.symbols = symbols /\ c.records = i.records /\ c.spans = i.spans
BY DEF IsIndex, Same

LEMMA Rerecorded ==
  ASSUME NEW i, IsIndex(i), NEW records
  PROVE  LET c == [i EXCEPT !.records = records] IN
         /\ IsIndex(c) /\ Same(c, i)
         /\ c.symbols = i.symbols /\ c.records = records /\ c.spans = i.spans
BY DEF IsIndex, Same

LEMMA Respanned ==
  ASSUME NEW i, IsIndex(i), NEW spans
  PROVE  LET c == [i EXCEPT !.spans = spans] IN
         /\ IsIndex(c) /\ Same(c, i)
         /\ c.symbols = i.symbols /\ c.records = i.records /\ c.spans = spans
BY DEF IsIndex, Same

Reset(i, symbols) == [i EXCEPT !.symbols = symbols, !.records = Empty, !.spans = Empty]

LEMMA CachesReset ==
  ASSUME NEW i, IsIndex(i), NEW symbols
  PROVE  LET c == Reset(i, symbols) IN
         /\ IsIndex(c) /\ Same(c, i)
         /\ c.symbols = symbols /\ c.records = Empty /\ c.spans = Empty
<1> DEFINE c1 == [i EXCEPT !.symbols = symbols]
           c2 == [c1 EXCEPT !.records = Empty]
           c3 == [c2 EXCEPT !.spans = Empty]
<1>1. IsIndex(c1) /\ Same(c1, i) /\ c1.symbols = symbols
  BY Resymboled
<1>0. Reset(i, symbols) = c3
  BY DEF Reset
<1> HIDE DEF c1
<1>2. IsIndex(c2) /\ Same(c2, c1) /\ c2.symbols = c1.symbols /\ c2.records = Empty
  BY <1>1, Rerecorded
<1> HIDE DEF c2
<1>3. IsIndex(c3) /\ Same(c3, c2) /\ c3.symbols = c2.symbols /\ c3.records = c2.records /\ c3.spans = Empty
  BY <1>2, Respanned
<1> HIDE DEF c3
<1> QED BY <1>0, <1>1, <1>2, <1>3 DEF Same

LEMMA EntriesCleared ==
  ASSUME NEW i, IsIndex(i), NEW names
  PROVE  LET c == ClearEntries(i, names) IN
         /\ IsIndex(c) /\ Same(c, i)
         /\ c.symbols = Drop(i.symbols, {Key[n] : n \in names})
         /\ c.records = Empty /\ c.spans = Empty
<1>1. PICK symbols : symbols = Drop(i.symbols, {Key[n] : n \in names})
  OBVIOUS
<1>2. ClearEntries(i, names) = Reset(i, symbols)
  BY <1>1 DEF ClearEntries, Reset
<1> QED BY <1>1, <1>2, CachesReset

LEMMA LookupCleared ==
  ASSUME NEW i, IsIndex(i)
  PROVE  LET c == ClearLookup(i) IN
         /\ IsIndex(c) /\ Same(c, i)
         /\ EmptyCaches(c)
<1>1. ClearLookup(i) = Reset(i, Empty)
  BY DEF ClearLookup, Reset
<1> QED BY <1>1, CachesReset DEF EmptyCaches

LEMMA HotPrewarmed ==
  ASSUME NEW i, IsIndex(i), NEW exports
  PROVE  LET c == PrewarmHot(i, exports) IN
         /\ IsIndex(c) /\ Same(c, i)
         /\ c.records = i.records /\ c.spans = i.spans
         /\ c.symbols = Over([k \in HotKeys |-> Keyed(exports, k) \union Keyed(Pairs(i.files), k)], i.symbols)
BY DEF IsIndex, PrewarmHot, Same

LEMMA Refiltered ==
  ASSUME NEW i, IsIndex(i), NEW filters, filters = NoRow \/ filters \in FilterTables
  PROVE  LET c == [i EXCEPT !.filters = filters] IN
         /\ IsIndex(c) /\ c.db = i.db /\ c.backed = i.backed /\ c.unwritten = i.unwritten
         /\ c.files = i.files /\ c.filters = filters
         /\ c.symbols = i.symbols /\ c.records = i.records /\ c.spans = i.spans
BY DEF IsIndex

LEMMA Refiled ==
  ASSUME NEW i, IsIndex(i), NEW files \in [Paths -> Text]
  PROVE  LET c == [i EXCEPT !.files = files] IN
         /\ IsIndex(c) /\ c.db = i.db /\ c.backed = i.backed /\ c.unwritten = i.unwritten
         /\ c.files = files /\ c.filters = i.filters
         /\ c.symbols = i.symbols /\ c.records = i.records /\ c.spans = i.spans
BY DEF IsIndex

LEMMA HydratedFields ==
  ASSUME NEW db
  PROVE  LET h == Hydrated(db) IN
         /\ h.db = db /\ h.backed = (Stored(db) # {}) /\ h.files = [p \in Paths |-> Absent]
         /\ EmptyCaches(h) /\ h.filters = NoRow /\ h.unwritten = FALSE
BY DEF Hydrated, EmptyCaches

LEMMA MergedType ==
  ASSUME NEW filters, filters = NoRow \/ filters \in FilterTables, NEW files \in [Paths -> Text],
         NEW gone \in SUBSET Paths
  PROVE  LET merged == PutFilters(filters, files, gone) IN
         /\ merged = NoRow \/ merged \in FilterTables
         /\ merged = NoRow <=> filters = NoRow
<1>1. CASE filters = NoRow
  BY <1>1 DEF PutFilters
<1>2. CASE filters # NoRow
  <2>1. PICK merged : merged = PutFilters(filters, files, gone)
    OBVIOUS
  <2>2. merged \in FilterTables /\ merged # NoRow
    BY <1>2, <2>1, FiltersMerged
  <2> QED BY <1>2, <2>1, <2>2
<1> QED BY <1>1, <1>2

\* What a preload puts into the filters.
OneParsed(p) == [q \in Paths |-> IF q = p THEN text[p] ELSE Absent]
PreloadedFiles(p) == [index.files EXCEPT ![p] = text[p]]

LEMMA PreloadEffect ==
  ASSUME CachesTypeOK, NEW p \in Opened, Preload(p)
  PROVE  /\ IsIndex(index')
         /\ index'.db = index.db /\ index'.backed = index.backed
         /\ index'.unwritten = index.unwritten
         /\ index'.files = PreloadedFiles(p)
         /\ index'.filters = PutFilters(index.filters, OneParsed(p), {})
         /\ index'.symbols = Drop(index.symbols, {Key[n] : n \in
              NamesIn(Pairs(index.files) \union Pairs(PreloadedFiles(p)), {p})})
         /\ index'.records = Empty /\ index'.spans = Empty
<1> DEFINE files == PreloadedFiles(p)
           filters == PutFilters(index.filters, OneParsed(p), {})
           dirty == NamesIn(Pairs(index.files) \union Pairs(files), {p})
           mid == [index EXCEPT !.files = files]
           base == [mid EXCEPT !.filters = filters]
<1>1. p \in Paths /\ IsIndex(index) /\ text \in [Paths -> Text]
  BY NothingIsAbsent DEF CachesTypeOK
<1>2. files \in [Paths -> Text] /\ OneParsed(p) \in [Paths -> Text]
  BY <1>1 DEF PreloadedFiles, OneParsed, IsIndex, Text
<1>3. filters = NoRow \/ filters \in FilterTables
  BY <1>1, <1>2, MergedType DEF IsIndex
<1>4. index' = ClearEntries([index EXCEPT !.files = files, !.filters = PutFilters(@, OneParsed(p), {})], dirty)
  BY DEF Preload, OneParsed, PreloadedFiles
<1>5. [index EXCEPT !.files = files, !.filters = PutFilters(@, OneParsed(p), {})] = base
  BY <1>1 DEF IsIndex
<1> HIDE DEF files, filters
<1>6. IsIndex(mid) /\ mid.db = index.db /\ mid.backed = index.backed /\ mid.unwritten = index.unwritten
      /\ mid.files = files /\ mid.symbols = index.symbols
  BY <1>1, <1>2, Refiled
<1> HIDE DEF mid
<1>7. IsIndex(base) /\ base.db = mid.db /\ base.backed = mid.backed /\ base.unwritten = mid.unwritten
      /\ base.files = mid.files /\ base.symbols = mid.symbols /\ base.filters = filters
  BY <1>3, <1>6, Refiltered
<1> HIDE DEF base, dirty
<1>8. index' = ClearEntries(base, dirty)
  BY <1>4, <1>5
<1>9. /\ IsIndex(index') /\ Same(index', base)
      /\ index'.symbols = Drop(base.symbols, {Key[n] : n \in dirty})
      /\ index'.records = Empty /\ index'.spans = Empty
  BY <1>7, <1>8, EntriesCleared
<1> QED BY <1>6, <1>7, <1>9 DEF Same, files, filters, dirty

-----------------------------------------------------------------------------
(* The fields of a job.                                                    *)

JobShape(j) ==
  j = [kind |-> j.kind, stage |-> j.stage, ready |-> j.ready, copy |-> j.copy,
       versions |-> j.versions, gone |-> j.gone, parsed |-> j.parsed,
       material |-> j.material, updates |-> j.updates]
JobTyped(j) ==
  /\ j.kind \in {"reconcile", "rebuild", "refresh"}
  /\ j.stage \in {"started", "parsed", "written"}
  /\ j.ready \in BOOLEAN /\ j.material \in BOOLEAN /\ j.updates \in BOOLEAN
  /\ IsIndex(j.copy)
  /\ DOMAIN j.versions \subseteq Paths /\ j.versions \in [DOMAIN j.versions -> Nat]
  /\ j.gone \subseteq Paths
  /\ j.parsed \in [Paths -> Text]

LEMMA JobParts == ASSUME NEW j PROVE IsJob(j) <=> JobShape(j) /\ JobTyped(j)
BY DEF IsJob, JobShape, JobTyped

SetStage(j, x) == [j EXCEPT !.stage = x]
LEMMA SetStageFields ==
  ASSUME NEW j, JobShape(j), NEW x
  PROVE  LET c == SetStage(j, x) IN
         /\ JobShape(c) /\ c.stage = x
         /\ c.kind = j.kind /\ c.ready = j.ready /\ c.copy = j.copy /\ c.versions = j.versions
         /\ c.gone = j.gone /\ c.parsed = j.parsed /\ c.material = j.material /\ c.updates = j.updates
BY DEF JobShape, SetStage

SetCopy(j, x) == [j EXCEPT !.copy = x]
LEMMA SetCopyFields ==
  ASSUME NEW j, JobShape(j), NEW x
  PROVE  LET c == SetCopy(j, x) IN
         /\ JobShape(c) /\ c.copy = x
         /\ c.kind = j.kind /\ c.stage = j.stage /\ c.ready = j.ready /\ c.versions = j.versions
         /\ c.gone = j.gone /\ c.parsed = j.parsed /\ c.material = j.material /\ c.updates = j.updates
BY DEF JobShape, SetCopy

SetVersions(j, x) == [j EXCEPT !.versions = x]
LEMMA SetVersionsFields ==
  ASSUME NEW j, JobShape(j), NEW x
  PROVE  LET c == SetVersions(j, x) IN
         /\ JobShape(c) /\ c.versions = x
         /\ c.kind = j.kind /\ c.stage = j.stage /\ c.ready = j.ready /\ c.copy = j.copy
         /\ c.gone = j.gone /\ c.parsed = j.parsed /\ c.material = j.material /\ c.updates = j.updates
BY DEF JobShape, SetVersions

SetGone(j, x) == [j EXCEPT !.gone = x]
LEMMA SetGoneFields ==
  ASSUME NEW j, JobShape(j), NEW x
  PROVE  LET c == SetGone(j, x) IN
         /\ JobShape(c) /\ c.gone = x
         /\ c.kind = j.kind /\ c.stage = j.stage /\ c.ready = j.ready /\ c.copy = j.copy
         /\ c.versions = j.versions /\ c.parsed = j.parsed /\ c.material = j.material /\ c.updates = j.updates
BY DEF JobShape, SetGone

SetParsed(j, x) == [j EXCEPT !.parsed = x]
LEMMA SetParsedFields ==
  ASSUME NEW j, JobShape(j), NEW x
  PROVE  LET c == SetParsed(j, x) IN
         /\ JobShape(c) /\ c.parsed = x
         /\ c.kind = j.kind /\ c.stage = j.stage /\ c.ready = j.ready /\ c.copy = j.copy
         /\ c.versions = j.versions /\ c.gone = j.gone /\ c.material = j.material /\ c.updates = j.updates
BY DEF JobShape, SetParsed

SetMaterial(j, x) == [j EXCEPT !.material = x]
LEMMA SetMaterialFields ==
  ASSUME NEW j, JobShape(j), NEW x
  PROVE  LET c == SetMaterial(j, x) IN
         /\ JobShape(c) /\ c.material = x
         /\ c.kind = j.kind /\ c.stage = j.stage /\ c.ready = j.ready /\ c.copy = j.copy
         /\ c.versions = j.versions /\ c.gone = j.gone /\ c.parsed = j.parsed /\ c.updates = j.updates
BY DEF JobShape, SetMaterial

SetUpdates(j, x) == [j EXCEPT !.updates = x]
LEMMA SetUpdatesFields ==
  ASSUME NEW j, JobShape(j), NEW x
  PROVE  LET c == SetUpdates(j, x) IN
         /\ JobShape(c) /\ c.updates = x
         /\ c.kind = j.kind /\ c.stage = j.stage /\ c.ready = j.ready /\ c.copy = j.copy
         /\ c.versions = j.versions /\ c.gone = j.gone /\ c.parsed = j.parsed /\ c.material = j.material
BY DEF JobShape, SetUpdates

Fresh(j, kind, copy, S) ==
  /\ IsJob(j) /\ j.kind = kind /\ j.stage = "started"
  /\ j.ready = (index.filters # NoRow)
  /\ DOMAIN j.versions = S /\ (\A p \in S : j.versions[p] = pending[p])
  /\ j.gone = S \cap removed
  /\ j.copy.db = copy.db /\ j.copy.backed = copy.backed
  /\ j.copy.unwritten = copy.unwritten /\ j.copy.files = copy.files
  /\ j.copy.symbols = copy.symbols /\ j.copy.records = copy.records
  /\ j.copy.spans = copy.spans
  /\ S = {} => j.versions = Empty
  /\ j.updates = FALSE

LEMMA NewJobFields ==
  ASSUME CachesTypeOK, NEW kind \in {"reconcile", "rebuild", "refresh"}, NEW copy, IsIndex(copy),
         NEW S \in SUBSET Paths
  PROVE  Fresh(NewJob(kind, "started", copy, S), kind, copy, S)
<1>1. PICK c : c = [copy EXCEPT !.filters = NoRow]
  OBVIOUS
<1>2. /\ IsIndex(c) /\ c.db = copy.db /\ c.backed = copy.backed /\ c.unwritten = copy.unwritten
      /\ c.files = copy.files /\ c.filters = NoRow
      /\ c.symbols = copy.symbols /\ c.records = copy.records /\ c.spans = copy.spans
  BY <1>1, Refiltered
<1>3. PICK v : v = [p \in S |-> pending[p]]
  OBVIOUS
<1>4. PICK absent : absent = [p \in Paths |-> Absent]
  OBVIOUS
<1>5. PICK j : j = [kind |-> kind, stage |-> "started", ready |-> index.filters # NoRow, copy |-> c,
                    versions |-> v, gone |-> S \cap removed,
                    parsed |-> absent, material |-> FALSE, updates |-> FALSE]
  OBVIOUS
<1>6. NewJob(kind, "started", copy, S) = j
  BY <1>1, <1>3, <1>4, <1>5 DEF NewJob
<1>7. /\ DOMAIN v = S /\ \A p \in S : v[p] = pending[p]
      /\ v \in [S -> Nat]
      /\ S = {} => v = Empty
  BY <1>3 DEF CachesTypeOK, Empty
<1>8. absent \in [Paths -> Text] /\ \A p \in Paths : absent[p] = Absent
  BY <1>4 DEF Text
<1>9. /\ JobShape(j) /\ j.kind = kind /\ j.stage = "started"
      /\ j.ready = (index.filters # NoRow) /\ j.copy = c
      /\ j.versions = v /\ j.gone = S \cap removed
      /\ j.parsed = absent /\ j.material = FALSE /\ j.updates = FALSE
  BY <1>5 DEF JobShape
<1>10. IsJob(j)
  <2>1. JobTyped(j)
    BY <1>2, <1>7, <1>8, <1>9 DEF JobTyped
  <2> QED BY <1>9, <2>1, JobParts
<1> QED BY <1>2, <1>6, <1>7, <1>9, <1>10 DEF Fresh

-----------------------------------------------------------------------------
(* What a query or a job's step leaves.                                    *)

LEMMA StoreEffect ==
  ASSUME CachesTypeOK, StoreAnswer
  PROVE  /\ IsIndex(index') /\ Same(index', index) /\ job' = job /\ query' = NoRow
         /\ query.kind \in {"symbols", "records", "spans"}
         /\ query.kind = "symbols" =>
              /\ index'.symbols = Stash(index.symbols, Key[query.of], query.found)
              /\ index'.records = index.records /\ index'.spans = index.spans
         /\ query.kind = "records" =>
              /\ index'.records = Stash(index.records, query.of, query.found)
              /\ index'.symbols = index.symbols /\ index'.spans = index.spans
         /\ query.kind = "spans" =>
              /\ index'.spans = Stash(index.spans, query.of, query.found)
              /\ index'.symbols = index.symbols /\ index'.records = index.records
<1>1. query # NoRow /\ query.kind # "snapshot" /\ query' = NoRow /\ IsQuery(query) /\ IsIndex(index)
  BY DEF StoreAnswer, CachesTypeOK
<1>2. query.kind \in {"symbols", "records", "spans"}
  BY <1>1 DEF IsQuery
<1>3. index' = Keep(index, query, TRUE)
  BY DEF StoreAnswer
<1>4. job' = job
  <2>1. CASE job = NoJob
    BY <2>1 DEF StoreAnswer
  <2>2. CASE job # NoJob
    <3>1. job' = [job EXCEPT !.copy = job.copy]
      BY <2>2 DEF StoreAnswer, Keep
    <3> QED BY <2>2, <3>1 DEF CachesTypeOK, IsJob
  <2> QED BY <2>1, <2>2
<1>5. CASE query.kind = "symbols"
  <2>1. PICK v : v = Stash(index.symbols, Key[query.of], query.found)
    OBVIOUS
  <2>2. index' = [index EXCEPT !.symbols = v]
    BY <1>3, <1>5, <2>1 DEF Keep
  <2> QED BY <1>1, <1>2, <1>4, <1>5, <2>1, <2>2, Resymboled
<1>6. CASE query.kind = "records"
  <2>1. PICK v : v = Stash(index.records, query.of, query.found)
    OBVIOUS
  <2>2. index' = [index EXCEPT !.records = v]
    BY <1>3, <1>6, <2>1 DEF Keep
  <2> QED BY <1>1, <1>2, <1>4, <1>6, <2>1, <2>2, Rerecorded
<1>7. CASE query.kind = "spans"
  <2>1. PICK v : v = Stash(index.spans, query.of, query.found)
    OBVIOUS
  <2>2. index' = [index EXCEPT !.spans = v]
    BY <1>3, <1>7, <2>1 DEF Keep
  <2> QED BY <1>1, <1>2, <1>4, <1>7, <2>1, <2>2, Respanned
<1> QED BY <1>2, <1>5, <1>6, <1>7

RefreshParse == [p \in Paths |-> IF p \in DOMAIN job.versions \ job.gone THEN text[p] ELSE Absent]
RefreshFiles ==
  [p \in Paths |-> IF p \in DOMAIN job.versions THEN RefreshParse[p] ELSE job.copy.files[p]]
RefreshDone == {p \in DOMAIN job.versions : RefreshParse[p] # Absent} \union job.gone

LEMMA ParseRefreshEffect ==
  ASSUME CachesTypeOK, JobKinds, ParseRefresh
  PROVE  /\ job # NoJob /\ job.stage = "started" /\ job.kind = "refresh"
         /\ IsJob(job') /\ job'.kind = "refresh" /\ job'.stage = "parsed"
         /\ job'.ready = job.ready /\ job'.gone = job.gone /\ job'.updates = job.updates
         /\ job'.parsed = RefreshParse /\ job'.material = (RefreshDone \cap Material # {})
         /\ RefreshDone \subseteq DOMAIN job.versions
         /\ DOMAIN job'.versions = RefreshDone
         /\ \A p \in RefreshDone : job'.versions[p] = job.versions[p]
         /\ job'.copy.db = job.copy.db /\ job'.copy.backed = job.copy.backed
         /\ job'.copy.unwritten = job.copy.unwritten
         /\ job'.copy.files = RefreshFiles
         /\ job'.copy.records = Empty /\ job'.copy.spans = Empty
         /\ job'.copy.symbols =
              IF job'.material THEN Empty
              ELSE Drop(job.copy.symbols,
                        {Key[n] : n \in Dirty(job.copy, RefreshFiles, DOMAIN job.versions)})
<1> DEFINE S == DOMAIN job.versions
           files == RefreshFiles
           done == RefreshDone
           material == done \cap Material # {}
           filed == [job.copy EXCEPT !.files = files]
           names == Dirty(job.copy, files, S)
           copy == IF material THEN ClearLookup(filed) ELSE ClearEntries(filed, names)
           V == [p \in done |-> job.versions[p]]
           P == RefreshParse
<1>1. /\ job # NoJob /\ job.stage = "started" /\ job.kind = "refresh"
      /\ JobShape(job) /\ JobTyped(job)
  BY JobParts DEF ParseRefresh, CachesTypeOK
<1>2. job' = SetCopy(SetVersions(SetMaterial(SetParsed(SetStage(job, "parsed"), P), material), V), copy)
  BY DEF ParseRefresh, Working, SetCopy, SetVersions, SetMaterial, SetParsed, SetStage, RefreshParse,
         RefreshFiles, RefreshDone
<1>3. P \in [Paths -> Text] /\ files \in [Paths -> Text]
  BY <1>1 DEF RefreshParse, RefreshFiles, CachesTypeOK, JobTyped, IsIndex, Text
<1>4. done \subseteq S
  BY <1>1 DEF RefreshDone, JobKinds
<1>5. V \in [done -> Nat] /\ DOMAIN V = done /\ \A p \in done : V[p] = job.versions[p]
  BY <1>1, <1>4 DEF JobTyped
<1>6. material \in BOOLEAN
  OBVIOUS
<1> HIDE DEF P, files, done, material, V, names
<1>7. /\ IsIndex(filed) /\ filed.db = job.copy.db /\ filed.backed = job.copy.backed
      /\ filed.unwritten = job.copy.unwritten /\ filed.files = files
      /\ filed.symbols = job.copy.symbols
  BY <1>1, <1>3, Refiled DEF JobTyped
<1> HIDE DEF filed
<1>8. /\ IsIndex(copy) /\ Same(copy, filed) /\ copy.records = Empty /\ copy.spans = Empty
      /\ copy.symbols = IF material THEN Empty ELSE Drop(filed.symbols, {Key[n] : n \in names})
  <2>1. CASE material
    BY <1>7, <2>1, LookupCleared DEF EmptyCaches
  <2>2. CASE ~material
    BY <1>7, <2>2, EntriesCleared
  <2> QED BY <2>1, <2>2
<1> HIDE DEF copy
<1>9. /\ JobShape(job') /\ job'.kind = "refresh" /\ job'.stage = "parsed" /\ job'.ready = job.ready
      /\ job'.gone = job.gone /\ job'.updates = job.updates
      /\ job'.parsed = P /\ job'.material = material /\ job'.versions = V /\ job'.copy = copy
  BY <1>1, <1>2, SetStageFields, SetParsedFields, SetMaterialFields, SetVersionsFields, SetCopyFields
<1>10. JobTyped(job')
  BY <1>1, <1>3, <1>4, <1>5, <1>6, <1>8, <1>9 DEF JobTyped
<1>11. IsJob(job')
  BY <1>9, <1>10, JobParts
<1> QED BY <1>1, <1>4, <1>5, <1>7, <1>8, <1>9, <1>11 DEF Same, P, files, done, material, names

SetBacked(i, x) == [i EXCEPT !.backed = x]
LEMMA Rebacked ==
  ASSUME NEW i, IsIndex(i), NEW x \in BOOLEAN
  PROVE  LET c == SetBacked(i, x) IN
         /\ IsIndex(c) /\ c.db = i.db /\ c.backed = x /\ c.unwritten = i.unwritten
         /\ c.files = i.files /\ c.filters = i.filters
         /\ c.symbols = i.symbols /\ c.records = i.records /\ c.spans = i.spans
BY DEF IsIndex, SetBacked

SetDb(i, x) == [i EXCEPT !.db = x]
LEMMA Moved ==
  ASSUME NEW i, IsIndex(i), NEW x \in Databases
  PROVE  LET c == SetDb(i, x) IN
         /\ IsIndex(c) /\ c.db = x /\ c.backed = i.backed /\ c.unwritten = i.unwritten
         /\ c.files = i.files /\ c.filters = i.filters
         /\ c.symbols = i.symbols /\ c.records = i.records /\ c.spans = i.spans
BY DEF IsIndex, SetDb

SetUnwritten(i, x) == [i EXCEPT !.unwritten = x]
LEMMA LeftUnwritten ==
  ASSUME NEW i, IsIndex(i), NEW x \in BOOLEAN
  PROVE  LET c == SetUnwritten(i, x) IN
         /\ IsIndex(c) /\ c.db = i.db /\ c.backed = i.backed /\ c.unwritten = x
         /\ c.files = i.files /\ c.filters = i.filters
         /\ c.symbols = i.symbols /\ c.records = i.records /\ c.spans = i.spans
BY DEF IsIndex, SetUnwritten

SetFiles(i, x) == [i EXCEPT !.files = x]
SetFilters(i, x) == [i EXCEPT !.filters = x]

LEMMA FilesSet ==
  ASSUME NEW i, IsIndex(i), NEW x \in [Paths -> Text]
  PROVE  LET c == SetFiles(i, x) IN
         /\ IsIndex(c) /\ c.db = i.db /\ c.backed = i.backed /\ c.unwritten = i.unwritten
         /\ c.files = x /\ c.filters = i.filters
         /\ c.symbols = i.symbols /\ c.records = i.records /\ c.spans = i.spans
BY Refiled DEF SetFiles

LEMMA FiltersSet ==
  ASSUME NEW i, IsIndex(i), NEW x, x = NoRow \/ x \in FilterTables
  PROVE  LET c == SetFilters(i, x) IN
         /\ IsIndex(c) /\ c.db = i.db /\ c.backed = i.backed /\ c.unwritten = i.unwritten
         /\ c.files = i.files /\ c.filters = x
         /\ c.symbols = i.symbols /\ c.records = i.records /\ c.spans = i.spans
BY Refiltered DEF SetFilters

LEMMA ParseRebuildEffect ==
  ASSUME CachesTypeOK, ParseRebuild
  PROVE  /\ job # NoJob /\ job.stage = "started" /\ job.kind = "rebuild"
         /\ IsJob(job') /\ job'.kind = "rebuild" /\ job'.stage = "parsed"
         /\ job'.versions = job.versions /\ job'.parsed = text
         /\ job'.copy.files = text /\ job'.copy.backed = FALSE
         /\ job'.copy.unwritten = job.copy.unwritten /\ job'.copy.symbols = job.copy.symbols
         /\ job'.copy.records = job.copy.records /\ job'.copy.spans = job.copy.spans
         /\ job'.updates = job.updates
<1>1. /\ job # NoJob /\ job.stage = "started" /\ job.kind = "rebuild"
      /\ JobShape(job) /\ JobTyped(job) /\ text \in [Paths -> Text]
  BY JobParts DEF ParseRebuild, CachesTypeOK
<1> DEFINE mid == SetParsed(SetStage(job, "parsed"), text)
           filed == SetFiles(mid.copy, text)
           copy == SetBacked(filed, FALSE)
<1>2. job' = SetCopy(mid, copy)
  BY DEF ParseRebuild, Working, SetCopy, SetParsed, SetStage, SetBacked, SetFiles
<1>3. /\ JobShape(mid) /\ mid.kind = "rebuild" /\ mid.stage = "parsed" /\ mid.ready = job.ready
      /\ mid.gone = job.gone /\ mid.updates = job.updates /\ mid.material = job.material
      /\ mid.parsed = text /\ mid.versions = job.versions /\ mid.copy = job.copy
  BY <1>1, SetStageFields, SetParsedFields
<1> HIDE DEF mid
<1>4. /\ IsIndex(copy) /\ copy.files = text /\ copy.backed = FALSE
      /\ copy.unwritten = job.copy.unwritten /\ copy.symbols = job.copy.symbols
      /\ copy.records = job.copy.records /\ copy.spans = job.copy.spans
  <2>1. IsIndex(mid.copy)
    BY <1>1, <1>3 DEF JobTyped
  <2>2. /\ IsIndex(filed) /\ filed.files = text /\ filed.unwritten = mid.copy.unwritten
        /\ filed.symbols = mid.copy.symbols /\ filed.records = mid.copy.records
        /\ filed.spans = mid.copy.spans
    BY <1>1, <2>1, FilesSet
  <2> HIDE DEF filed
  <2> QED BY <1>3, <2>2, Rebacked
<1> HIDE DEF copy
<1>5. /\ JobShape(job') /\ job'.kind = "rebuild" /\ job'.stage = "parsed" /\ job'.ready = job.ready
      /\ job'.gone = job.gone /\ job'.updates = job.updates /\ job'.material = job.material
      /\ job'.parsed = text /\ job'.versions = job.versions /\ job'.copy = copy
  BY <1>2, <1>3, SetCopyFields
<1>6. JobTyped(job')
  BY <1>1, <1>4, <1>5 DEF JobTyped
<1>7. IsJob(job')
  BY <1>5, <1>6, JobParts
<1> QED BY <1>1, <1>4, <1>5, <1>7

HotOf(exports, files) == [k \in HotKeys |-> Keyed(exports, k) \union Keyed(Pairs(files), k)]

LEMMA FastReconcileEffect ==
  ASSUME CachesTypeOK, FastReconcile
  PROVE  /\ job # NoJob /\ job.stage = "started" /\ job.kind = "reconcile"
         /\ job.copy.backed /\ Unchanged(job.copy.db)
         /\ IsJob(job') /\ job'.kind = "reconcile" /\ job'.stage = "written"
         /\ job'.versions = job.versions /\ job'.updates = job.updates
         /\ job'.parsed = job.parsed /\ job'.gone = job.gone
         /\ job'.copy.db = job.copy.db
         /\ job'.copy.backed = (Stored(job.copy.db) # {}) /\ job'.copy.unwritten = FALSE
         /\ job'.copy.files = [p \in Paths |-> Absent]
         /\ job'.copy.filters = FiltersOf(dbRows[job.copy.db])
         /\ job'.copy.records = Empty /\ job'.copy.spans = Empty
         /\ job'.copy.symbols = Over(HotOf(table[job.copy.db], [p \in Paths |-> Absent]), Empty)
<1> DEFINE mid == SetStage(job, "written")
           db == job.copy.db
           base == Hydrated(mid.copy.db)
           hot == PrewarmHot(base, table[mid.copy.db])
           filters == FiltersOf(dbRows[db])
           copy == SetFilters(hot, filters)
<1>1. /\ job # NoJob /\ job.stage = "started" /\ job.kind = "reconcile"
      /\ job.copy.backed /\ Unchanged(job.copy.db)
      /\ JobShape(job) /\ JobTyped(job)
  BY JobParts DEF FastReconcile, CachesTypeOK
<1>2. job' = SetCopy(mid, copy)
  BY DEF FastReconcile, Working, SetCopy, SetStage, SetFilters
<1>3. /\ JobShape(mid) /\ mid.kind = "reconcile" /\ mid.stage = "written" /\ mid.ready = job.ready
      /\ mid.gone = job.gone /\ mid.updates = job.updates /\ mid.material = job.material
      /\ mid.parsed = job.parsed /\ mid.versions = job.versions /\ mid.copy = job.copy
  BY <1>1, SetStageFields
<1> HIDE DEF mid
<1>4. db \in Databases /\ dbRows[db] \in [Paths -> FileRow \union {Absent}]
  BY <1>1 DEF JobTyped, IsIndex, CachesTypeOK
<1>5. filters \in FilterTables
  BY <1>4, FiltersOfRows
<1>6. /\ IsIndex(base) /\ base.db = db /\ base.backed = (Stored(db) # {})
      /\ base.files = [p \in Paths |-> Absent] /\ EmptyCaches(base) /\ base.unwritten = FALSE
  BY <1>3, <1>4, HydratedType, HydratedFields
<1> HIDE DEF base
<1>7. /\ IsIndex(hot) /\ Same(hot, base)
      /\ hot.records = base.records /\ hot.spans = base.spans
      /\ hot.symbols = Over(HotOf(table[mid.copy.db], base.files), base.symbols)
  BY <1>6, HotPrewarmed DEF HotOf
<1> HIDE DEF hot, filters
<1>8. /\ IsIndex(copy) /\ copy.db = hot.db /\ copy.backed = hot.backed
      /\ copy.unwritten = hot.unwritten /\ copy.files = hot.files /\ copy.filters = filters
      /\ copy.symbols = hot.symbols /\ copy.records = hot.records /\ copy.spans = hot.spans
  BY <1>5, <1>7, FiltersSet
<1> HIDE DEF copy
<1>9. /\ JobShape(job') /\ job'.kind = "reconcile" /\ job'.stage = "written" /\ job'.ready = job.ready
      /\ job'.gone = job.gone /\ job'.updates = job.updates /\ job'.material = job.material
      /\ job'.parsed = job.parsed /\ job'.versions = job.versions /\ job'.copy = copy
  BY <1>2, <1>3, SetCopyFields
<1>10. JobTyped(job')
  BY <1>1, <1>8, <1>9 DEF JobTyped
<1>11. IsJob(job')
  BY <1>9, <1>10, JobParts
<1>12. /\ hot.symbols = Over(HotOf(table[db], [p \in Paths |-> Absent]), Empty)
       /\ hot.records = Empty /\ hot.spans = Empty
  BY <1>3, <1>6, <1>7 DEF EmptyCaches
<1> QED BY <1>1, <1>6, <1>7, <1>8, <1>9, <1>11, <1>12 DEF Same, filters

ReconcileParse ==
  [p \in Paths |-> IF p \in Stored(job.copy.db) /\ dbRows[job.copy.db][p].print = text[p]
                   THEN Absent ELSE text[p]]
ReconcileGone == Stored(job.copy.db) \ Existing

LEMMA ParseReconcileEffect ==
  ASSUME CachesTypeOK, ParseReconcile
  PROVE  /\ job # NoJob /\ job.stage = "started" /\ job.kind = "reconcile"
         /\ IsJob(job') /\ job'.kind = "reconcile" /\ job'.stage = "parsed"
         /\ job'.versions = job.versions /\ job'.updates = job.updates
         /\ job'.parsed = ReconcileParse /\ job'.gone = ReconcileGone
         /\ job'.material =
              (({p \in Paths : ReconcileParse[p] # Absent} \union ReconcileGone) \cap Material # {})
         /\ job'.copy = Hydrated(job.copy.db)
<1> DEFINE material == ({p \in Paths : ReconcileParse[p] # Absent} \union ReconcileGone) \cap Material # {}
           P == ReconcileParse
           G == ReconcileGone
           copy == Hydrated(job.copy.db)
<1>1. /\ job # NoJob /\ job.stage = "started" /\ job.kind = "reconcile"
      /\ JobShape(job) /\ JobTyped(job) /\ text \in [Paths -> Text]
  BY JobParts DEF ParseReconcile, CachesTypeOK
<1>2. job' = SetCopy(SetMaterial(SetGone(SetParsed(SetStage(job, "parsed"), P), G), material), copy)
  BY DEF ParseReconcile, Working, SetCopy, SetMaterial, SetGone, SetParsed, SetStage,
         ReconcileParse, ReconcileGone
<1>3. P \in [Paths -> Text] /\ G \subseteq Paths /\ material \in BOOLEAN
  BY <1>1 DEF ReconcileParse, ReconcileGone, Stored, Text
<1>4. IsIndex(copy)
  BY <1>1, HydratedType DEF JobTyped, IsIndex
<1> HIDE DEF P, G, material, copy
<1>5. /\ JobShape(job') /\ job'.kind = "reconcile" /\ job'.stage = "parsed" /\ job'.ready = job.ready
      /\ job'.gone = G /\ job'.updates = job.updates /\ job'.material = material
      /\ job'.parsed = P /\ job'.versions = job.versions /\ job'.copy = copy
  BY <1>1, <1>2, SetStageFields, SetParsedFields, SetMaterialFields, SetGoneFields, SetCopyFields
<1>6. JobTyped(job')
  BY <1>1, <1>3, <1>4, <1>5 DEF JobTyped
<1>7. IsJob(job')
  BY <1>5, <1>6, JobParts
<1> QED BY <1>1, <1>5, <1>7 DEF P, G, material, copy

-----------------------------------------------------------------------------
(* What is written.                                                        *)

Rows == [Paths -> FileRow \union {Absent}]

RowOf(names, now) == [names |-> names, spans |-> now, print |-> now]

LEMMA RowFields ==
  ASSUME NEW names \in SUBSET Identifiers, NEW now \in SUBSET Identifiers
  PROVE  LET row == RowOf(names, now) IN
         /\ row \in FileRow /\ row # Absent
         /\ row.names = names /\ row.spans = now /\ row.print = now
<1>1. RowOf(names, now) \in FileRow
  BY DEF RowOf, FileRow
<1> QED BY <1>1, NothingIsAbsent DEF RowOf

LEMMA WrittenRows ==
  ASSUME CachesTypeOK, NEW stored \in Rows, NEW parsed \in [Paths -> Text], NEW gone \in SUBSET Paths,
         \A p \in Paths : parsed[p] # Absent => text[p] # Absent
  PROVE  LET w == Written(stored, parsed, gone) IN
         /\ w \in Rows
         /\ \A p \in Paths : parsed[p] # Absent =>
              w[p] # Absent /\ w[p].names = parsed[p] /\ w[p].spans = text[p] /\ w[p].print = text[p]
         /\ \A p \in Paths : parsed[p] = Absent =>
              /\ p \in gone => w[p] = Absent
              /\ p \notin gone => w[p] = stored[p]
<1>1. ASSUME NEW p \in Paths, parsed[p] # Absent
      PROVE  LET row == RowOf(parsed[p], text[p]) IN
             /\ row \in FileRow /\ row # Absent
             /\ row.names = parsed[p] /\ row.spans = text[p] /\ row.print = text[p]
  <2>1. parsed[p] \in SUBSET Identifiers /\ text[p] \in SUBSET Identifiers
    BY <1>1 DEF CachesTypeOK, Text
  <2> QED BY <2>1, RowFields
<1>2. PICK w : w = Written(stored, parsed, gone)
  OBVIOUS
<1>3. /\ w = [p \in Paths |-> w[p]]
      /\ \A p \in Paths : w[p] = IF parsed[p] # Absent THEN RowOf(parsed[p], text[p])
                                 ELSE IF p \in gone THEN Absent ELSE stored[p]
  BY <1>2 DEF Written, RowOf
<1>4. ASSUME NEW p \in Paths PROVE w[p] \in FileRow \union {Absent}
  <2>1. CASE parsed[p] # Absent
    BY <2>1, <1>1, <1>3
  <2>2. CASE parsed[p] = Absent
    <3>1. stored[p] \in FileRow \union {Absent}
      BY DEF Rows
    <3> QED BY <2>2, <3>1, <1>3
  <2> QED BY <2>1, <2>2
<1>5. w \in Rows
  BY <1>3, <1>4 DEF Rows
<1> QED BY <1>1, <1>2, <1>3, <1>5

LEMMA NamesOfRow ==
  ASSUME NEW stored \in Rows, NEW p \in Paths, stored[p] # Absent
  PROVE  stored[p] \in FileRow /\ stored[p].names \in SUBSET Identifiers /\ stored[p].names # Absent
<1>1. stored[p] \in FileRow
  BY DEF Rows
<1>2. stored[p].names \in SUBSET Identifiers
  BY <1>1 DEF FileRow
<1> QED BY <1>1, <1>2, NothingIsAbsent

LEMMA PairsOf ==
  ASSUME NEW files
  PROVE  /\ Pairs(files) \subseteq Paths \X Identifiers
         /\ \A p \in Paths, n \in Identifiers :
              <<p, n>> \in Pairs(files) <=> files[p] # Absent /\ n \in files[p]
BY DEF Pairs

LEMMA ExportsOf ==
  ASSUME NEW stored \in Rows
  PROVE  /\ Exports(stored) \subseteq Paths \X Identifiers
         /\ \A p \in Paths, n \in Identifiers : <<p, n>> \in Exports(stored) <=>
              p \in Material /\ stored[p] # Absent /\ n \in stored[p].names
<1> DEFINE names == [p \in Paths |-> IF stored[p] = Absent THEN Absent ELSE stored[p].names]
<1>1. Exports(stored) = {s \in Pairs(names) : s[1] \in Material}
  BY DEF Exports
<1>2. ASSUME NEW p \in Paths
      PROVE  names[p] # Absent <=> stored[p] # Absent
  BY NamesOfRow
<1>3. ASSUME NEW p \in Paths, stored[p] # Absent
      PROVE  names[p] = stored[p].names
  BY <1>3
<1> HIDE DEF names
<1>4. /\ Pairs(names) \subseteq Paths \X Identifiers
      /\ \A p \in Paths, n \in Identifiers :
           <<p, n>> \in Pairs(names) <=> names[p] # Absent /\ n \in names[p]
  BY PairsOf
<1>5. Exports(stored) \subseteq Paths \X Identifiers
  BY <1>1, <1>4
<1>6. ASSUME NEW p \in Paths, NEW n \in Identifiers
      PROVE  <<p, n>> \in Exports(stored) <=> p \in Material /\ stored[p] # Absent /\ n \in stored[p].names
  <2>1. <<p, n>> \in Exports(stored) <=> p \in Material /\ <<p, n>> \in Pairs(names)
    BY <1>1
  <2> QED BY <2>1, <1>2, <1>3, <1>4
<1> QED BY <1>5, <1>6

LEMMA RowPairsOf ==
  ASSUME CachesTypeOK, NEW db \in Databases
  PROVE  RowPairs(db) = RowsPairs(dbRows[db])
<1> DEFINE names == [p \in Paths |-> IF p \in Stored(db) THEN dbRows[db][p].names ELSE Absent]
<1>1. RowPairs(db) = Pairs(names)
  BY DEF RowPairs
<1>2. dbRows[db] \in Rows
  BY DEF CachesTypeOK, Rows
<1>3. ASSUME NEW p \in Paths
      PROVE  /\ names[p] # Absent <=> dbRows[db][p] # Absent
             /\ dbRows[db][p] # Absent => names[p] = dbRows[db][p].names
  BY <1>2, NamesOfRow DEF Stored
<1> HIDE DEF names
<1>4. \A s \in Paths \X Identifiers :
        names[s[1]] # Absent /\ s[2] \in names[s[1]] <=>
          dbRows[db][s[1]] # Absent /\ s[2] \in dbRows[db][s[1]].names
  BY <1>3
<1> QED BY <1>1, <1>4 DEF Pairs, RowsPairs

LEMMA RowsPairsOf ==
  ASSUME NEW rows
  PROVE  /\ RowsPairs(rows) \subseteq Paths \X Identifiers
         /\ \A p \in Paths, n \in Identifiers :
              <<p, n>> \in RowsPairs(rows) <=> rows[p] # Absent /\ n \in rows[p].names
BY DEF RowsPairs

StaysBacked(stored) ==
  (job.kind = "reconcile" \/ job.copy.backed) /\ \E p \in Paths : stored[p] # Absent
Merges(stored) == job.kind = "refresh" /\ StaysBacked(stored) /\ job.ready
Rehots == job.kind = "reconcile" \/ job.material

LEMMA FinishedFields ==
  ASSUME NEW copy, IsIndex(copy), NEW stored \in Rows, NEW exports, IsJob(job)
  PROVE  LET j == Finished(copy, stored, exports) IN
         /\ IsJob(j) /\ j.kind = job.kind /\ j.stage = "written"
         /\ j.versions = job.versions /\ j.parsed = job.parsed /\ j.gone = job.gone
         /\ j.ready = job.ready
         /\ j.updates = Merges(stored)
         /\ j.copy.db = copy.db /\ j.copy.backed = StaysBacked(stored)
         /\ j.copy.unwritten = copy.unwritten /\ j.copy.files = copy.files
         /\ j.copy.filters = IF StaysBacked(stored) /\ ~Merges(stored) THEN FiltersOf(stored) ELSE NoRow
         /\ j.copy.records = copy.records /\ j.copy.spans = copy.spans
         /\ j.copy.symbols = IF Rehots THEN Over(HotOf(exports, copy.files), copy.symbols)
                             ELSE copy.symbols
<1> DEFINE backed == StaysBacked(stored)
           merges == Merges(stored)
           hot == IF Rehots THEN PrewarmHot(copy, exports) ELSE copy
           filters == IF backed /\ ~merges THEN FiltersOf(stored) ELSE NoRow
           based == SetBacked(hot, backed)
           done == SetFilters(based, filters)
           j == Finished(copy, stored, exports)
<1>1. /\ JobShape(job) /\ JobTyped(job)
  BY JobParts
<1>2. j = SetCopy(SetUpdates(SetStage(job, "written"), merges), done)
  BY DEF Finished, SetCopy, SetUpdates, SetStage, SetFilters, SetBacked, StaysBacked, Merges, Rehots
<1>3. backed \in BOOLEAN /\ merges \in BOOLEAN /\ (filters = NoRow \/ filters \in FilterTables)
  BY <1>1, FiltersOfRows DEF StaysBacked, Merges, JobTyped, Rows
<1>4. /\ IsIndex(hot) /\ Same(hot, copy) /\ hot.records = copy.records /\ hot.spans = copy.spans
      /\ hot.symbols = IF Rehots THEN Over(HotOf(exports, copy.files), copy.symbols) ELSE copy.symbols
  <2>1. CASE Rehots
    BY <2>1, HotPrewarmed DEF HotOf
  <2>2. CASE ~Rehots
    BY <2>2 DEF Same
  <2> QED BY <2>1, <2>2
<1> HIDE DEF backed, merges, filters, hot
<1>5. /\ IsIndex(based) /\ based.db = hot.db /\ based.backed = backed /\ based.unwritten = hot.unwritten
      /\ based.files = hot.files /\ based.symbols = hot.symbols
      /\ based.records = hot.records /\ based.spans = hot.spans
  BY <1>3, <1>4, Rebacked
<1> HIDE DEF based
<1>6. /\ IsIndex(done) /\ done.db = based.db /\ done.backed = based.backed
      /\ done.unwritten = based.unwritten /\ done.files = based.files /\ done.filters = filters
      /\ done.symbols = based.symbols /\ done.records = based.records /\ done.spans = based.spans
  BY <1>3, <1>5, FiltersSet
<1> HIDE DEF done, j
<1>7. /\ JobShape(j) /\ j.kind = job.kind /\ j.stage = "written" /\ j.ready = job.ready
      /\ j.gone = job.gone /\ j.updates = merges /\ j.material = job.material
      /\ j.parsed = job.parsed /\ j.versions = job.versions /\ j.copy = done
  BY <1>1, <1>2, SetStageFields, SetUpdatesFields, SetCopyFields
<1>8. JobTyped(j)
  BY <1>1, <1>3, <1>6, <1>7 DEF JobTyped
<1>9. IsJob(j)
  BY <1>7, <1>8, JobParts
<1> QED BY <1>4, <1>5, <1>6, <1>7, <1>9 DEF Same, backed, merges, filters, j

-----------------------------------------------------------------------------
(* What the steps that write leave.                                        *)

\* The rows of db are now those of the parsed files beside what stored had.
Wrote(db, stored, parsed, gone) ==
  /\ dbRows' \in [Databases -> Rows]
  /\ \A d \in Databases : d # db => dbRows'[d] = dbRows[d] /\ table'[d] = table[d]
  /\ \A p \in Paths : parsed[p] # Absent =>
       /\ dbRows'[db][p] # Absent /\ dbRows'[db][p].names = parsed[p]
       /\ dbRows'[db][p].spans = text[p] /\ dbRows'[db][p].print = text[p]
  /\ \A p \in Paths : parsed[p] = Absent =>
       /\ p \in gone => dbRows'[db][p] = Absent
       /\ p \notin gone => dbRows'[db][p] = stored[p]

\* A job that has written, whose index was to be copy.
Finishes(copy, stored, exports) ==
  /\ IsJob(job') /\ job'.kind = job.kind /\ job'.stage = "written"
  /\ job'.versions = job.versions /\ job'.parsed = job.parsed /\ job'.gone = job.gone
  /\ job'.ready = job.ready
  /\ job'.updates = Merges(stored)
  /\ job'.copy.db = copy.db /\ job'.copy.backed = StaysBacked(stored)
  /\ job'.copy.unwritten = copy.unwritten /\ job'.copy.files = copy.files
  /\ job'.copy.filters = IF StaysBacked(stored) /\ ~Merges(stored) THEN FiltersOf(stored) ELSE NoRow
  /\ job'.copy.records = copy.records /\ job'.copy.spans = copy.spans
  /\ job'.copy.symbols = IF Rehots THEN Over(HotOf(exports, copy.files), copy.symbols)
                         ELSE copy.symbols

LEMMA WriteRowsEffect ==
  ASSUME CachesTypeOK, WriteRows
  PROVE  /\ job # NoJob /\ job.stage = "parsed" /\ job.kind \in {"reconcile", "refresh"}
         /\ Wrote(job.copy.db, dbRows[job.copy.db], job.parsed, job.gone)
         /\ table'[job.copy.db] = IF job.material THEN Exports(dbRows'[job.copy.db])
                                  ELSE table[job.copy.db]
         /\ table' \in [Databases -> SUBSET (Paths \X Identifiers)]
         /\ Finishes(job.copy, dbRows'[job.copy.db], table'[job.copy.db])
         /\ UNCHANGED <<text, unseen, pending, removed, index, query, current>>
<1> DEFINE db == job.copy.db
           stored == Written(dbRows[db], job.parsed, job.gone)
           exports == IF job.material THEN Exports(stored) ELSE table[db]
<1>1. /\ job # NoJob /\ job.stage = "parsed" /\ job.kind \in {"reconcile", "refresh"}
      /\ IsJob(job) /\ JobTyped(job) /\ db \in Databases /\ IsIndex(job.copy)
  BY JobParts DEF WriteRows, CachesTypeOK, JobTyped, IsIndex
<1>2. dbRows[db] \in Rows /\ table[db] \subseteq Paths \X Identifiers
  BY <1>1 DEF CachesTypeOK, Rows
<1>3. \A p \in Paths : job.parsed[p] # Absent => text[p] # Absent
  BY DEF WriteRows, Writable
<1>4. /\ dbRows' = [dbRows EXCEPT ![db] = stored] /\ table' = [table EXCEPT ![db] = exports]
      /\ job' = Finished(job.copy, stored, exports)
      /\ UNCHANGED <<text, unseen, pending, removed, index, query, current>>
  BY DEF WriteRows, Working
<1>5. /\ stored \in Rows
      /\ \A p \in Paths : job.parsed[p] # Absent =>
           /\ stored[p] # Absent /\ stored[p].names = job.parsed[p]
           /\ stored[p].spans = text[p] /\ stored[p].print = text[p]
      /\ \A p \in Paths : job.parsed[p] = Absent =>
           /\ p \in job.gone => stored[p] = Absent
           /\ p \notin job.gone => stored[p] = dbRows[db][p]
  BY <1>1, <1>2, <1>3, WrittenRows DEF JobTyped
<1> HIDE DEF stored
<1>6. exports \subseteq Paths \X Identifiers
  BY <1>2, <1>5, ExportsOf
<1>7. exports = IF job.material THEN Exports(stored) ELSE table[db]
  OBVIOUS
<1> HIDE DEF exports
<1>8. dbRows \in [Databases -> Rows] /\ table \in [Databases -> SUBSET (Paths \X Identifiers)]
  BY DEF CachesTypeOK, Rows
<1>9. /\ dbRows' \in [Databases -> Rows] /\ dbRows'[db] = stored
      /\ \A d \in Databases : d # db => dbRows'[d] = dbRows[d]
  BY <1>1, <1>4, <1>5, <1>8
<1>10. /\ table' \in [Databases -> SUBSET (Paths \X Identifiers)] /\ table'[db] = exports
       /\ \A d \in Databases : d # db => table'[d] = table[d]
  BY <1>1, <1>4, <1>6, <1>8
<1>11. Finishes(job.copy, stored, exports)
  BY <1>1, <1>4, <1>5, FinishedFields DEF Finishes
<1>12. Wrote(db, dbRows[db], job.parsed, job.gone)
  BY <1>5, <1>9, <1>10 DEF Wrote
<1> QED BY <1>1, <1>4, <1>7, <1>9, <1>10, <1>11, <1>12

LEMMA FallBackEffect ==
  ASSUME CachesTypeOK, FallBack
  PROVE  /\ job # NoJob /\ job.stage = "parsed" /\ job.kind \in {"reconcile", "refresh"}
         /\ Wrote("fallback", NoRows, text, {})
         /\ table'["fallback"] = Exports(dbRows'["fallback"])
         /\ table' \in [Databases -> SUBSET (Paths \X Identifiers)]
         /\ \E copy : /\ IsIndex(copy) /\ copy.db = "fallback" /\ copy.files = text
                      /\ EmptyCaches(copy) /\ copy.unwritten = FALSE
                      /\ Finishes(copy, dbRows'["fallback"], table'["fallback"])
         /\ UNCHANGED <<text, unseen, pending, removed, index, query, current>>
<1> DEFINE db == "fallback"
           stored == Written(NoRows, text, {})
           exports == Exports(stored)
           base == Hydrated(db)
           copy == SetFiles(base, text)
<1>1. /\ job # NoJob /\ job.stage = "parsed" /\ job.kind \in {"reconcile", "refresh"}
      /\ IsJob(job) /\ JobTyped(job) /\ text \in [Paths -> Text]
  BY JobParts DEF FallBack, CachesTypeOK, JobTyped
<1>2. db \in Databases /\ NoRows \in Rows
  BY DEF Databases, NoRows, Rows
<1>4. /\ dbRows' = [dbRows EXCEPT ![db] = stored] /\ table' = [table EXCEPT ![db] = exports]
      /\ job' = Finished(copy, stored, exports)
      /\ UNCHANGED <<text, unseen, pending, removed, index, query, current>>
  BY DEF FallBack, Working, SetFiles
<1>5. /\ stored \in Rows
      /\ \A p \in Paths : text[p] # Absent =>
           /\ stored[p] # Absent /\ stored[p].names = text[p]
           /\ stored[p].spans = text[p] /\ stored[p].print = text[p]
      /\ \A p \in Paths : text[p] = Absent =>
           /\ p \in {} => stored[p] = Absent
           /\ p \notin {} => stored[p] = NoRows[p]
  BY <1>1, <1>2, WrittenRows
<1> HIDE DEF stored
<1>6. exports \subseteq Paths \X Identifiers
  BY <1>5, ExportsOf
<1>7. exports = Exports(stored)
  OBVIOUS
<1>3. IsIndex(base) /\ base.db = db /\ EmptyCaches(base) /\ base.unwritten = FALSE
  BY <1>2, HydratedType, HydratedFields
<1> HIDE DEF exports, base
<1>31. /\ IsIndex(copy) /\ copy.db = base.db /\ copy.files = text /\ copy.unwritten = base.unwritten
       /\ copy.symbols = base.symbols /\ copy.records = base.records /\ copy.spans = base.spans
  BY <1>1, <1>3, FilesSet
<1>32. EmptyCaches(copy)
  BY <1>3, <1>31 DEF EmptyCaches
<1> HIDE DEF copy, db
<1>8. dbRows \in [Databases -> Rows] /\ table \in [Databases -> SUBSET (Paths \X Identifiers)]
  BY DEF CachesTypeOK, Rows
<1>9. /\ dbRows' \in [Databases -> Rows] /\ dbRows'[db] = stored
      /\ \A d \in Databases : d # db => dbRows'[d] = dbRows[d]
  BY <1>2, <1>4, <1>5, <1>8
<1>10. /\ table' \in [Databases -> SUBSET (Paths \X Identifiers)] /\ table'[db] = exports
       /\ \A d \in Databases : d # db => table'[d] = table[d]
  BY <1>2, <1>4, <1>6, <1>8
<1>11. Finishes(copy, stored, exports)
  BY <1>1, <1>4, <1>5, <1>31, FinishedFields DEF Finishes
<1>12. Wrote(db, NoRows, text, {})
  BY <1>5, <1>9, <1>10 DEF Wrote
<1> QED BY <1>1, <1>3, <1>31, <1>32, <1>4, <1>7, <1>9, <1>10, <1>11, <1>12 DEF db

LEMMA WriteAllEffect ==
  ASSUME CachesTypeOK, WriteAll
  PROVE  /\ job # NoJob /\ job.stage = "parsed" /\ job.kind = "rebuild"
         /\ IsJob(job') /\ job'.kind = "rebuild" /\ job'.stage = "written"
         /\ job'.versions = job.versions /\ job'.parsed = job.parsed /\ job'.updates = job.updates
         /\ job'.copy.backed = job.copy.backed /\ job'.copy.files = job.copy.files
         /\ job'.copy.symbols = job.copy.symbols /\ job'.copy.records = job.copy.records
         /\ job'.copy.spans = job.copy.spans
         /\ dbRows' \in [Databases -> Rows]
         /\ table' \in [Databases -> SUBSET (Paths \X Identifiers)]
         /\ \/ /\ Wrote(job.copy.db, NoRows, job.parsed, {})
               /\ table'[job.copy.db] = Exports(dbRows'[job.copy.db])
               /\ job'.copy.db = job.copy.db
            \/ /\ UNCHANGED <<dbRows, table>>
               /\ job'.copy.unwritten = TRUE
         /\ UNCHANGED <<text, unseen, pending, removed, index, query, current>>
<1> DEFINE db == job.copy.db
           stored == Written(NoRows, job.parsed, {})
           exports == Exports(stored)
           mid == SetStage(job, "written")
           copy == SetUnwritten(SetDb(mid.copy, "fallback"), TRUE)
<1>1. /\ job # NoJob /\ job.stage = "parsed" /\ job.kind = "rebuild"
      /\ IsJob(job) /\ JobTyped(job) /\ JobShape(job) /\ db \in Databases /\ IsIndex(job.copy)
  BY JobParts DEF WriteAll, CachesTypeOK, JobTyped, IsIndex
<1>2. NoRows \in Rows /\ "fallback" \in Databases
  BY DEF NoRows, Rows, Databases
<1>3. /\ JobShape(mid) /\ mid.kind = "rebuild" /\ mid.stage = "written" /\ mid.ready = job.ready
      /\ mid.gone = job.gone /\ mid.updates = job.updates /\ mid.material = job.material
      /\ mid.parsed = job.parsed /\ mid.versions = job.versions /\ mid.copy = job.copy
  BY <1>1, SetStageFields
<1>4. UNCHANGED <<text, unseen, pending, removed, index, query, current>>
  BY DEF WriteAll, Working
<1>8. dbRows \in [Databases -> Rows] /\ table \in [Databases -> SUBSET (Paths \X Identifiers)]
  BY DEF CachesTypeOK, Rows
<1>5. CASE Writable /\ dbRows' = [dbRows EXCEPT ![db] = stored]
           /\ table' = [table EXCEPT ![db] = exports] /\ job' = mid
  <2>1. \A p \in Paths : job.parsed[p] # Absent => text[p] # Absent
    BY <1>5 DEF Writable
  <2>2. /\ stored \in Rows
        /\ \A p \in Paths : job.parsed[p] # Absent =>
             /\ stored[p] # Absent /\ stored[p].names = job.parsed[p]
             /\ stored[p].spans = text[p] /\ stored[p].print = text[p]
        /\ \A p \in Paths : job.parsed[p] = Absent =>
             /\ p \in {} => stored[p] = Absent
             /\ p \notin {} => stored[p] = NoRows[p]
    BY <1>1, <1>2, <2>1, WrittenRows DEF JobTyped
  <2> HIDE DEF stored
  <2>3. exports \subseteq Paths \X Identifiers
    BY <2>2, ExportsOf
  <2>4. exports = Exports(stored)
    OBVIOUS
  <2> HIDE DEF exports, mid
  <2>5. /\ dbRows' \in [Databases -> Rows] /\ dbRows'[db] = stored
        /\ \A d \in Databases : d # db => dbRows'[d] = dbRows[d]
    BY <1>1, <1>5, <2>2, <1>8
  <2>6. /\ table' \in [Databases -> SUBSET (Paths \X Identifiers)] /\ table'[db] = exports
        /\ \A d \in Databases : d # db => table'[d] = table[d]
    BY <1>1, <1>5, <2>3, <1>8
  <2>7. Wrote(db, NoRows, job.parsed, {})
    BY <2>2, <2>5, <2>6 DEF Wrote
  <2>8. JobTyped(job')
    BY <1>1, <1>3, <1>5 DEF JobTyped
  <2>9. IsJob(job')
    BY <1>3, <1>5, <2>8, JobParts
  <2> QED BY <1>1, <1>3, <1>4, <1>5, <2>4, <2>5, <2>6, <2>7, <2>9
<1>6. CASE UNCHANGED <<dbRows, table>> /\ job' = SetCopy(mid, copy)
  <2> HIDE DEF mid
  <2>1. PICK moved : moved = SetDb(mid.copy, "fallback")
    OBVIOUS
  <2>2. /\ IsIndex(moved) /\ moved.backed = job.copy.backed /\ moved.files = job.copy.files
        /\ moved.symbols = job.copy.symbols /\ moved.records = job.copy.records
        /\ moved.spans = job.copy.spans
    BY <1>1, <1>2, <1>3, <2>1, Moved
  <2>3. copy = SetUnwritten(moved, TRUE) /\ TRUE \in BOOLEAN
    BY <2>1
  <2> HIDE DEF copy
  <2>4. /\ IsIndex(copy) /\ copy.backed = moved.backed /\ copy.files = moved.files
        /\ copy.symbols = moved.symbols /\ copy.records = moved.records
        /\ copy.spans = moved.spans /\ copy.unwritten = TRUE
    BY <2>2, <2>3, LeftUnwritten
  <2>5. /\ JobShape(job') /\ job'.kind = "rebuild" /\ job'.stage = "written" /\ job'.ready = job.ready
        /\ job'.gone = job.gone /\ job'.updates = job.updates /\ job'.material = job.material
        /\ job'.parsed = job.parsed /\ job'.versions = job.versions /\ job'.copy = copy
    BY <1>3, <1>6, SetCopyFields
  <2>6. JobTyped(job')
    BY <1>1, <2>4, <2>5 DEF JobTyped
  <2>7. IsJob(job')
    BY <2>5, <2>6, JobParts
  <2> QED BY <1>1, <1>4, <1>6, <1>8, <2>2, <2>4, <2>5, <2>7
<1> QED
  <2>1. CASE Writable /\ dbRows' = [dbRows EXCEPT ![db] = stored]
             /\ table' = [table EXCEPT ![db] = exports] /\ Working([job EXCEPT !.stage = "written"])
    <3>1. job' = mid
      BY <2>1 DEF Working, SetStage
    <3> QED BY <1>5, <2>1, <3>1
  <2>2. CASE /\ Working([job EXCEPT !.stage = "written",
                               !.copy = [@ EXCEPT !.db = "fallback", !.unwritten = TRUE]])
             /\ UNCHANGED <<dbRows, table>>
    <3>1. job' = SetCopy(mid, copy)
      BY <2>2 DEF Working, SetStage, SetCopy, SetUnwritten, SetDb
    <3> HIDE DEF copy, mid
    <3> QED BY <1>6, <2>2, <3>1
  <2> QED BY <2>1, <2>2 DEF WriteAll

LEMMA StartEffect ==
  ASSUME CachesTypeOK, NEW kind \in {"reconcile", "rebuild", "refresh"}, NEW copy, IsIndex(copy),
         NEW S \in SUBSET Paths, Starting(NewJob(kind, "started", copy, S))
  PROVE  /\ job = NoJob
         /\ Fresh(job', kind, copy, S)
         /\ UNCHANGED <<text, unseen, pending, removed, dbRows, table, index, query, current, events>>
BY NewJobFields DEF Starting

\* Which job starts, and from which index.
LEMMA Starts ==
  ASSUME CachesTypeOK
  PROVE  /\ StartReconcile =>
              /\ ~current /\ IsIndex(index)
              /\ Starting(NewJob("reconcile", "started", index, {}))
         /\ StartRebuild =>
              /\ current /\ IsIndex(Hydrated(index.db))
              /\ Starting(NewJob("rebuild", "started", Hydrated(index.db), {}))
         /\ \A S \in SUBSET Paths : StartRefresh(S) =>
              /\ current /\ (\A p \in S : pending[p] # 0) /\ IsIndex(index)
              /\ Starting(NewJob("refresh", "started", index, S))
<1>1. IsIndex(index) /\ index.db \in Databases
  BY DEF CachesTypeOK, IsIndex
<1>2. IsIndex(Hydrated(index.db))
  BY <1>1, HydratedType
<1> QED BY <1>1, <1>2 DEF StartReconcile, StartRebuild, StartRefresh

LEMMA MergedIsTable ==
  ASSUME CachesTypeOK, job # NoJob
  PROVE  /\ Merged = NoRow \/ Merged \in FilterTables
         /\ job.updates => (Merged = NoRow <=> index.filters = NoRow)
<1>1. IsJob(job) /\ IsIndex(index) /\ IsIndex(job.copy)
  BY DEF CachesTypeOK, IsJob
<1>2. job.parsed \in [Paths -> Text] /\ job.gone \in SUBSET Paths
  BY <1>1 DEF IsJob
<1>3. index.filters = NoRow \/ index.filters \in FilterTables
  BY <1>1 DEF IsIndex
<1>4. job.copy.filters = NoRow \/ job.copy.filters \in FilterTables
  BY <1>1 DEF IsIndex
<1>5. CASE job.updates
  <2>1. Merged = PutFilters(index.filters, job.parsed, job.gone)
    BY <1>5 DEF Merged
  <2> QED BY <1>2, <1>3, <2>1, MergedType
<1>6. CASE ~job.updates
  BY <1>4, <1>6 DEF Merged
<1> QED BY <1>5, <1>6

LEMMA InstallEffect ==
  ASSUME CachesTypeOK, Install
  PROVE  /\ job # NoJob /\ job.stage = "written" /\ query = NoRow
         /\ IsIndex(index') /\ index'.db = job.copy.db /\ index'.backed = job.copy.backed
         /\ index'.unwritten = job.copy.unwritten /\ index'.files = job.copy.files
         /\ index'.filters = Merged
         /\ index'.symbols = job.copy.symbols /\ index'.records = job.copy.records
         /\ index'.spans = job.copy.spans
         /\ pending' \in [Paths -> Nat]
         /\ \A p \in Paths : Left(p) => pending'[p] = 0
         /\ \A p \in Paths : ~Left(p) => pending'[p] = pending[p]
         /\ job' = NoJob /\ current' = TRUE
         /\ UNCHANGED <<text, unseen, removed, dbRows, table, query, events>>
<1>1. /\ job # NoJob /\ job.stage = "written" /\ query = NoRow
      /\ index' = SetFilters(job.copy, Merged)
      /\ pending' = MarksLeft /\ job' = NoJob /\ current' = TRUE
      /\ UNCHANGED <<text, unseen, removed, dbRows, table, query, events>>
  BY DEF Install, SetFilters
<1>2. IsIndex(job.copy) /\ pending \in [Paths -> Nat]
  BY <1>1 DEF CachesTypeOK, IsJob
<1>3. Merged = NoRow \/ Merged \in FilterTables
  BY <1>1, MergedIsTable
<1>4. PICK filters : filters = Merged
  OBVIOUS
<1>5. /\ IsIndex(index') /\ index'.db = job.copy.db /\ index'.backed = job.copy.backed
      /\ index'.unwritten = job.copy.unwritten /\ index'.files = job.copy.files
      /\ index'.filters = filters
      /\ index'.symbols = job.copy.symbols /\ index'.records = job.copy.records
      /\ index'.spans = job.copy.spans
  BY <1>1, <1>2, <1>3, <1>4, FiltersSet
<1>6. /\ pending' = [p \in Paths |-> IF p \in DOMAIN job.versions /\ job.versions[p] = pending[p] THEN 0
                                     ELSE pending[p]]
  BY <1>1 DEF MarksLeft
<1>7. pending' \in [Paths -> Nat]
  BY <1>2, <1>6
<1>8. \A p \in Paths : (Left(p) => pending'[p] = 0) /\ (~Left(p) => pending'[p] = pending[p])
  BY <1>6 DEF Left
<1> QED BY <1>1, <1>4, <1>5, <1>7, <1>8

LEMMA CrashEffect ==
  ASSUME Crash
  PROVE  /\ (TornCrash \/ \A p \in EditablePaths : ~Torn(p))
         /\ IsIndex(index') /\ index' = Hydrated("primary")
         /\ job' = NoJob /\ query' = NoRow /\ current' = FALSE
         /\ unseen' = {} /\ pending' = [p \in Paths |-> 0] /\ removed' = {}
         /\ UNCHANGED <<text, dbRows, table>>
BY HydratedType DEF Crash, Databases

LEMMA ChangeEffect ==
  ASSUME CachesTypeOK, NEW p \in Paths, ChangeFile(p)
  PROVE  /\ text' \in [Paths -> Text]
         /\ \A q \in Paths : q # p => text'[q] = text[q]
         /\ unseen' = unseen \union {p}
         /\ UNCHANGED <<pending, removed, dbRows, table, index, job, query, current>>
<1>1. PICK t \in Texts[p] : text' = [text EXCEPT ![p] = t]
  BY DEF ChangeFile
<1>2. t \in Text
  BY CachesAssumption DEF Text
<1> QED BY <1>1, <1>2 DEF ChangeFile, CachesTypeOK

LEMMA MarkEffect ==
  ASSUME CachesTypeOK, NEW p \in Paths, Mark(p)
  PROVE  /\ p \in unseen /\ unseen' = unseen \ {p}
         /\ pending' \in [Paths -> Nat] /\ pending'[p] = pending[p] + 1
         /\ \A q \in Paths : q # p => pending'[q] = pending[q]
         /\ removed' = IF text[p] = Absent THEN removed \union {p} ELSE removed \ {p}
         /\ UNCHANGED <<text, dbRows, table, index, job, query, current, events>>
BY DEF Mark, CachesTypeOK

\* Steps that move neither text, marks, index, rows nor job.
Asks == UNCHANGED <<text, unseen, pending, removed, dbRows, table, index, job, current, events>>

LEMMA AskEffect ==
  /\ \A n : LookUp(n) => Asks /\ query = NoRow
  /\ \A p : OpenFile(p) => Asks /\ query = NoRow
  /\ \A n : FindReferences(n) => Asks /\ query = NoRow
  /\ ReadSpans => Asks
BY DEF LookUp, OpenFile, FindReferences, ReadSpans, Answering, Asks


-----------------------------------------------------------------------------
(* The invariant, and the steps that leave most of it alone.               *)

Texted == Covered /\ RowsCurrent /\ GoneIsGone /\ RowsWhole /\ RowsMade
Worked == JobKinds /\ StartedRefresh /\ ParsedRefresh /\ Rebuilding /\ ParsedReconcile /\ WrittenJob
CachesInv == CachesTypeOK /\ Texted /\ Worked /\ CachesRight /\ QueryRight /\ JobCaches

StillWorld == UNCHANGED <<text, unseen, pending, removed, dbRows, table, index, job, current>>

LEMMA StoredStill == ASSUME UNCHANGED dbRows PROVE \A db : Stored(db)' = Stored(db)
BY DEF Stored

LEMMA RowsStill ==
  ASSUME UNCHANGED <<dbRows, table>>
  PROVE  /\ \A db : Stored(db)' = Stored(db) /\ RowPairs(db)' = RowPairs(db)
         /\ \A n : SpansOf(n)' = {p \in EditablePaths : p \in Stored(index'.db) /\ n \in dbRows[index'.db][p].spans}
BY DEF Stored, RowPairs, SpansOf

LEMMA StillTexted ==
  ASSUME Texted, StillWorld
  PROVE  Texted'
<1> USE DEF StillWorld
<1>1. Covered'
  BY DEF Texted, Covered, Heard, Covers, Stored
<1>2. RowsCurrent'
  BY DEF Texted, RowsCurrent, Settled, Heard, RowRight, Stored
<1>3. GoneIsGone'
  BY DEF Texted, GoneIsGone
<1>4. RowsWhole'
  BY DEF Texted, RowsWhole, Settled, Stored
<1>5. RowsMade'
  BY DEF Texted, RowsMade, Stored, Exports, Pairs
<1> QED BY <1>1, <1>2, <1>3, <1>4, <1>5 DEF Texted

LEMMA StillWorked ==
  ASSUME Worked, StillWorld
  PROVE  Worked'
<1> USE DEF StillWorld
<1>1. JobKinds'
  BY DEF Worked, JobKinds
<1>2. StartedRefresh'
  BY DEF Worked, StartedRefresh, At, SameBase
<1>3. ParsedRefresh'
  BY DEF Worked, ParsedRefresh, At, SameBase
<1>4. Rebuilding'
  BY DEF Worked, Rebuilding, EmptyCaches, Heard
<1>5. ParsedReconcile'
  BY DEF Worked, ParsedReconcile, At, EmptyCaches, Heard, Stored
<1>6. WrittenJob'
  <2>1. Merged' = Merged
    BY DEF Merged
  <2>2. \A p : Left(p)' <=> Left(p)
    BY DEF Left
  <2> QED BY <2>1, <2>2 DEF Worked, WrittenJob, Heard, Covers, RowRight, Stored
<1> QED BY <1>1, <1>2, <1>3, <1>4, <1>5, <1>6 DEF Worked

LEMMA StillCached ==
  ASSUME UNCHANGED <<dbRows, table, index, job>>
  PROVE  /\ CachesRight => CachesRight'
         /\ JobCaches => JobCaches'
         /\ QueryRight /\ query' = query => QueryRight'
<1>1. CachesRight => CachesRight'
  BY DEF CachesRight, Settled
<1>2. JobCaches => JobCaches'
  BY DEF JobCaches, At
<1>3. QueryRight /\ query' = query => QueryRight'
  BY DEF QueryRight, Settled
<1> QED BY <1>1, <1>2, <1>3

-----------------------------------------------------------------------------
(* The world's steps keep the invariant.                                   *)

LEMMA ChangeKeeps ==
  ASSUME CachesInv, NEW p \in Paths, ChangeFile(p)
  PROVE  CachesInv'
<1>1. /\ text' \in [Paths -> Text]
      /\ \A q \in Paths : q # p => text'[q] = text[q]
      /\ unseen' = unseen \union {p}
      /\ UNCHANGED <<pending, removed, dbRows, table, index, job, query, current>>
  BY ChangeEffect DEF CachesInv
<1>0. CachesTypeOK /\ EditablePaths \subseteq Paths
  BY NothingIsAbsent DEF CachesInv
<1>2. CachesTypeOK'
  BY <1>1 DEF CachesInv, CachesTypeOK
<1>3. \A q : Heard(q)' => q \in Paths /\ q # p /\ Heard(q) /\ text'[q] = text[q]
  BY <1>0, <1>1 DEF Heard
<1>4. \A db : Stored(db)' = Stored(db)
  BY <1>1 DEF Stored
<1>5. Covered'
  BY <1>1, <1>3 DEF CachesInv, Texted, Covered, Covers, Stored
<1>6. RowsCurrent'
  BY <1>1, <1>3 DEF CachesInv, Texted, RowsCurrent, Settled, RowRight, Stored
<1>7. GoneIsGone'
  BY <1>0, <1>1 DEF CachesInv, Texted, GoneIsGone, CachesTypeOK
<1>8. RowsWhole'
  BY <1>1 DEF CachesInv, Texted, RowsWhole, Settled, Stored
<1>9. RowsMade'
  BY <1>1, <1>4 DEF CachesInv, Texted, RowsMade, Exports, Pairs
<1>10. JobKinds'
  <2>1. job # NoJob => job.gone \subseteq Paths
    BY DEF CachesInv, CachesTypeOK, IsJob
  <2> QED BY <1>1, <2>1 DEF CachesInv, Worked, JobKinds
<1>11. StartedRefresh'
  BY <1>1 DEF CachesInv, Worked, StartedRefresh, At, SameBase
<1>12. ParsedRefresh'
  BY <1>1 DEF CachesInv, Worked, ParsedRefresh, At, SameBase
<1>13. Rebuilding'
  BY <1>1, <1>3 DEF CachesInv, Worked, Rebuilding, EmptyCaches
<1>14. ParsedReconcile'
  BY <1>1, <1>3 DEF CachesInv, Worked, ParsedReconcile, At, EmptyCaches, Stored
<1>15. WrittenJob'
  <2>1. Merged' = Merged
    BY <1>1 DEF Merged
  <2>2. \A q : Left(q)' <=> Left(q)
    BY <1>1 DEF Left
  <2> QED BY <1>1, <1>3, <2>1, <2>2 DEF CachesInv, Worked, WrittenJob, Covers, RowRight, Stored
<1>16. CachesRight' /\ JobCaches' /\ QueryRight'
  BY <1>1, StillCached DEF CachesInv
<1> QED BY <1>2, <1>5, <1>6, <1>7, <1>8, <1>9, <1>10, <1>11, <1>12, <1>13, <1>14, <1>15, <1>16
        DEF CachesInv, Texted, Worked

LEMMA MarkKeeps ==
  ASSUME CachesInv, NEW p \in Paths, Mark(p)
  PROVE  CachesInv'
<1>0. CachesTypeOK /\ EditablePaths \subseteq Paths
  BY NothingIsAbsent DEF CachesInv
<1>1. /\ p \in unseen /\ unseen' = unseen \ {p}
      /\ pending' \in [Paths -> Nat] /\ pending'[p] = pending[p] + 1
      /\ \A q \in Paths : q # p => pending'[q] = pending[q]
      /\ removed' = IF text[p] = Absent THEN removed \union {p} ELSE removed \ {p}
      /\ UNCHANGED <<text, dbRows, table, index, job, query, current, events>>
  BY <1>0, MarkEffect
<1>2. CachesTypeOK'
  BY <1>0, <1>1 DEF CachesTypeOK
<1>3. /\ \A q \in Paths : pending'[q] = 0 => q # p /\ pending[q] = 0
      /\ \A q \in Paths : pending[q] <= pending'[q] /\ pending[q] \in Nat
      /\ pending'[p] # 0
  BY <1>0, <1>1 DEF CachesTypeOK
<1>4. \A q : q # p => (Heard(q)' <=> Heard(q))
  BY <1>1 DEF Heard
<1>5. Covered'
  BY <1>1, <1>3, <1>4 DEF CachesInv, Texted, Covered, Covers, Stored
<1>6. RowsCurrent'
  BY <1>1, <1>3, <1>4 DEF CachesInv, Texted, RowsCurrent, Settled, RowRight, Stored
<1>7. GoneIsGone'
  BY <1>0, <1>1 DEF CachesInv, Texted, GoneIsGone, CachesTypeOK
<1>8. RowsWhole'
  BY <1>1 DEF CachesInv, Texted, RowsWhole, Settled, Stored
<1>9. RowsMade'
  <2>1. \A db : Stored(db)' = Stored(db)
    BY <1>1 DEF Stored
  <2> QED BY <1>1, <2>1 DEF CachesInv, Texted, RowsMade, Exports, Pairs
<1>20. job # NoJob => /\ DOMAIN job.versions \subseteq Paths /\ job.gone \subseteq Paths
                      /\ \A q \in DOMAIN job.versions : job.versions[q] \in Nat /\ job.versions[q] <= pending[q]
  BY <1>0 DEF CachesInv, Worked, JobKinds, CachesTypeOK, IsJob
<1>21. job # NoJob => \A q \in DOMAIN job.versions : job.versions[q] = pending'[q] => q # p /\ pending'[q] = pending[q]
  <2> SUFFICES ASSUME job # NoJob, NEW q \in DOMAIN job.versions, job.versions[q] = pending'[q]
               PROVE  q # p /\ pending'[q] = pending[q]
    OBVIOUS
  <2>1. q \in Paths /\ job.versions[q] \in Nat /\ job.versions[q] <= pending[q]
    BY <1>20
  <2>2. q # p
    BY <1>1, <1>3, <2>1
  <2> QED BY <1>1, <2>1, <2>2
<1>10. JobKinds'
  <2> SUFFICES ASSUME job # NoJob PROVE JobKinds'
    BY <1>1 DEF JobKinds
  <2>1. /\ (job.kind = "reconcile") = ~current
        /\ job.kind # "refresh" => job.versions = Empty
        /\ job.updates => job.kind = "refresh"
        /\ job.kind = "refresh" => (job.ready <=> index.filters # NoRow)
        /\ \A q \in DOMAIN job.versions : 1 <= job.versions[q]
        /\ job.kind = "refresh" => \A q \in job.gone : q \in DOMAIN job.versions
        /\ job.kind = "refresh" => \A q \in job.gone :
             q \notin unseen /\ job.versions[q] = pending[q] => text[q] = Absent
    BY DEF CachesInv, Worked, JobKinds
  <2>2. \A q \in DOMAIN job.versions : job.versions[q] <= pending'[q]
    BY <1>1, <1>3, <1>20
  <2>3. job.kind = "refresh" => \A q \in job.gone :
           q \notin unseen' /\ job.versions[q] = pending'[q] => text[q] = Absent
    BY <1>1, <1>20, <1>21, <2>1
  <2> QED BY <1>1, <2>1, <2>2, <2>3 DEF JobKinds
<1>11. StartedRefresh'
  BY <1>1 DEF CachesInv, Worked, StartedRefresh, At, SameBase
<1>12. ParsedRefresh'
  <2> SUFFICES ASSUME At("refresh", "parsed") PROVE ParsedRefresh'
    BY <1>1 DEF ParsedRefresh, At
  <2>1. /\ SameBase
        /\ \A q \in DOMAIN job.versions : q \in job.gone \/ job.parsed[q] # Absent
        /\ \A q \in Paths : job.parsed[q] # Absent =>
             /\ q \in DOMAIN job.versions /\ q \notin job.gone /\ job.copy.files[q] = job.parsed[q]
             /\ q \notin unseen /\ job.versions[q] = pending[q] => job.parsed[q] = text[q]
        /\ \A q \in Paths \ DOMAIN job.versions : pending[q] # 0 \/ job.copy.files[q] = index.files[q]
    BY DEF CachesInv, Worked, ParsedRefresh
  <2>2. \A q \in Paths : job.parsed[q] # Absent =>
           (q \notin unseen' /\ job.versions[q] = pending'[q] => job.parsed[q] = text[q])
    BY <1>1, <1>21, <2>1 DEF At
  <2>3. \A q \in Paths \ DOMAIN job.versions : pending'[q] # 0 \/ job.copy.files[q] = index.files[q]
    BY <1>3, <2>1
  <2> QED BY <1>1, <2>1, <2>2, <2>3 DEF ParsedRefresh, SameBase
<1>13. Rebuilding'
  BY <1>1, <1>3, <1>4 DEF CachesInv, Worked, Rebuilding, EmptyCaches
<1>14. ParsedReconcile'
  BY <1>1, <1>3, <1>4 DEF CachesInv, Worked, ParsedReconcile, At, EmptyCaches, Stored
<1>15. WrittenJob'
  <2>1. Merged' = Merged
    BY <1>1 DEF Merged
  <2>2. job # NoJob => \A q \in Paths : Left(q)' => Left(q) /\ q # p
    BY <1>1, <1>3, <1>21 DEF Left
  <2> QED BY <1>1, <1>4, <2>1, <2>2 DEF CachesInv, Worked, WrittenJob, Covers, RowRight, Stored
<1>16. CachesRight' /\ JobCaches' /\ QueryRight'
  BY <1>1, StillCached DEF CachesInv
<1> QED BY <1>2, <1>5, <1>6, <1>7, <1>8, <1>9, <1>10, <1>11, <1>12, <1>13, <1>14, <1>15, <1>16
        DEF CachesInv, Texted, Worked

LEMMA CrashKeeps ==
  ASSUME CachesInv, Crash
  PROVE  CachesInv'
<1>0. CachesTypeOK /\ EditablePaths \subseteq Paths
  BY NothingIsAbsent DEF CachesInv
<1>1. /\ ~TornCrash => \A p \in EditablePaths : ~Torn(p)
      /\ IsIndex(index') /\ index' = Hydrated("primary")
      /\ job' = NoJob /\ query' = NoRow /\ current' = FALSE
      /\ unseen' = {} /\ pending' = [p \in Paths |-> 0] /\ removed' = {}
      /\ UNCHANGED <<text, dbRows, table>>
  BY CrashEffect
<1>2. CachesTypeOK'
  BY <1>0, <1>1 DEF CachesTypeOK
<1>3. Covered' /\ RowsCurrent' /\ GoneIsGone'
  BY <1>1 DEF Covered, RowsCurrent, GoneIsGone
<1>4. RowsWhole'
  BY <1>1 DEF RowsWhole, Torn, Stored
<1>5. RowsMade'
  <2>1. \A db : Stored(db)' = Stored(db)
    BY <1>1 DEF Stored
  <2> QED BY <1>1, <2>1 DEF CachesInv, Texted, RowsMade, Exports, Pairs
<1>6. Worked'
  BY <1>1 DEF Worked, JobKinds, StartedRefresh, ParsedRefresh, Rebuilding, ParsedReconcile, WrittenJob, At
<1>7. index'.symbols = Empty /\ index'.records = Empty /\ index'.spans = Empty
  BY <1>1 DEF Hydrated
<1>8. CachesRight'
  BY <1>7 DEF CachesRight, SymbolsRight, RecordsRight, SpansRight, Empty
<1>9. JobCaches' /\ QueryRight'
  BY <1>1 DEF JobCaches, QueryRight
<1> QED BY <1>2, <1>3, <1>4, <1>5, <1>6, <1>8, <1>9 DEF CachesInv, Texted

LEMMA PreloadKeeps ==
  ASSUME CachesInv, NEW p \in Opened, Preload(p)
  PROVE  CachesInv'
<1>0. CachesTypeOK /\ EditablePaths \subseteq Paths /\ p \in Paths /\ IsIndex(index)
  BY NothingIsAbsent DEF CachesInv, CachesTypeOK
<1>1. /\ IsIndex(index')
      /\ index'.db = index.db /\ index'.backed = index.backed /\ index'.unwritten = index.unwritten
      /\ index'.files = PreloadedFiles(p)
      /\ index'.filters = PutFilters(index.filters, OneParsed(p), {})
      /\ index'.records = Empty /\ index'.spans = Empty
  BY <1>0, PreloadEffect
<1>2. /\ job = NoJob /\ query = NoRow /\ text[p] # Absent
      /\ UNCHANGED <<text, unseen, pending, removed, dbRows, table, job, query, current, events>>
  BY DEF Preload
<1>3. CachesTypeOK'
  BY <1>0, <1>1, <1>2 DEF CachesTypeOK
<1>4. /\ index'.files[p] = text[p]
      /\ \A q \in Paths : q # p => index'.files[q] = index.files[q]
  BY <1>0, <1>1 DEF PreloadedFiles, IsIndex
<1>5. /\ index'.filters = NoRow <=> index.filters = NoRow
      /\ index.filters # NoRow =>
           /\ p \in DOMAIN index'.filters /\ index'.filters[p] = text[p]
           /\ \A q \in Paths : q # p =>
                /\ q \in DOMAIN index'.filters <=> q \in DOMAIN index.filters
                /\ q \in DOMAIN index'.filters => index'.filters[q] = index.filters[q]
  <2>1. CASE index.filters = NoRow
    BY <2>1, <1>1 DEF PutFilters
  <2>2. CASE index.filters # NoRow
    <3>1. index.filters \in FilterTables
      BY <1>0, <2>2 DEF IsIndex
    <3>2. PICK files : files = OneParsed(p)
      OBVIOUS
    <3>3. files \in [Paths -> Text] /\ files[p] = text[p] /\ \A q \in Paths : q # p => files[q] = Absent
      BY <1>0, <3>2 DEF OneParsed, CachesTypeOK, Text
    <3>4. index'.filters = PutFilters(index.filters, files, {})
      BY <1>1, <3>2
    <3> QED BY <1>0, <1>2, <2>2, <3>1, <3>3, <3>4, FiltersMerged
  <2> QED BY <2>1, <2>2
<1>6. Covered'
  <2> SUFFICES ASSUME current PROVE Covered'
    BY <1>2 DEF Covered
  <2>1. index'.backed => index'.filters # NoRow
    BY <1>1, <1>5 DEF CachesInv, Texted, Covered
  <2>2. ASSUME ~TornCrash, NEW q \in Paths, Heard(q), text[q] # Absent, pending[q] = 0
        PROVE  Covers(index, index.filters, q)'
    <3>1. Covers(index, index.filters, q)
      BY <2>2 DEF CachesInv, Texted, Covered
    <3>2. CASE q = p
      BY <1>0, <1>1, <1>2, <1>4, <1>5, <2>1, <3>2 DEF Covers
    <3>3. CASE q # p
      BY <1>1, <1>2, <1>4, <1>5, <2>1, <3>1, <3>3 DEF Covers, Stored
    <3> QED BY <3>2, <3>3
  <2> QED BY <1>2, <2>1, <2>2 DEF Covered, Heard
<1>7. RowsCurrent'
  BY <1>1, <1>2 DEF CachesInv, Texted, RowsCurrent, Settled, Heard, RowRight, Stored
<1>8. GoneIsGone'
  BY <1>2 DEF CachesInv, Texted, GoneIsGone
<1>9. RowsWhole'
  BY <1>2 DEF CachesInv, Texted, RowsWhole, Settled, Stored
<1>10. RowsMade'
  <2>1. \A db : Stored(db)' = Stored(db)
    BY <1>2 DEF Stored
  <2> QED BY <1>2, <2>1 DEF CachesInv, Texted, RowsMade, Exports, Pairs
<1>11. Worked' /\ JobCaches' /\ QueryRight'
  BY <1>2 DEF Worked, JobKinds, StartedRefresh, ParsedRefresh, Rebuilding, ParsedReconcile, WrittenJob,
              At, JobCaches, QueryRight
<1>12. CachesRight'
  <2> DEFINE old == Pairs(index.files)
             new == Pairs(PreloadedFiles(p))
             dirty == NamesIn(old \union new, {p})
             rows == dbRows[index.db]
             exports == table[index.db]
  <2>1. index'.symbols = Drop(index.symbols, {Key[n] : n \in dirty})
    BY <1>0, PreloadEffect
  <2>2. SymbolsRight(index, rows, exports)
    BY <1>2 DEF CachesInv, CachesRight, Settled
  <2>3. ASSUME NEW s \in old, s \notin new
        PROVE  s[2] \in dirty
    <3>1. s \in Paths \X Identifiers /\ s[1] = p
      BY <1>1, <1>4, <2>3 DEF Pairs
    <3> QED BY <2>3, <3>1 DEF NamesIn
  <2> HIDE DEF old, new, dirty, rows, exports
  <2>4. \A k \in DOMAIN index'.symbols :
           /\ k \in DOMAIN index.symbols /\ index'.symbols[k] = index.symbols[k]
           /\ \A n \in dirty : Key[n] # k
    BY <2>1 DEF Drop
  <2>5. ASSUME NEW k \in DOMAIN index'.symbols
        PROVE  FromRows(index', rows, k) \/ FromHot(index', exports, k)
    <3>1. k \in DOMAIN index.symbols /\ index'.symbols[k] = index.symbols[k]
      BY <2>4
    <3>2. CASE FromRows(index, rows, k)
      BY <1>1, <3>1, <3>2 DEF FromRows
    <3>3. CASE FromHot(index, exports, k)
      <4>1. k \in HotKeys /\ index.symbols[k] \subseteq Keyed(exports \union old, k)
        BY <3>3 DEF FromHot, old
      <4>2. Keyed(exports \union old, k) \subseteq Keyed(exports \union new, k)
        BY <2>3, <2>4 DEF Keyed
      <4>3. index'.symbols[k] \subseteq Keyed(exports \union new, k)
        BY <3>1, <4>1, <4>2
      <4> QED BY <1>1, <4>1, <4>3 DEF FromHot, new
    <3> QED BY <2>2, <3>1, <3>2, <3>3 DEF SymbolsRight
  <2>6. SymbolsRight(index', rows, exports)
    BY <2>5 DEF SymbolsRight
  <2>7. /\ RecordsRight(index', rows) /\ SpansRight(index', rows)
    BY <1>1 DEF RecordsRight, SpansRight, Empty
  <2> QED BY <1>1, <1>2, <2>6, <2>7 DEF CachesRight, rows, exports
<1> QED BY <1>3, <1>6, <1>7, <1>8, <1>9, <1>10, <1>11, <1>12 DEF CachesInv, Texted

-----------------------------------------------------------------------------
(* The steps of queries keep the invariant.                                *)

\* A query's step leaves only what the query has found to be looked at.
LEMMA AskKeeps ==
  ASSUME CachesInv, Asks, query' # NoRow => IsQuery(query'), QueryRight'
  PROVE  CachesInv'
<1>1. UNCHANGED <<text, unseen, pending, removed, dbRows, table, index, job, current>>
  BY DEF Asks
<1>2. CachesTypeOK'
  BY <1>1 DEF CachesInv, CachesTypeOK
<1>3. Texted' /\ Worked'
  BY <1>1, StillTexted, StillWorked DEF CachesInv, StillWorld
<1>4. CachesRight' /\ JobCaches'
  BY <1>1, StillCached DEF CachesInv
<1> QED BY <1>2, <1>3, <1>4 DEF CachesInv

LEMMA QueryShape ==
  ASSUME NEW kind, NEW of, NEW found, NEW q, q = [kind |-> kind, of |-> of, found |-> found],
         \/ kind \in {"symbols", "snapshot", "spans"} /\ of \in Identifiers
         \/ kind = "records" /\ of \in Opened
  PROVE  IsQuery(q) /\ q.kind = kind /\ q.of = of /\ q.found = found
BY DEF IsQuery

LEMMA LookUpKeeps ==
  ASSUME CachesInv, NEW n \in Identifiers, LookUp(n)
  PROVE  CachesInv'
<1>1. Asks
  BY AskEffect
<1>2. index.db \in Databases
  BY DEF CachesInv, CachesTypeOK, IsIndex
<1>3. PICK found : found = Named(dbRows[index.db], index.backed, n)
  OBVIOUS
<1>4. query' = [kind |-> "symbols", of |-> n, found |-> found]
  BY <1>2, <1>3, RowPairsOf DEF LookUp, Answering, Named, CachesInv
<1>5. IsQuery(query') /\ query'.kind = "symbols" /\ query'.of = n /\ query'.found = found
  BY <1>4, QueryShape
<1>6. QueryRight'
  BY <1>1, <1>3, <1>5 DEF QueryRight, Asks
<1> QED BY <1>1, <1>5, <1>6, AskKeeps

LEMMA OpenFileKeeps ==
  ASSUME CachesInv, NEW p \in Opened, OpenFile(p)
  PROVE  CachesInv'
<1>1. Asks
  BY AskEffect
<1>3. PICK found : found = FileIn(index.files, dbRows[index.db], p)
  OBVIOUS
<1>4. query' = [kind |-> "records", of |-> p, found |-> found]
  BY <1>3 DEF OpenFile, Answering, FileIn
<1>5. IsQuery(query') /\ query'.kind = "records" /\ query'.of = p /\ query'.found = found
  BY <1>4, QueryShape
<1>6. QueryRight'
  BY <1>1, <1>3, <1>5 DEF QueryRight, Asks
<1> QED BY <1>1, <1>5, <1>6, AskKeeps

LEMMA FindReferencesKeeps ==
  ASSUME CachesInv, NEW n \in Identifiers, FindReferences(n)
  PROVE  CachesInv'
<1>1. Asks
  BY AskEffect
<1>2. query' = [kind |-> "snapshot", of |-> n, found |-> MarkedEditable]
  BY DEF FindReferences, Answering
<1>3. PICK found : found = MarkedEditable
  OBVIOUS
<1>5. IsQuery(query') /\ query'.kind = "snapshot"
  BY <1>2, <1>3, QueryShape
<1>6. QueryRight'
  BY <1>1, <1>5 DEF QueryRight, Asks
<1> QED BY <1>1, <1>5, <1>6, AskKeeps

LEMMA ReadSpansKeeps ==
  ASSUME CachesInv, ReadSpans
  PROVE  CachesInv'
<1>1. Asks
  BY AskEffect
<1>2. query # NoRow /\ query.kind = "snapshot" /\ query.of \in Identifiers
  BY DEF ReadSpans, CachesInv, CachesTypeOK, IsQuery
<1>3. CASE query.found = {}
  <2>1. PICK found : found = SpansIn(dbRows[index.db], query.of)
    OBVIOUS
  <2>2. SpansOf(query.of) = SpansIn(dbRows[index.db], query.of)
    BY NothingIsAbsent DEF SpansOf, SpansIn, Stored
  <2>3. query' = [kind |-> "spans", of |-> query.of, found |-> found]
    BY <1>3, <2>1, <2>2 DEF ReadSpans, Answering
  <2>4. IsQuery(query') /\ query'.kind = "spans" /\ query'.of = query.of /\ query'.found = found
    BY <1>2, <2>3, QueryShape
  <2>5. QueryRight'
    BY <1>1, <2>1, <2>4 DEF QueryRight, Asks
  <2> QED BY <1>1, <2>4, <2>5, AskKeeps
<1>4. CASE query.found # {}
  <2>1. query' = NoRow
    BY <1>4 DEF ReadSpans, Answering
  <2> QED BY <1>1, <2>1, AskKeeps DEF QueryRight
<1> QED BY <1>3, <1>4

LEMMA StoreKeeps ==
  ASSUME CachesInv, StoreAnswer
  PROVE  CachesInv'
<1>0. CachesTypeOK
  BY DEF CachesInv
<1>1. /\ IsIndex(index') /\ Same(index', index) /\ job' = job /\ query' = NoRow
      /\ query.kind \in {"symbols", "records", "spans"}
      /\ query # NoRow
      /\ UNCHANGED <<text, unseen, pending, removed, dbRows, table, current, events>>
  BY <1>0, StoreEffect DEF StoreAnswer
<1>2. /\ index'.db = index.db /\ index'.backed = index.backed /\ index'.unwritten = index.unwritten
      /\ index'.files = index.files /\ index'.filters = index.filters
  BY <1>1 DEF Same
<1>3. CachesTypeOK'
  BY <1>0, <1>1 DEF CachesTypeOK
<1>4. Covered'
  BY <1>1, <1>2 DEF CachesInv, Texted, Covered, Heard, Covers, Stored
<1>5. RowsCurrent'
  BY <1>1, <1>2 DEF CachesInv, Texted, RowsCurrent, Settled, Heard, RowRight, Stored
<1>6. GoneIsGone'
  BY <1>1 DEF CachesInv, Texted, GoneIsGone
<1>7. RowsWhole'
  BY <1>1 DEF CachesInv, Texted, RowsWhole, Settled, Stored
<1>8. RowsMade'
  <2>1. \A db : Stored(db)' = Stored(db)
    BY <1>1 DEF Stored
  <2> QED BY <1>1, <2>1 DEF CachesInv, Texted, RowsMade, Exports, Pairs
<1>9. JobKinds'
  BY <1>1, <1>2 DEF CachesInv, Worked, JobKinds
<1>10. StartedRefresh' /\ ParsedRefresh'
  BY <1>1, <1>2 DEF CachesInv, Worked, StartedRefresh, ParsedRefresh, At, SameBase
<1>11. Rebuilding'
  BY <1>1 DEF CachesInv, Worked, Rebuilding, EmptyCaches, Heard
<1>12. ParsedReconcile'
  BY <1>1 DEF CachesInv, Worked, ParsedReconcile, At, EmptyCaches, Heard, Stored
<1>13. WrittenJob'
  <2>1. Merged' = Merged
    BY <1>1, <1>2 DEF Merged
  <2>2. \A p : Left(p)' <=> Left(p)
    BY <1>1 DEF Left
  <2> QED BY <1>1, <2>1, <2>2 DEF CachesInv, Worked, WrittenJob, Heard, Covers, RowRight, Stored
<1>14. JobCaches'
  BY <1>1 DEF CachesInv, JobCaches, At
<1>15. QueryRight'
  BY <1>1 DEF QueryRight
<1>16. CachesRight'
  <2> SUFFICES ASSUME Settled PROVE CachesRight'
    BY <1>1 DEF CachesRight, Settled
  <2> DEFINE rows == dbRows[index.db]
             exports == table[index.db]
  <2>1. SymbolsRight(index, rows, exports) /\ RecordsRight(index, rows) /\ SpansRight(index, rows)
    BY DEF CachesInv, CachesRight
  <2>2. /\ query.kind = "symbols" => query.found = Named(rows, index.backed, query.of)
        /\ query.kind = "records" => query.found = FileIn(index.files, rows, query.of)
        /\ query.kind = "spans" => query.found = SpansIn(rows, query.of)
    BY <1>1 DEF CachesInv, QueryRight
  <2>3. query.kind \in {"symbols", "spans"} => query.of \in Identifiers
    BY <1>0, <1>1 DEF CachesTypeOK, IsQuery
  <2> HIDE DEF rows, exports
  <2>4. CASE query.kind = "symbols"
    <3>1. /\ index'.symbols = Stash(index.symbols, Key[query.of], query.found)
          /\ index'.records = index.records /\ index'.spans = index.spans
      BY <1>0, <2>4, StoreEffect
    <3>2. ASSUME NEW k \in DOMAIN index'.symbols
          PROVE  FromRows(index', rows, k) \/ FromHot(index', exports, k)
      <4>1. CASE k = Key[query.of]
        <5>1. index'.symbols[k] = Named(rows, index'.backed, query.of)
          BY <1>2, <2>2, <2>4, <3>1, <4>1 DEF Stash
        <5> QED BY <2>3, <2>4, <4>1, <5>1 DEF FromRows
      <4>2. CASE k # Key[query.of]
        <5>1. k \in DOMAIN index.symbols /\ index'.symbols[k] = index.symbols[k]
          BY <3>1, <3>2, <4>2 DEF Stash
        <5>2. FromRows(index, rows, k) \/ FromHot(index, exports, k)
          BY <2>1, <5>1 DEF SymbolsRight
        <5> QED BY <1>2, <5>1, <5>2 DEF FromRows, FromHot
      <4> QED BY <4>1, <4>2
    <3>3. RecordsRight(index', rows) /\ SpansRight(index', rows)
      BY <1>2, <2>1, <3>1 DEF RecordsRight, SpansRight
    <3>4. SymbolsRight(index', rows, exports)
      BY <3>2 DEF SymbolsRight
    <3> QED BY <1>1, <1>2, <3>3, <3>4 DEF CachesRight, rows, exports
  <2>5. CASE query.kind = "records"
    <3>1. /\ index'.records = Stash(index.records, query.of, query.found)
          /\ index'.symbols = index.symbols /\ index'.spans = index.spans
      BY <1>0, <2>5, StoreEffect
    <3>2. RecordsRight(index', rows)
      BY <1>2, <2>1, <2>2, <2>5, <3>1 DEF RecordsRight, Stash
    <3>3. SymbolsRight(index', rows, exports) /\ SpansRight(index', rows)
      BY <1>2, <2>1, <3>1 DEF SymbolsRight, SpansRight, FromRows, FromHot
    <3> QED BY <1>1, <1>2, <3>2, <3>3 DEF CachesRight, rows, exports
  <2>6. CASE query.kind = "spans"
    <3>1. /\ index'.spans = Stash(index.spans, query.of, query.found)
          /\ index'.symbols = index.symbols /\ index'.records = index.records
      BY <1>0, <2>6, StoreEffect
    <3>2. SpansRight(index', rows)
      BY <2>1, <2>2, <2>6, <3>1 DEF SpansRight, Stash
    <3>3. SymbolsRight(index', rows, exports) /\ RecordsRight(index', rows)
      BY <1>2, <2>1, <3>1 DEF SymbolsRight, RecordsRight, FromRows, FromHot
    <3> QED BY <1>1, <1>2, <3>2, <3>3 DEF CachesRight, rows, exports
  <2> QED BY <1>1, <2>4, <2>5, <2>6
<1> QED BY <1>3, <1>4, <1>5, <1>6, <1>7, <1>8, <1>9, <1>10, <1>11, <1>12, <1>13, <1>14, <1>15, <1>16
        DEF CachesInv, Texted, Worked

-----------------------------------------------------------------------------
(* The steps of jobs keep the invariant.                                   *)

\* A step of a job that has not written moves the job alone.
JobMoves == UNCHANGED <<text, unseen, pending, removed, dbRows, table, index, query, current>>

LEMMA JobMoved ==
  ASSUME CachesInv, Settled, JobMoves
  PROVE  Texted' /\ CachesRight' /\ QueryRight'
<1>1. UNCHANGED <<text, unseen, pending, removed, dbRows, table, index, query, current>>
  BY DEF JobMoves
<1>2. \A db : Stored(db)' = Stored(db)
  BY <1>1 DEF Stored
<1>3. Covered'
  BY <1>1 DEF CachesInv, Texted, Covered, Heard, Covers, Stored
<1>4. RowsCurrent'
  BY <1>1 DEF CachesInv, Texted, RowsCurrent, Heard, RowRight, Stored
<1>5. GoneIsGone'
  BY <1>1 DEF CachesInv, Texted, GoneIsGone
<1>6. RowsWhole'
  BY <1>1 DEF CachesInv, Texted, RowsWhole, Stored
<1>7. RowsMade'
  BY <1>1, <1>2 DEF CachesInv, Texted, RowsMade, Exports, Pairs
<1>8. CachesRight'
  BY <1>1 DEF CachesInv, CachesRight
<1>9. QueryRight'
  BY <1>1 DEF CachesInv, QueryRight
<1> QED BY <1>3, <1>4, <1>5, <1>6, <1>7, <1>8, <1>9 DEF Texted

LEMMA SymbolsSame ==
  ASSUME NEW i, NEW j, NEW rows, NEW exports, SymbolsRight(i, rows, exports),
         i.backed = j.backed, i.files = j.files, i.symbols = j.symbols
  PROVE  SymbolsRight(j, rows, exports)
BY DEF SymbolsRight, FromRows, FromHot

LEMMA FreshKeeps ==
  ASSUME CachesInv, job = NoJob, NEW kind, NEW copy, NEW S \in SUBSET Paths,
         Fresh(job', kind, copy, S), JobMoves,
         (kind = "reconcile") = ~current,
         kind # "refresh" => S = {},
         kind = "refresh" => copy = index,
         kind = "rebuild" => EmptyCaches(copy) /\ ~copy.unwritten,
         \A p \in S : pending[p] # 0
  PROVE  CachesInv'
<1>1. UNCHANGED <<text, unseen, pending, removed, dbRows, table, index, query, current>>
  BY DEF JobMoves
<1>2. Settled
  BY DEF Settled
<1>3. Texted' /\ CachesRight' /\ QueryRight'
  BY <1>2, JobMoved
<1>4. /\ IsJob(job') /\ job'.kind = kind /\ job'.stage = "started"
      /\ job'.ready = (index.filters # NoRow)
      /\ DOMAIN job'.versions = S /\ (\A p \in S : job'.versions[p] = pending[p])
      /\ job'.gone = S \cap removed
      /\ job'.copy.db = copy.db /\ job'.copy.backed = copy.backed
      /\ job'.copy.unwritten = copy.unwritten /\ job'.copy.files = copy.files
      /\ job'.copy.symbols = copy.symbols /\ job'.copy.records = copy.records
      /\ job'.copy.spans = copy.spans
      /\ S = {} => job'.versions = Empty
      /\ job'.updates = FALSE
  BY DEF Fresh
<1>5. CachesTypeOK'
  BY <1>1, <1>4 DEF CachesInv, CachesTypeOK
<1>6. JobKinds'
  <2>1. \A p \in S : pending[p] \in Nat /\ 1 <= pending[p]
    BY DEF CachesInv, CachesTypeOK
  <2>2. \A p \in removed : p \in unseen \/ text[p] = Absent
    BY DEF CachesInv, Texted, GoneIsGone
  <2>3. /\ (job'.kind = "reconcile") = ~current'
        /\ job'.kind # "refresh" => job'.versions = Empty
        /\ job'.updates => job'.kind = "refresh"
        /\ job'.kind = "refresh" => (job'.ready <=> index'.filters # NoRow)
    BY <1>1, <1>4
  <2>4. \A p \in DOMAIN job'.versions : 1 <= job'.versions[p] /\ job'.versions[p] <= pending'[p]
    BY <1>1, <1>4, <2>1
  <2>5. job'.kind = "refresh" => \A p \in job'.gone :
          /\ p \in DOMAIN job'.versions
          /\ p \notin unseen' /\ job'.versions[p] = pending'[p] => text'[p] = Absent
    BY <1>1, <1>4, <2>2
  <2> QED BY <2>3, <2>4, <2>5 DEF JobKinds
<1>7. StartedRefresh'
  BY <1>1, <1>4 DEF StartedRefresh, At, SameBase
<1>8. ParsedRefresh' /\ ParsedReconcile' /\ WrittenJob'
  BY <1>4 DEF ParsedRefresh, ParsedReconcile, WrittenJob, At
<1>9. Rebuilding'
  BY <1>4 DEF Rebuilding, EmptyCaches
<1>10. JobCaches'
  <2>1. SymbolsRight(index, dbRows[index.db], table[index.db])
    BY <1>2 DEF CachesInv, CachesRight
  <2>2. kind = "refresh" => SymbolsRight(job'.copy, dbRows'[job'.copy.db], table'[job'.copy.db])
    BY <1>1, <1>4, <2>1, SymbolsSame
  <2> QED BY <1>4, <2>2 DEF JobCaches, At
<1> QED BY <1>3, <1>5, <1>6, <1>7, <1>8, <1>9, <1>10 DEF CachesInv, Worked

LEMMA StartKeeps ==
  ASSUME CachesInv, StartReconcile \/ StartRebuild \/ \E S \in (SUBSET Paths) \ {{}} : StartRefresh(S)
  PROVE  CachesInv'
<1>0. CachesTypeOK
  BY DEF CachesInv
<1>1. ASSUME NEW kind \in {"reconcile", "rebuild", "refresh"}, NEW copy, IsIndex(copy),
             NEW S \in SUBSET Paths, Starting(NewJob(kind, "started", copy, S))
      PROVE  job = NoJob /\ Fresh(job', kind, copy, S) /\ JobMoves
  BY <1>0, <1>1, StartEffect DEF JobMoves
<1>2. CASE StartReconcile
  <2>1. /\ ~current /\ IsIndex(index) /\ Starting(NewJob("reconcile", "started", index, {}))
    BY <1>0, <1>2, Starts
  <2>2. job = NoJob /\ Fresh(job', "reconcile", index, {}) /\ JobMoves
    BY <1>1, <2>1
  <2> QED BY <2>1, <2>2, FreshKeeps
<1>3. CASE StartRebuild
  <2>1. /\ current /\ IsIndex(Hydrated(index.db))
        /\ Starting(NewJob("rebuild", "started", Hydrated(index.db), {}))
    BY <1>0, <1>3, Starts
  <2>2. job = NoJob /\ Fresh(job', "rebuild", Hydrated(index.db), {}) /\ JobMoves
    BY <1>1, <2>1
  <2>3. EmptyCaches(Hydrated(index.db)) /\ ~Hydrated(index.db).unwritten
    BY HydratedFields
  <2> QED BY <2>1, <2>2, <2>3, FreshKeeps
<1>4. ASSUME NEW S \in SUBSET Paths, StartRefresh(S)
      PROVE  CachesInv'
  <2>1. /\ current /\ (\A p \in S : pending[p] # 0) /\ IsIndex(index)
        /\ Starting(NewJob("refresh", "started", index, S))
    BY <1>0, <1>4, Starts
  <2>2. job = NoJob /\ Fresh(job', "refresh", index, S) /\ JobMoves
    BY <1>1, <2>1
  <2> QED BY <2>1, <2>2, FreshKeeps
<1> QED BY <1>2, <1>3, <1>4

LEMMA ParseRebuildKeeps ==
  ASSUME CachesInv, ParseRebuild
  PROVE  CachesInv'
<1>0. CachesTypeOK /\ JobMoves
  BY DEF CachesInv, ParseRebuild, Working, JobMoves
<1>1. /\ job # NoJob /\ job.stage = "started" /\ job.kind = "rebuild"
      /\ IsJob(job') /\ job'.kind = "rebuild" /\ job'.stage = "parsed"
      /\ job'.versions = job.versions /\ job'.parsed = text
      /\ job'.copy.files = text /\ job'.copy.backed = FALSE
      /\ job'.copy.unwritten = job.copy.unwritten /\ job'.copy.symbols = job.copy.symbols
      /\ job'.copy.records = job.copy.records /\ job'.copy.spans = job.copy.spans
      /\ job'.updates = job.updates
  BY <1>0, ParseRebuildEffect
<1>2. UNCHANGED <<text, unseen, pending, removed, dbRows, table, index, query, current>>
  BY <1>0 DEF JobMoves
<1>3. Texted' /\ CachesRight' /\ QueryRight'
  BY <1>0, <1>1, JobMoved DEF Settled
<1>4. CachesTypeOK'
  BY <1>0, <1>1, <1>2 DEF CachesTypeOK
<1>5. JobKinds'
  BY <1>1, <1>2 DEF CachesInv, Worked, JobKinds
<1>6. StartedRefresh' /\ ParsedRefresh' /\ ParsedReconcile' /\ WrittenJob'
  BY <1>1 DEF StartedRefresh, ParsedRefresh, ParsedReconcile, WrittenJob, At
<1>7. Rebuilding'
  BY <1>1, <1>2 DEF CachesInv, Worked, Rebuilding, EmptyCaches, Heard
<1>8. JobCaches'
  BY <1>1 DEF JobCaches, At
<1> QED BY <1>3, <1>4, <1>5, <1>6, <1>7, <1>8 DEF CachesInv, Worked

LEMMA ParseRefreshKeeps ==
  ASSUME CachesInv, ParseRefresh
  PROVE  CachesInv'
<1>0. CachesTypeOK /\ JobKinds /\ JobMoves
  BY DEF CachesInv, Worked, ParseRefresh, Working, JobMoves
<1>1. /\ job # NoJob /\ job.stage = "started" /\ job.kind = "refresh"
      /\ IsJob(job') /\ job'.kind = "refresh" /\ job'.stage = "parsed"
      /\ job'.ready = job.ready /\ job'.gone = job.gone /\ job'.updates = job.updates
      /\ job'.parsed = RefreshParse /\ job'.material = (RefreshDone \cap Material # {})
      /\ RefreshDone \subseteq DOMAIN job.versions
      /\ DOMAIN job'.versions = RefreshDone
      /\ \A p \in RefreshDone : job'.versions[p] = job.versions[p]
      /\ job'.copy.db = job.copy.db /\ job'.copy.backed = job.copy.backed
      /\ job'.copy.unwritten = job.copy.unwritten
      /\ job'.copy.files = RefreshFiles
      /\ job'.copy.records = Empty /\ job'.copy.spans = Empty
      /\ job'.copy.symbols =
           IF job'.material THEN Empty
           ELSE Drop(job.copy.symbols,
                     {Key[n] : n \in Dirty(job.copy, RefreshFiles, DOMAIN job.versions)})
  BY <1>0, ParseRefreshEffect
<1>2. UNCHANGED <<text, unseen, pending, removed, dbRows, table, index, query, current>>
  BY <1>0 DEF JobMoves
<1>3. Texted' /\ CachesRight' /\ QueryRight'
  BY <1>0, <1>1, JobMoved DEF Settled
<1>4. CachesTypeOK'
  BY <1>0, <1>1, <1>2 DEF CachesTypeOK
<1>6. /\ job.copy.db \in Databases /\ DOMAIN job.versions \subseteq Paths
      /\ job.gone \subseteq Paths
  BY <1>0, <1>1 DEF CachesTypeOK, IsJob, IsIndex
<1>51. /\ \A p \in Paths : p \in DOMAIN job.versions \ job.gone => RefreshParse[p] = text[p]
       /\ \A p \in Paths : p \notin DOMAIN job.versions \ job.gone => RefreshParse[p] = Absent
  BY DEF RefreshParse
<1>52. /\ \A p \in Paths : p \in DOMAIN job.versions => RefreshFiles[p] = RefreshParse[p]
       /\ \A p \in Paths : p \notin DOMAIN job.versions => RefreshFiles[p] = job.copy.files[p]
  BY DEF RefreshFiles
<1>53. /\ \A p \in RefreshDone : p \in job.gone \/ RefreshParse[p] # Absent
       /\ job.gone \subseteq RefreshDone
       /\ \A p \in DOMAIN job.versions : RefreshParse[p] # Absent => p \in RefreshDone
  BY DEF RefreshDone
<1>5. /\ \A p \in Paths : p \in DOMAIN job.versions \ job.gone => RefreshParse[p] = text[p]
      /\ \A p \in Paths : RefreshParse[p] # Absent =>
           p \in DOMAIN job.versions /\ p \notin job.gone /\ p \in RefreshDone /\ RefreshParse[p] = text[p]
      /\ \A p \in RefreshDone : p \in job.gone \/ RefreshParse[p] # Absent
      /\ job.gone \subseteq RefreshDone
      /\ \A p \in Paths : p \in DOMAIN job.versions => RefreshFiles[p] = RefreshParse[p]
      /\ \A p \in Paths : p \notin DOMAIN job.versions => RefreshFiles[p] = job.copy.files[p]
  BY <1>51, <1>52, <1>53
<1>7. JobKinds'
  <2>1. /\ (job.kind = "reconcile") = ~current
        /\ job.kind = "refresh" => (job.ready <=> index.filters # NoRow)
        /\ \A p \in DOMAIN job.versions : 1 <= job.versions[p] /\ job.versions[p] <= pending[p]
        /\ job.kind = "refresh" => \A p \in job.gone :
             /\ p \in DOMAIN job.versions
             /\ p \notin unseen /\ job.versions[p] = pending[p] => text[p] = Absent
    BY <1>0, <1>1 DEF JobKinds
  <2>2. /\ (job'.kind = "reconcile") = ~current'
        /\ job'.kind # "refresh" => job'.versions = Empty
        /\ job'.updates => job'.kind = "refresh"
        /\ job'.kind = "refresh" => (job'.ready <=> index'.filters # NoRow)
    BY <1>1, <1>2, <2>1
  <2>3. \A p \in DOMAIN job'.versions : 1 <= job'.versions[p] /\ job'.versions[p] <= pending'[p]
    BY <1>1, <1>2, <2>1
  <2>4. \A p \in job'.gone :
             /\ p \in DOMAIN job'.versions
             /\ p \notin unseen' /\ job'.versions[p] = pending'[p] => text'[p] = Absent
    BY <1>1, <1>2, <1>5, <2>1
  <2> QED BY <2>2, <2>3, <2>4 DEF JobKinds
<1>8. StartedRefresh' /\ Rebuilding' /\ ParsedReconcile' /\ WrittenJob'
  BY <1>1 DEF StartedRefresh, Rebuilding, ParsedReconcile, WrittenJob, At
<1>9. ParsedRefresh'
  <2>1. SameBase /\ job.copy.files = index.files
    BY <1>1 DEF CachesInv, Worked, StartedRefresh, At
  <2>2. SameBase'
    BY <1>1, <1>2, <2>1 DEF SameBase
  <2>3. \A p \in DOMAIN job'.versions : p \in job'.gone \/ job'.parsed[p] # Absent
    BY <1>1, <1>5
  <2>4. \A p \in Paths : job'.parsed[p] # Absent =>
          /\ p \in DOMAIN job'.versions /\ p \notin job'.gone /\ job'.copy.files[p] = job'.parsed[p]
          /\ job'.parsed[p] = text'[p]
    BY <1>1, <1>2, <1>5
  <2>5. \A p \in DOMAIN job.versions : pending[p] # 0
    <3>1. \A p \in DOMAIN job.versions : job.versions[p] \in Nat /\ pending[p] \in Nat
      BY <1>0, <1>1, <1>6 DEF CachesTypeOK, IsJob
    <3> QED BY <1>0, <1>1, <3>1 DEF JobKinds
  <2>6. \A p \in Paths \ DOMAIN job'.versions : pending'[p] # 0 \/ job'.copy.files[p] = index'.files[p]
    BY <1>1, <1>2, <1>5, <2>1, <2>5
  <2> QED BY <2>2, <2>3, <2>4, <2>6 DEF ParsedRefresh
<1>10. JobCaches'
  <2> DEFINE rows == dbRows[job.copy.db]
             exports == table[job.copy.db]
             old == Pairs(job.copy.files)
             new == Pairs(RefreshFiles)
             dirty == Dirty(job.copy, RefreshFiles, DOMAIN job.versions)
  <2>1. SymbolsRight(job.copy, rows, exports)
    BY <1>1 DEF CachesInv, JobCaches, At
  <2>2. RowPairs(job.copy.db) = RowsPairs(rows)
    BY <1>0, <1>6, RowPairsOf
  <2>3. ASSUME NEW p \in DOMAIN job.versions, NEW n \in Identifiers,
               <<p, n>> \in old \/ <<p, n>> \in new \/ (job.copy.backed /\ <<p, n>> \in RowsPairs(rows))
        PROVE  n \in dirty
    <3>1. PICK s : s = <<p, n>>
      OBVIOUS
    <3>2. s \in old \union new \union (IF job.copy.backed THEN RowPairs(job.copy.db) ELSE {})
      BY <2>2, <2>3, <3>1
    <3> QED BY <3>1, <3>2 DEF Dirty, NamesIn
  <2>4. ASSUME NEW s \in old, s \notin new
        PROVE  s[2] \in dirty
    <3>1. PICK p \in Paths, n \in Identifiers : s = <<p, n>>
      BY PairsType
    <3>2. p \in DOMAIN job.versions
      BY <1>5, <2>4, <3>1, PairsOf
    <3> QED BY <2>3, <2>4, <3>1, <3>2
  <2>5. ~job'.material => job'.copy.symbols = Drop(job.copy.symbols, {Key[n] : n \in dirty})
    BY <1>1
  <2>11. \A p \in RefreshDone, n \in Identifiers :
           RefreshParse[p] # Absent /\ n \in RefreshParse[p] => <<p, n>> \in new
    BY <1>1, <1>5, <1>6, PairsOf
  <2>12. job'.copy.files = RefreshFiles /\ new = Pairs(RefreshFiles) /\ old = Pairs(job.copy.files)
    BY <1>1
  <2> HIDE DEF rows, exports, old, new, dirty
  <2>6. ~job'.material => \A k \in DOMAIN job'.copy.symbols :
           /\ k \in DOMAIN job.copy.symbols /\ job'.copy.symbols[k] = job.copy.symbols[k]
           /\ \A n \in dirty : Key[n] # k
    BY <2>5 DEF Drop
  <2>7. ASSUME NEW k \in DOMAIN job'.copy.symbols
        PROVE  \/ FromHot(job'.copy, exports, k)
               \/ \E n \in Identifiers :
                    /\ Key[n] = k /\ job'.copy.symbols[k] = Named(rows, job'.copy.backed, n)
                    /\ job'.copy.backed => Untouched(job', rows, n)
    <3>0. ~job'.material
      BY <1>1, <2>7 DEF Empty
    <3>1. /\ k \in DOMAIN job.copy.symbols /\ job'.copy.symbols[k] = job.copy.symbols[k]
          /\ \A n \in dirty : Key[n] # k
      BY <2>6, <2>7, <3>0
    <3>2. CASE FromRows(job.copy, rows, k)
      <4>1. PICK n \in Identifiers : Key[n] = k /\ job.copy.symbols[k] = Named(rows, job.copy.backed, n)
        BY <3>2 DEF FromRows
      <4>2. n \notin dirty
        BY <3>1, <4>1
      <4>3. job'.copy.backed => Untouched(job', rows, n)
        BY <1>1, <2>3, <2>11, <4>2 DEF Untouched
      <4> QED BY <1>1, <3>1, <4>1, <4>3
    <3>3. CASE FromHot(job.copy, exports, k)
      <4>1. k \in HotKeys /\ job.copy.symbols[k] \subseteq Keyed(exports \union old, k)
        BY <2>12, <3>3 DEF FromHot
      <4>2. Keyed(exports \union old, k) \subseteq Keyed(exports \union new, k)
        BY <2>4, <3>1 DEF Keyed
      <4>3. job'.copy.symbols[k] \subseteq Keyed(exports \union new, k)
        BY <3>1, <4>1, <4>2
      <4> QED BY <2>12, <4>1, <4>3 DEF FromHot
    <3> QED BY <2>1, <3>1, <3>2, <3>3 DEF SymbolsRight
  <2>8. KeptRight(job', dbRows'[job'.copy.db], table'[job'.copy.db])
    BY <1>1, <1>2, <2>7 DEF KeptRight, rows, exports
  <2>9. ~job'.material => \A p \in Material : job'.parsed[p] = Absent /\ p \notin job'.gone
    BY <1>1, <1>5, NothingIsAbsent
  <2> QED BY <1>1, <2>8, <2>9 DEF JobCaches, At
<1> QED BY <1>3, <1>4, <1>7, <1>8, <1>9, <1>10 DEF CachesInv, Worked

\* What a prewarm of hot names puts into an empty cache comes from the table and from memory.
LEMMA HotRight ==
  ASSUME NEW i, NEW rows, NEW exports, i.symbols = Over(HotOf(exports, i.files), Empty)
  PROVE  SymbolsRight(i, rows, exports)
<1> DEFINE hot == HotOf(exports, i.files)
           found(k) == Keyed(exports, k) \union Keyed(Pairs(i.files), k)
<1>1. DOMAIN hot = HotKeys /\ \A k \in HotKeys : hot[k] = found(k)
  BY DEF HotOf
<1>2. \A k : found(k) \subseteq Keyed(exports \union Pairs(i.files), k)
  BY DEF Keyed
<1> HIDE DEF hot, found
<1>3. i.symbols = Over(hot, Empty)
  BY DEF hot
<1>4. \A k \in DOMAIN i.symbols : k \in HotKeys /\ i.symbols[k] = found(k)
  BY <1>1, <1>3 DEF Over, Empty
<1>5. \A k \in DOMAIN i.symbols : FromHot(i, exports, k)
  BY <1>2, <1>4 DEF FromHot
<1> QED BY <1>5 DEF SymbolsRight

\* Covers and RowRight of given rows and text, and when the index of a job that has written is right.
CoversBy(now, i, filters, rows, p) ==
  IF i.backed /\ p \in DOMAIN filters
  THEN filters[p] = now /\ (rows[p] # Absent \/ i.files[p] # Absent)
  ELSE i.files[p] # Absent
RightBy(now, row) ==
  IF now = Absent THEN row = Absent ELSE row # Absent /\ row.spans = now

LEMMA CoversMeans ==
  \A p \in Paths : \A i, filters :
    Covers(i, filters, p) <=> CoversBy(text[p], i, filters, dbRows[i.db], p)
BY DEF Covers, CoversBy, Stored

LEMMA RowRightMeans ==
  \A p \in Paths : \A db : RowRight(db, p) <=> RightBy(text[p], dbRows[db][p])
BY DEF RowRight, RightBy, Stored

LEMMA WrittenWhen ==
  ASSUME NEW filters, Merged' = filters,
         job'.copy.backed => filters # NoRow,
         \A p \in Paths : p \in EditablePaths /\ p \notin unseen' /\ Left(p)' =>
           /\ text'[p] # Absent /\ ~TornCrash =>
                CoversBy(text'[p], job'.copy, filters, dbRows'[job'.copy.db], p)
           /\ ~job'.copy.unwritten => RightBy(text'[p], dbRows'[job'.copy.db][p])
  PROVE  WrittenJob'
<1>1. ASSUME NEW p \in Paths, Heard(p)', Left(p)'
      PROVE  /\ text'[p] # Absent /\ ~TornCrash => Covers(job.copy, Merged, p)'
             /\ ~job'.copy.unwritten => RowRight(job.copy.db, p)'
  <2>1. p \in EditablePaths /\ p \notin unseen'
    BY <1>1 DEF Heard
  <2>2. /\ text'[p] # Absent /\ ~TornCrash =>
             CoversBy(text'[p], job'.copy, filters, dbRows'[job'.copy.db], p)
        /\ ~job'.copy.unwritten => RightBy(text'[p], dbRows'[job'.copy.db][p])
    BY <1>1, <2>1
  <2>3. CoversBy(text'[p], job'.copy, filters, dbRows'[job'.copy.db], p) => Covers(job.copy, Merged, p)'
    BY DEF Covers, CoversBy, Stored
  <2>4. RightBy(text'[p], dbRows'[job'.copy.db][p]) => RowRight(job.copy.db, p)'
    BY DEF RowRight, RightBy, Stored
  <2> QED BY <2>2, <2>3, <2>4
<1> QED BY <1>1 DEF WrittenJob

LEMMA RowText ==
  ASSUME CachesTypeOK, NEW db \in Databases, NEW p \in Paths, p \in Stored(db)
  PROVE  /\ dbRows[db][p] # Absent /\ dbRows[db][p].names # Absent
         /\ dbRows[db][p].spans # Absent /\ dbRows[db][p].print # Absent
<1>1. dbRows[db] \in Rows /\ dbRows[db][p] # Absent
  BY DEF CachesTypeOK, Rows, Stored
<1>2. dbRows[db][p] \in FileRow
  BY <1>1 DEF Rows
<1>3. /\ dbRows[db][p].names \in SUBSET Identifiers /\ dbRows[db][p].spans \in SUBSET Identifiers
      /\ dbRows[db][p].print \in SUBSET Identifiers
  BY <1>2 DEF FileRow
<1> QED BY <1>1, <1>3, NothingIsAbsent

LEMMA ParseReconcileKeeps ==
  ASSUME CachesInv, ParseReconcile
  PROVE  CachesInv'
<1>0. CachesTypeOK /\ JobKinds /\ JobMoves /\ EditablePaths \subseteq Paths /\ Material \subseteq Paths
  BY NothingIsAbsent DEF CachesInv, Worked, ParseReconcile, Working, JobMoves
<1>1. /\ job # NoJob /\ job.stage = "started" /\ job.kind = "reconcile"
      /\ IsJob(job') /\ job'.kind = "reconcile" /\ job'.stage = "parsed"
      /\ job'.versions = job.versions /\ job'.updates = job.updates
      /\ job'.parsed = ReconcileParse /\ job'.gone = ReconcileGone
      /\ job'.material =
           (({p \in Paths : ReconcileParse[p] # Absent} \union ReconcileGone) \cap Material # {})
      /\ job'.copy = Hydrated(job.copy.db)
  BY <1>0, ParseReconcileEffect
<1>2. UNCHANGED <<text, unseen, pending, removed, dbRows, table, index, query, current>>
  BY <1>0 DEF JobMoves
<1>3. Texted' /\ CachesRight' /\ QueryRight'
  BY <1>0, <1>1, JobMoved DEF Settled
<1>4. CachesTypeOK'
  BY <1>0, <1>1, <1>2 DEF CachesTypeOK
<1>5. JobKinds'
  BY <1>0, <1>1, <1>2 DEF JobKinds
<1>6. StartedRefresh' /\ ParsedRefresh' /\ Rebuilding' /\ WrittenJob'
  BY <1>1 DEF StartedRefresh, ParsedRefresh, Rebuilding, WrittenJob, At
<1>70. PICK db : db = job.copy.db
  OBVIOUS
<1>7. db \in Databases
  BY <1>0, <1>1, <1>70 DEF CachesTypeOK, IsJob, IsIndex
<1>8. /\ job'.copy.db = db /\ EmptyCaches(job'.copy) /\ ~job'.copy.unwritten
  <2>1. job'.copy = Hydrated(db)
    BY <1>1, <1>70
  <2>2. Hydrated(db).db = db /\ EmptyCaches(Hydrated(db)) /\ Hydrated(db).unwritten = FALSE
    BY HydratedFields
  <2> QED BY <2>1, <2>2 DEF EmptyCaches
<1>9. /\ \A p \in Paths : p \in Stored(db) /\ dbRows[db][p].print = text[p] => ReconcileParse[p] = Absent
      /\ \A p \in Paths : ~(p \in Stored(db) /\ dbRows[db][p].print = text[p]) => ReconcileParse[p] = text[p]
  BY <1>70 DEF ReconcileParse
<1>10. \A p \in Paths : p \in ReconcileGone <=> p \in Stored(db) /\ text[p] = Absent
  BY <1>70 DEF ReconcileGone, Existing
<1>11. ReconcileGone \subseteq Paths
  BY DEF ReconcileGone, Stored
<1>12. ~TornCrash =>
         \A p \in EditablePaths : p \in Stored(db) => dbRows[db][p].names = dbRows[db][p].print
  BY <1>0, <1>1, <1>7 DEF CachesInv, Texted, RowsWhole, Settled, JobKinds
<1>14. ParsedReconcile'
  <2>1. \A p \in Paths : p \in ReconcileGone => ReconcileParse[p] = Absent
    BY <1>9, <1>10
  <2>2. ASSUME NEW p \in Paths, p \in EditablePaths
        PROVE  \/ text[p] # Absent /\ ReconcileParse[p] = text[p]
               \/ /\ text[p] = Absent /\ ReconcileParse[p] = Absent
                  /\ p \in ReconcileGone \/ p \notin Stored(db)
               \/ /\ text[p] # Absent /\ ReconcileParse[p] = Absent
                  /\ p \notin ReconcileGone /\ p \in Stored(db)
                  /\ ~TornCrash => dbRows[db][p].names = text[p]
                  /\ dbRows[db][p].print = text[p]
    BY <2>2, <1>9, <1>10, <1>12
  <2>3. dbRows'[job'.copy.db] = dbRows[db]
    BY <1>2, <1>8
  <2>4. ASSUME NEW p \in Paths, p \in EditablePaths
        PROVE  \/ text'[p] # Absent /\ job'.parsed[p] = text'[p]
               \/ /\ text'[p] = Absent /\ job'.parsed[p] = Absent
                  /\ p \in job'.gone \/ p \notin Stored(job.copy.db)'
               \/ /\ text'[p] # Absent /\ job'.parsed[p] = Absent
                  /\ p \notin job'.gone /\ p \in Stored(job.copy.db)'
                  /\ ~TornCrash => dbRows'[job'.copy.db][p].names = text'[p]
                  /\ dbRows'[job'.copy.db][p].print = text'[p]
    BY <1>1, <1>2, <2>2, <2>3, <2>4 DEF Stored
  <2> QED BY <1>1, <1>8, <2>1, <2>4 DEF ParsedReconcile, Heard
<1>15. JobCaches'
  <2>1. ~job'.material => \A p \in Material : job'.parsed[p] = Absent /\ p \notin job'.gone
    BY <1>0, <1>1, <1>11
  <2> QED BY <1>1, <2>1 DEF JobCaches, At
<1> QED BY <1>3, <1>4, <1>5, <1>6, <1>14, <1>15 DEF CachesInv, Worked

LEMMA FastReconcileKeeps ==
  ASSUME CachesInv, FastReconcile
  PROVE  CachesInv'
<1>0. CachesTypeOK /\ JobKinds /\ JobMoves /\ EditablePaths \subseteq Paths /\ Material \subseteq Paths
  BY NothingIsAbsent DEF CachesInv, Worked, FastReconcile, Working, JobMoves
<1>70. PICK db : db = job.copy.db
  OBVIOUS
<1>1. /\ job # NoJob /\ job.stage = "started" /\ job.kind = "reconcile"
      /\ job.copy.backed /\ Unchanged(db)
      /\ IsJob(job') /\ job'.kind = "reconcile" /\ job'.stage = "written"
      /\ job'.versions = job.versions /\ job'.updates = job.updates
      /\ job'.parsed = job.parsed /\ job'.gone = job.gone
      /\ job'.copy.db = db
      /\ job'.copy.backed = (Stored(db) # {}) /\ job'.copy.unwritten = FALSE
      /\ job'.copy.files = [p \in Paths |-> Absent]
      /\ job'.copy.filters = FiltersOf(dbRows[db])
      /\ job'.copy.records = Empty /\ job'.copy.spans = Empty
      /\ job'.copy.symbols = Over(HotOf(table[db], [p \in Paths |-> Absent]), Empty)
  BY <1>0, <1>70, FastReconcileEffect
<1>2. UNCHANGED <<text, unseen, pending, removed, dbRows, table, index, query, current>>
  BY <1>0 DEF JobMoves
<1>3. Texted' /\ CachesRight' /\ QueryRight'
  BY <1>0, <1>1, JobMoved DEF Settled
<1>4. CachesTypeOK'
  BY <1>0, <1>1, <1>2 DEF CachesTypeOK
<1>5. JobKinds'
  BY <1>0, <1>1, <1>2 DEF JobKinds
<1>6. StartedRefresh' /\ ParsedRefresh' /\ Rebuilding' /\ ParsedReconcile'
  BY <1>1 DEF StartedRefresh, ParsedRefresh, Rebuilding, ParsedReconcile, At
<1>7. db \in Databases /\ dbRows[db] \in [Paths -> FileRow \union {Absent}]
  BY <1>0, <1>1, <1>70 DEF CachesTypeOK, IsJob, IsIndex
<1>8. /\ FiltersOf(dbRows[db]) # NoRow
      /\ \A p \in Paths : p \in DOMAIN FiltersOf(dbRows[db]) <=> p \in Stored(db)
      /\ \A p \in Paths : p \in Stored(db) => FiltersOf(dbRows[db])[p] = dbRows[db][p].names
  BY <1>7, FiltersOfRows DEF Stored
<1>9. Merged' = FiltersOf(dbRows[db])
  <2>1. ~job'.updates
    BY <1>0, <1>1 DEF JobKinds
  <2> QED BY <1>1, <2>1 DEF Merged
<1>10. /\ \A p \in EditablePaths : p \in Stored(db) => dbRows[db][p].print = text[p]
       /\ \A p \in EditablePaths : p \notin Stored(db) => text[p] = Absent
  BY <1>1 DEF Unchanged
<1>11. ~TornCrash =>
         \A p \in EditablePaths : p \in Stored(db) => dbRows[db][p].names = dbRows[db][p].print
  BY <1>0, <1>1, <1>7 DEF CachesInv, Texted, RowsWhole, Settled, JobKinds
<1>12. \A p \in Stored(db) : dbRows[db][p].spans = dbRows[db][p].print
  BY <1>7 DEF CachesInv, Texted, RowsMade
<1>13. WrittenJob'
  <2>1. dbRows'[job'.copy.db] = dbRows[db]
    BY <1>1, <1>2
  <2>2. ASSUME NEW p \in Paths, p \in EditablePaths, text[p] # Absent
        PROVE  /\ p \in Stored(db) /\ Stored(db) # {}
               /\ p \in DOMAIN FiltersOf(dbRows[db])
               /\ ~TornCrash => FiltersOf(dbRows[db])[p] = text[p]
               /\ dbRows[db][p] # Absent /\ dbRows[db][p].spans = text[p]
    BY <2>2, <1>8, <1>10, <1>11, <1>12 DEF Stored
  <2>3. ASSUME NEW p \in Paths, p \in EditablePaths, text[p] = Absent
        PROVE  dbRows[db][p] = Absent
    BY <2>3, <1>0, <1>7, <1>10, RowText DEF Stored
  <2>4. PICK filters : filters = FiltersOf(dbRows[db])
    OBVIOUS
  <2>5. ASSUME NEW p \in Paths, p \in EditablePaths
        PROVE  /\ text[p] # Absent /\ ~TornCrash => CoversBy(text[p], job'.copy, filters, dbRows[db], p)
               /\ RightBy(text[p], dbRows[db][p])
    BY <1>1, <2>2, <2>3, <2>4, <2>5 DEF CoversBy, RightBy
  <2>6. Merged' = filters /\ filters # NoRow
    BY <1>8, <1>9, <2>4
  <2>7. \A p \in Paths : p \in EditablePaths =>
           /\ text'[p] # Absent /\ ~TornCrash =>
                CoversBy(text'[p], job'.copy, filters, dbRows'[job'.copy.db], p)
           /\ RightBy(text'[p], dbRows'[job'.copy.db][p])
    BY <1>2, <2>1, <2>5
  <2> QED BY <2>6, <2>7, WrittenWhen
<1>14. JobCaches'
  <2>1. SymbolsRight(job'.copy, dbRows[db], table[db])
    BY <1>1, HotRight
  <2>2. SymbolsRight(job'.copy, dbRows'[job'.copy.db], table'[job'.copy.db])
    BY <1>1, <1>2, <2>1
  <2> QED BY <1>1, <2>2 DEF JobCaches, At
<1> QED BY <1>3, <1>4, <1>5, <1>6, <1>13, <1>14 DEF CachesInv, Worked

-----------------------------------------------------------------------------
(* Rows are written: what they say of every path, and what of the copy.    *)

LEMMA SameExports ==
  ASSUME NEW a \in Rows, NEW b \in Rows, \A p \in Material : a[p] = b[p]
  PROVE  Exports(a) = Exports(b)
<1>1. /\ Exports(a) \subseteq Paths \X Identifiers /\ Exports(b) \subseteq Paths \X Identifiers
      /\ \A p \in Paths, n \in Identifiers : <<p, n>> \in Exports(a) <=> <<p, n>> \in Exports(b)
  BY ExportsOf
<1>2. \A s \in Paths \X Identifiers : s \in Exports(a) <=> s \in Exports(b)
  BY <1>1
<1> QED BY <1>1, <1>2

\* What WriteRows does to the rows of one path.
RowWritten(old, new, p) ==
  /\ job.parsed[p] # Absent => /\ new[p] # Absent /\ new[p].names = job.parsed[p]
                               /\ new[p].spans = text[p] /\ new[p].print = text[p]
  /\ job.parsed[p] = Absent => /\ p \in job.gone => new[p] = Absent
                               /\ p \notin job.gone => new[p] = old[p]

LEMMA WriteRowsFacts ==
  ASSUME CachesInv, WriteRows, NEW db, db = job.copy.db, NEW old, old = dbRows[db],
         NEW new, new = dbRows'[db]
  PROVE  /\ db \in Databases /\ old \in Rows /\ new \in Rows
         /\ \A p \in Paths : RowWritten(old, new, p)
         /\ \A d \in Databases : d # db => dbRows'[d] = dbRows[d] /\ table'[d] = table[d]
         /\ table'[db] = Exports(new) /\ (~job.material => table'[db] = table[db])
         /\ Finishes(job.copy, new, Exports(new))
         /\ job # NoJob /\ job.stage = "parsed" /\ job.kind \in {"reconcile", "refresh"}
         /\ UNCHANGED <<text, unseen, pending, removed, index, query, current>>
         /\ CachesTypeOK'
<1>0. CachesTypeOK /\ RowsMade /\ JobCaches /\ Material \subseteq Paths
  BY NothingIsAbsent DEF CachesInv, Texted
<1>1. /\ job # NoJob /\ job.stage = "parsed" /\ job.kind \in {"reconcile", "refresh"}
      /\ Wrote(db, old, job.parsed, job.gone)
      /\ table'[db] = IF job.material THEN Exports(new) ELSE table[db]
      /\ table' \in [Databases -> SUBSET (Paths \X Identifiers)]
      /\ Finishes(job.copy, new, table'[db])
      /\ UNCHANGED <<text, unseen, pending, removed, index, query, current>>
  BY <1>0, WriteRowsEffect
<1>2. db \in Databases /\ old \in Rows /\ dbRows' \in [Databases -> Rows]
  BY <1>0, <1>1 DEF CachesTypeOK, IsJob, IsIndex, Rows, Wrote
<1>3. new \in Rows
  BY <1>2
<1>4. \A p \in Paths : RowWritten(old, new, p)
  BY <1>1 DEF Wrote, RowWritten
<1>5. ~job.material => Exports(new) = Exports(old)
  <2>1. ~job.material => \A p \in Material : new[p] = old[p]
    BY <1>0, <1>1, <1>4 DEF JobCaches, RowWritten
  <2> QED BY <1>2, <1>3, <2>1, SameExports
<1>6. table[db] = Exports(old)
  BY <1>0, <1>2 DEF RowsMade
<1>7. table'[db] = Exports(new)
  BY <1>1, <1>5, <1>6
<1>8. \A d \in Databases : d # db => dbRows'[d] = dbRows[d] /\ table'[d] = table[d]
  BY <1>1 DEF Wrote
<1>9. CachesTypeOK'
  BY <1>0, <1>1, <1>2 DEF CachesTypeOK, Finishes, Rows
<1> QED BY <1>1, <1>2, <1>3, <1>4, <1>7, <1>8, <1>9

\* The marks a refresh started from, and which paths it parsed.
LEMMA RefreshPaths ==
  ASSUME CachesInv, job # NoJob, job.kind = "refresh", job.stage = "parsed"
  PROVE  /\ current /\ (job.ready <=> index.filters # NoRow)
         /\ \A p \in DOMAIN job.versions : pending[p] # 0
         /\ job.copy.db = index.db /\ job.copy.backed = index.backed
         /\ job.copy.unwritten = index.unwritten
         /\ \A p \in Paths : p \notin DOMAIN job.versions => job.parsed[p] = Absent /\ p \notin job.gone
         /\ \A p \in Paths : p \notin DOMAIN job.versions /\ pending[p] = 0 =>
              job.copy.files[p] = index.files[p]
         /\ \A p \in DOMAIN job.versions :
              p \in Paths /\ (p \in job.gone \/ job.parsed[p] # Absent)
         /\ \A p \in DOMAIN job.versions : job.parsed[p] # Absent =>
              p \notin job.gone /\ job.copy.files[p] = job.parsed[p]
         /\ \A p \in DOMAIN job.versions : p \notin unseen /\ job.versions[p] = pending[p] =>
              /\ job.parsed[p] # Absent => job.parsed[p] = text[p]
              /\ p \in job.gone => text[p] = Absent
<1>1. JobKinds /\ ParsedRefresh /\ IsJob(job) /\ pending \in [Paths -> Nat]
  BY DEF CachesInv, Worked, CachesTypeOK
<1>2. DOMAIN job.versions \subseteq Paths /\ \A p \in DOMAIN job.versions : job.versions[p] \in Nat
  BY <1>1 DEF IsJob
<1>3. /\ current /\ (job.ready <=> index.filters # NoRow)
      /\ \A p \in DOMAIN job.versions : 1 <= job.versions[p] /\ job.versions[p] <= pending[p]
      /\ \A p \in job.gone :
           /\ p \in DOMAIN job.versions
           /\ p \notin unseen /\ job.versions[p] = pending[p] => text[p] = Absent
  BY <1>1 DEF JobKinds
<1>4. \A p \in DOMAIN job.versions : pending[p] # 0
  BY <1>1, <1>2, <1>3
<1>5. /\ SameBase
      /\ \A p \in DOMAIN job.versions : p \in job.gone \/ job.parsed[p] # Absent
      /\ \A p \in Paths : job.parsed[p] # Absent =>
           /\ p \in DOMAIN job.versions /\ p \notin job.gone /\ job.copy.files[p] = job.parsed[p]
           /\ p \notin unseen /\ job.versions[p] = pending[p] => job.parsed[p] = text[p]
      /\ \A p \in Paths \ DOMAIN job.versions : pending[p] # 0 \/ job.copy.files[p] = index.files[p]
  BY <1>1 DEF ParsedRefresh, At
<1> QED BY <1>2, <1>3, <1>4, <1>5 DEF SameBase

LEMMA WriteRowsTexted ==
  ASSUME CachesInv, WriteRows
  PROVE  Texted'
<1>0. CachesTypeOK /\ Covered /\ RowsMade /\ JobKinds /\ GoneIsGone
  BY DEF CachesInv, Texted, Worked
<1>1. PICK db, old, new : db = job.copy.db /\ old = dbRows[db] /\ new = dbRows'[db]
  OBVIOUS
<1>2. /\ db \in Databases /\ old \in Rows /\ new \in Rows
      /\ \A p \in Paths : RowWritten(old, new, p)
      /\ \A d \in Databases : d # db => dbRows'[d] = dbRows[d] /\ table'[d] = table[d]
      /\ table'[db] = Exports(new)
      /\ Finishes(job.copy, new, Exports(new))
      /\ job # NoJob /\ job.stage = "parsed" /\ job.kind \in {"reconcile", "refresh"}
      /\ UNCHANGED <<text, unseen, pending, removed, index, query, current>>
  BY <1>1, WriteRowsFacts
<1>3. job'.stage = "written" /\ job' # NoJob /\ ~Settled'
  BY <1>2 DEF Finishes, NoJob, Settled
<1>4. RowsCurrent' /\ RowsWhole' /\ GoneIsGone'
  BY <1>0, <1>2, <1>3 DEF RowsCurrent, RowsWhole, GoneIsGone
<1>5. \A p \in Paths : /\ new[p] # Absent => new[p].spans = new[p].print
  BY <1>0, <1>1, <1>2 DEF RowsMade, RowWritten, Stored
<1>6. RowsMade'
  <2>1. ASSUME NEW d \in Databases, NEW p \in Paths, dbRows'[d][p] # Absent
        PROVE  dbRows'[d][p].spans = dbRows'[d][p].print
    <3>1. CASE d = db
      BY <1>1, <1>5, <2>1, <3>1
    <3>2. CASE d # db
      BY <1>0, <1>2, <2>1, <3>2 DEF RowsMade, Stored
    <3> QED BY <3>1, <3>2
  <2>2. ASSUME NEW d \in Databases
        PROVE  table'[d] = Exports(dbRows'[d])
    <3>1. CASE d = db
      BY <1>1, <1>2, <3>1
    <3>2. CASE d # db
      BY <1>0, <1>2, <3>2 DEF RowsMade
    <3> QED BY <3>1, <3>2
  <2> QED BY <2>1, <2>2 DEF RowsMade, Stored, Exports, Pairs
<1>7. Covered'
  <2> SUFFICES ASSUME current PROVE Covered'
    BY <1>2 DEF Covered
  <2>1. job.kind = "refresh"
    BY <1>0, <1>2 DEF JobKinds
  <2>2. ASSUME ~TornCrash, NEW p \in Paths, p \in EditablePaths, p \notin unseen, text[p] # Absent,
               pending[p] = 0
        PROVE  CoversBy(text[p], index, index.filters, dbRows'[index.db], p)
    <3>1. CoversBy(text[p], index, index.filters, dbRows[index.db], p)
      BY <1>0, <2>2, CoversMeans DEF Covered, Heard
    <3>2. p \notin DOMAIN job.versions
      BY <1>2, <2>1, <2>2, RefreshPaths
    <3>3. job.parsed[p] = Absent /\ p \notin job.gone /\ db = index.db
      BY <1>1, <1>2, <2>1, <3>2, RefreshPaths
    <3>4. dbRows'[index.db][p] = dbRows[index.db][p]
      BY <1>1, <1>2, <3>3 DEF RowWritten
    <3> QED BY <3>1, <3>4 DEF CoversBy
  <2>3. ASSUME ~TornCrash, NEW p \in Paths, Heard(p)', text'[p] # Absent, pending'[p] = 0
        PROVE  Covers(index, index.filters, p)'
    <3>1. CoversBy(text'[p], index', index'.filters, dbRows'[index'.db], p)
      BY <1>2, <2>2, <2>3 DEF Heard
    <3> QED BY <3>1 DEF CoversBy, Covers, Stored
  <2> QED BY <1>0, <1>2, <2>3 DEF Covered
<1> QED BY <1>4, <1>6, <1>7 DEF Texted

LEMMA WriteRowsWorked ==
  ASSUME CachesInv, WriteRows
  PROVE  Worked'
<1>0. /\ CachesTypeOK /\ Covered /\ RowsCurrent /\ RowsMade /\ JobKinds /\ ParsedReconcile
      /\ IsJob(job) /\ EditablePaths \subseteq Paths
  BY NothingIsAbsent DEF CachesInv, Texted, Worked, CachesTypeOK, WriteRows
<1>1. PICK db, old, new : db = job.copy.db /\ old = dbRows[db] /\ new = dbRows'[db]
  OBVIOUS
<1>2. /\ db \in Databases /\ old \in Rows /\ new \in Rows
      /\ \A p \in Paths : RowWritten(old, new, p)
      /\ Finishes(job.copy, new, Exports(new))
      /\ job # NoJob /\ job.stage = "parsed" /\ job.kind \in {"reconcile", "refresh"}
      /\ UNCHANGED <<text, unseen, pending, removed, index, query, current>>
  BY <1>1, WriteRowsFacts
<1>3. /\ job'.kind = job.kind /\ job'.stage = "written"
      /\ job'.versions = job.versions /\ job'.parsed = job.parsed /\ job'.gone = job.gone
      /\ job'.ready = job.ready /\ job'.updates = Merges(new)
      /\ job'.copy.db = db /\ job'.copy.backed = StaysBacked(new)
      /\ job'.copy.unwritten = job.copy.unwritten /\ job'.copy.files = job.copy.files
      /\ job'.copy.filters = IF StaysBacked(new) /\ ~Merges(new) THEN FiltersOf(new) ELSE NoRow
  BY <1>1, <1>2 DEF Finishes
<1>4. JobKinds'
  <2>1. job'.updates => job'.kind = "refresh"
    BY <1>3 DEF Merges
  <2>2. job # NoJob /\ job' # NoJob
    BY <1>2, <1>3 DEF NoJob
  <2> QED BY <1>0, <1>2, <1>3, <2>1, <2>2 DEF JobKinds
<1>5. StartedRefresh' /\ ParsedRefresh' /\ Rebuilding' /\ ParsedReconcile'
  BY <1>2, <1>3 DEF StartedRefresh, ParsedRefresh, Rebuilding, ParsedReconcile, At
<1>6. \A p \in Paths : Left(p)' <=> Left(p)
  BY <1>2, <1>3 DEF Left
<1>7. PICK filters : filters = Merged'
  OBVIOUS
<1>8. CASE job.kind = "refresh"
  <2>1. current /\ (job.ready <=> index.filters # NoRow)
        /\ job.copy.db = index.db /\ job.copy.backed = index.backed
        /\ job.copy.unwritten = index.unwritten
    BY <1>2, <1>8, RefreshPaths
  <2>2. index.backed => index.filters # NoRow
    BY <1>0, <2>1 DEF Covered
  <2>3. StaysBacked(new) => Merges(new) /\ index.backed /\ index.filters # NoRow
    BY <1>8, <2>1, <2>2 DEF StaysBacked, Merges
  <2>4. StaysBacked(new) => filters = PutFilters(index.filters, job.parsed, job.gone)
    BY <1>2, <1>3, <1>7, <2>3 DEF Merged
  <2>5. StaysBacked(new) =>
          /\ filters # NoRow
          /\ \A p \in Paths : job.parsed[p] # Absent => p \in DOMAIN filters /\ filters[p] = job.parsed[p]
          /\ \A p \in Paths : job.parsed[p] = Absent =>
               /\ p \in DOMAIN filters <=> p \in DOMAIN index.filters /\ p \notin job.gone
               /\ p \in DOMAIN filters => filters[p] = index.filters[p]
    <3>1. index.filters = NoRow \/ index.filters \in FilterTables
      BY <1>0 DEF CachesTypeOK, IsIndex
    <3>2. job.parsed \in [Paths -> Text] /\ job.gone \in SUBSET Paths
      BY <1>0 DEF IsJob
    <3> QED BY <2>3, <2>4, <3>1, <3>2, FiltersMerged
  <2>6. ASSUME NEW p \in Paths, new[p] # Absent, index.backed
        PROVE  StaysBacked(new)
    BY <2>1, <2>6 DEF StaysBacked
  <2>7. ASSUME NEW p \in Paths, p \in EditablePaths, p \notin unseen, Left(p)
        PROVE  /\ text[p] # Absent /\ ~TornCrash => CoversBy(text[p], job'.copy, filters, new, p)
               /\ ~job'.copy.unwritten => RightBy(text[p], new[p])
    <3>1. CASE p \in DOMAIN job.versions
      <4>1. /\ p \notin unseen /\ job.versions[p] = pending[p]
            /\ p \in job.gone \/ job.parsed[p] # Absent
        BY <1>2, <1>8, <2>7, <3>1, RefreshPaths DEF Left
      <4>2. CASE job.parsed[p] # Absent
        <5>1. job.parsed[p] = text[p] /\ job.copy.files[p] = text[p]
          BY <1>2, <1>8, <3>1, <4>1, <4>2, RefreshPaths
        <5>2. new[p] # Absent /\ new[p].spans = text[p]
          BY <1>2, <4>2 DEF RowWritten
        <5>3. text[p] # Absent
          BY <4>2, <5>1
        <5>4. CoversBy(text[p], job'.copy, filters, new, p)
          BY <1>3, <2>5, <4>2, <5>1, <5>2, <5>3 DEF CoversBy
        <5> QED BY <5>2, <5>3, <5>4 DEF RightBy
      <4>3. CASE job.parsed[p] = Absent
        <5>1. p \in job.gone /\ text[p] = Absent
          BY <1>2, <1>8, <3>1, <4>1, <4>3, RefreshPaths
        <5>2. new[p] = Absent
          BY <1>2, <4>3, <5>1 DEF RowWritten
        <5> QED BY <5>1, <5>2 DEF RightBy
      <4> QED BY <4>2, <4>3
    <3>2. CASE p \notin DOMAIN job.versions
      <4>1. pending[p] = 0
        BY <2>7, <3>2 DEF Left
      <4>2. job.parsed[p] = Absent /\ p \notin job.gone /\ job.copy.files[p] = index.files[p]
        BY <1>2, <1>8, <3>2, <4>1, RefreshPaths
      <4>3. new[p] = dbRows[index.db][p]
        BY <1>1, <1>2, <2>1, <4>2 DEF RowWritten
      <4>4. ~index.unwritten => RightBy(text[p], new[p])
        <5>1. ~index.unwritten => RowRight(index.db, p)
          BY <1>0, <1>2, <2>1, <2>7, <4>1 DEF RowsCurrent, Settled, Heard
        <5> QED BY <4>3, <5>1, RowRightMeans
      <4>5. text[p] # Absent /\ ~TornCrash => CoversBy(text[p], job'.copy, filters, new, p)
        <5> SUFFICES ASSUME text[p] # Absent, ~TornCrash
                     PROVE  CoversBy(text[p], job'.copy, filters, new, p)
          OBVIOUS
        <5>1. CoversBy(text[p], index, index.filters, dbRows[index.db], p)
          BY <1>0, <2>1, <2>7, <4>1, CoversMeans DEF Covered, Heard
        <5>2. CASE StaysBacked(new)
          BY <1>3, <2>3, <2>5, <4>2, <4>3, <5>1, <5>2 DEF CoversBy
        <5>3. CASE ~StaysBacked(new)
          <6>1. index.files[p] # Absent
            BY <2>6, <4>3, <5>1, <5>3 DEF CoversBy
          <6> QED BY <1>3, <4>2, <5>3, <6>1 DEF CoversBy
        <5> QED BY <5>2, <5>3
      <4> QED BY <1>3, <2>1, <4>4, <4>5
    <3> QED BY <3>1, <3>2
  <2>8. job'.copy.backed => filters # NoRow
    BY <1>3, <2>5
  <2>9. \A p \in Paths : p \in EditablePaths /\ p \notin unseen' /\ Left(p)' =>
           /\ text'[p] # Absent /\ ~TornCrash =>
                CoversBy(text'[p], job'.copy, filters, dbRows'[job'.copy.db], p)
           /\ ~job'.copy.unwritten => RightBy(text'[p], dbRows'[job'.copy.db][p])
    BY <1>1, <1>2, <1>3, <1>6, <2>7
  <2> QED BY <1>4, <1>5, <1>7, <2>8, <2>9, WrittenWhen DEF Worked
<1>9. CASE job.kind = "reconcile"
  <2>1. /\ /\ \A p \in Paths : p \in job.gone => job.parsed[p] = Absent
        /\ \A p \in Paths : Heard(p) /\ pending[p] = 0 =>
             \/ text[p] # Absent /\ job.parsed[p] = text[p]
             \/ /\ text[p] = Absent /\ job.parsed[p] = Absent
                /\ p \in job.gone \/ old[p] = Absent
             \/ /\ text[p] # Absent /\ job.parsed[p] = Absent
                /\ p \notin job.gone /\ old[p] # Absent
                /\ ~TornCrash => old[p].names = text[p]
                /\ old[p].print = text[p]
    BY <1>0, <1>1, <1>2, <1>9 DEF ParsedReconcile, At, Stored
  <2>2. job.versions = Empty
    BY <1>0, <1>2, <1>9 DEF JobKinds
  <2>3. StaysBacked(new) <=> \E p \in Paths : new[p] # Absent
    BY <1>9 DEF StaysBacked
  <2>4. ~Merges(new)
    BY <1>9 DEF Merges
  <2>5. filters = IF StaysBacked(new) THEN FiltersOf(new) ELSE NoRow
    BY <1>3, <1>7, <2>4 DEF Merged
  <2>6. /\ FiltersOf(new) # NoRow
        /\ \A p \in Paths : p \in DOMAIN FiltersOf(new) <=> new[p] # Absent
        /\ \A p \in Paths : new[p] # Absent => FiltersOf(new)[p] = new[p].names
    BY <1>2, FiltersOfRows DEF Rows
  <2>7. \A p \in Paths : old[p] # Absent => old[p].spans = old[p].print
    BY <1>0, <1>1, <1>2 DEF RowsMade, Stored
  <2>8. ASSUME NEW p \in Paths, p \in EditablePaths, p \notin unseen, Left(p)
        PROVE  /\ text[p] # Absent => new[p] # Absent /\ new[p].spans = text[p]
               /\ text[p] # Absent /\ ~TornCrash => new[p].names = text[p]
               /\ text[p] = Absent => new[p] = Absent
    <3>1. Heard(p) /\ pending[p] = 0
      BY <2>2, <2>8 DEF Heard, Left, Empty
    <3>2. RowWritten(old, new, p)
      BY <1>2
    <3>3. CASE text[p] # Absent /\ job.parsed[p] = text[p]
      BY <3>2, <3>3 DEF RowWritten
    <3>4. CASE /\ text[p] = Absent /\ job.parsed[p] = Absent
               /\ p \in job.gone \/ old[p] = Absent
      BY <3>2, <3>4 DEF RowWritten
    <3>5. CASE /\ text[p] # Absent /\ job.parsed[p] = Absent
               /\ p \notin job.gone /\ old[p] # Absent
               /\ ~TornCrash => old[p].names = text[p]
               /\ old[p].print = text[p]
      BY <2>7, <3>2, <3>5 DEF RowWritten
    <3> QED BY <2>1, <3>1, <3>3, <3>4, <3>5
  <2>9. ASSUME NEW p \in Paths, p \in EditablePaths, p \notin unseen, Left(p)
        PROVE  /\ text[p] # Absent /\ ~TornCrash => CoversBy(text[p], job'.copy, filters, new, p)
               /\ RightBy(text[p], new[p])
    BY <1>3, <2>3, <2>5, <2>6, <2>8, <2>9 DEF CoversBy, RightBy
  <2>10. \A p \in Paths : p \in EditablePaths /\ p \notin unseen' /\ Left(p)' =>
           /\ text'[p] # Absent /\ ~TornCrash =>
                CoversBy(text'[p], job'.copy, filters, dbRows'[job'.copy.db], p)
           /\ ~job'.copy.unwritten => RightBy(text'[p], dbRows'[job'.copy.db][p])
    BY <1>1, <1>2, <1>3, <1>6, <2>9
  <2>11. job'.copy.backed => filters # NoRow
    BY <1>3, <2>5, <2>6
  <2> QED BY <1>4, <1>5, <1>7, <2>10, <2>11, WrittenWhen DEF Worked
<1> QED BY <1>2, <1>8, <1>9

LEMMA WriteRowsCached ==
  ASSUME CachesInv, WriteRows
  PROVE  CachesRight' /\ QueryRight' /\ JobCaches'
<1>0. /\ CachesTypeOK /\ RowsMade /\ JobKinds /\ ParsedReconcile /\ JobCaches
  BY DEF CachesInv, Texted, Worked
<1>1. PICK db, old, new : db = job.copy.db /\ old = dbRows[db] /\ new = dbRows'[db]
  OBVIOUS
<1>2. /\ db \in Databases /\ old \in Rows /\ new \in Rows
      /\ \A p \in Paths : RowWritten(old, new, p)
      /\ Finishes(job.copy, new, Exports(new))
      /\ table'[db] = Exports(new) /\ (~job.material => table'[db] = table[db])
      /\ job # NoJob /\ job.stage = "parsed" /\ job.kind \in {"reconcile", "refresh"}
      /\ UNCHANGED <<text, unseen, pending, removed, index, query, current>>
  BY <1>1, WriteRowsFacts
<1>3. /\ job'.kind = job.kind /\ job'.stage = "written" /\ job' # NoJob
      /\ job'.copy.db = db /\ job'.copy.backed = StaysBacked(new)
      /\ job'.copy.files = job.copy.files
      /\ job'.copy.records = job.copy.records /\ job'.copy.spans = job.copy.spans
      /\ job'.copy.symbols = IF Rehots THEN Over(HotOf(Exports(new), job.copy.files), job.copy.symbols)
                             ELSE job.copy.symbols
  BY <1>1, <1>2 DEF Finishes, NoJob
<1>4. CachesRight' /\ QueryRight'
  BY <1>3 DEF CachesRight, QueryRight, Settled
<1>5. job.copy.records = Empty /\ job.copy.spans = Empty /\ (Rehots => job.copy.symbols = Empty)
  BY <1>0, <1>2 DEF JobCaches, ParsedReconcile, At, EmptyCaches, Rehots
<1>6. SymbolsRight(job'.copy, new, Exports(new))
  <2>1. CASE Rehots
    <3>1. job'.copy.symbols = Over(HotOf(Exports(new), job'.copy.files), Empty)
      BY <1>3, <1>5, <2>1
    <3> QED BY <3>1, HotRight
  <2>2. CASE ~Rehots
    <3>1. job.kind = "refresh" /\ ~job.material
      BY <1>2, <2>2 DEF Rehots
    <3>2. KeptRight(job, old, table[db])
      BY <1>0, <1>1, <1>2, <3>1 DEF JobCaches, At
    <3>3. table[db] = Exports(new)
      BY <1>2, <3>1
    <3>4. /\ \A p \in Paths : p \notin DOMAIN job.versions => new[p] = old[p]
          /\ \A p \in DOMAIN job.versions : p \in Paths /\ (new[p] = Absent \/ job.parsed[p] # Absent)
          /\ \A p \in DOMAIN job.versions : job.parsed[p] # Absent => new[p].names = job.parsed[p]
      BY <1>2, <3>1, RefreshPaths DEF RowWritten
    <3>5. ASSUME NEW n \in Identifiers, Untouched(job, old, n)
          PROVE  RowsNamed(RowsPairs(new), n) = RowsNamed(RowsPairs(old), n)
      <4>1. ASSUME NEW p \in Paths
            PROVE  <<p, n>> \in RowsPairs(new) <=> <<p, n>> \in RowsPairs(old)
        <5>1. CASE p \in DOMAIN job.versions
          <6>1. <<p, n>> \notin RowsPairs(old) /\ (job.parsed[p] # Absent => n \notin job.parsed[p])
            BY <3>5, <5>1 DEF Untouched
          <6>2. <<p, n>> \notin RowsPairs(new)
            BY <3>4, <5>1, <6>1, RowsPairsOf
          <6> QED BY <6>1, <6>2
        <5>2. CASE p \notin DOMAIN job.versions
          BY <3>4, <5>2, RowsPairsOf
        <5> QED BY <5>1, <5>2
      <4>2. \A s \in Paths \X Identifiers : s[2] = n => (s \in RowsPairs(new) <=> s \in RowsPairs(old))
        BY <4>1
      <4>3. RowsPairs(new) \subseteq Paths \X Identifiers /\ RowsPairs(old) \subseteq Paths \X Identifiers
        BY RowsPairsOf
      <4> QED BY <4>2, <4>3 DEF RowsNamed
    <3>6. ASSUME NEW n \in Identifiers, job.copy.backed => Untouched(job, old, n)
          PROVE  Named(new, job'.copy.backed, n) = Named(old, job.copy.backed, n)
      <4>1. CASE ~job.copy.backed
        BY <1>3, <3>1, <4>1 DEF StaysBacked, Named
      <4>2. CASE job.copy.backed /\ StaysBacked(new)
        BY <1>3, <3>5, <3>6, <4>2 DEF Named
      <4>3. CASE job.copy.backed /\ ~StaysBacked(new)
        <5>1. ASSUME NEW p \in Paths, new[p] # Absent
              PROVE  FALSE
          BY <4>3, <5>1 DEF StaysBacked
        <5>2. \A s \in RowsPairs(new) : FALSE
          BY <5>1 DEF RowsPairs
        <5>3. RowsNamed(RowsPairs(old), n) = {}
          BY <3>5, <3>6, <4>3, <5>2 DEF RowsNamed
        <5> QED BY <1>3, <4>3, <5>3 DEF Named
      <4> QED BY <4>1, <4>2, <4>3
    <3>7. job'.copy.symbols = job.copy.symbols
      BY <1>3, <2>2
    <3>8. ASSUME NEW k \in DOMAIN job'.copy.symbols
          PROVE  FromRows(job'.copy, new, k) \/ FromHot(job'.copy, Exports(new), k)
      <4>1. CASE FromHot(job.copy, table[db], k)
        BY <1>3, <3>3, <3>7, <4>1 DEF FromHot
      <4>2. ASSUME NEW n \in Identifiers, Key[n] = k, job.copy.symbols[k] = Named(old, job.copy.backed, n),
                   job.copy.backed => Untouched(job, old, n)
            PROVE  FromRows(job'.copy, new, k)
        BY <3>6, <3>7, <4>2 DEF FromRows
      <4> QED BY <3>2, <3>7, <3>8, <4>1, <4>2 DEF KeptRight
    <3> QED BY <3>8 DEF SymbolsRight
  <2> QED BY <2>1, <2>2
<1>7. JobCaches'
  <2>1. SymbolsRight(job'.copy, dbRows'[job'.copy.db], table'[job'.copy.db])
    BY <1>1, <1>2, <1>3, <1>6
  <2> QED BY <1>3, <1>5, <2>1 DEF JobCaches, At
<1> QED BY <1>4, <1>7

LEMMA WriteRowsKeeps ==
  ASSUME CachesInv, WriteRows
  PROVE  CachesInv'
<1>1. CachesTypeOK'
  BY WriteRowsFacts
<1> QED BY <1>1, WriteRowsTexted, WriteRowsWorked, WriteRowsCached DEF CachesInv

-----------------------------------------------------------------------------
(* Everything is read and written again.                                   *)

LEMMA FallBackKeeps ==
  ASSUME CachesInv, FallBack
  PROVE  CachesInv'
<1>0. /\ CachesTypeOK /\ Covered /\ RowsMade /\ JobKinds /\ GoneIsGone
      /\ IsJob(job) /\ EditablePaths \subseteq Paths
  BY NothingIsAbsent DEF CachesInv, Texted, Worked, CachesTypeOK, FallBack
<1>1. PICK db, new : db = "fallback" /\ new = dbRows'[db]
  OBVIOUS
<1>2. /\ job # NoJob /\ job.stage = "parsed" /\ job.kind \in {"reconcile", "refresh"}
      /\ Wrote(db, NoRows, text, {})
      /\ table'[db] = Exports(new)
      /\ table' \in [Databases -> SUBSET (Paths \X Identifiers)]
      /\ \E copy : /\ IsIndex(copy) /\ copy.db = db /\ copy.files = text
                   /\ EmptyCaches(copy) /\ copy.unwritten = FALSE
                   /\ Finishes(copy, new, table'[db])
      /\ UNCHANGED <<text, unseen, pending, removed, index, query, current>>
  BY <1>0, <1>1, FallBackEffect
<1>3. PICK copy : /\ IsIndex(copy) /\ copy.db = db /\ copy.files = text
                  /\ EmptyCaches(copy) /\ copy.unwritten = FALSE
                  /\ Finishes(copy, new, Exports(new))
  BY <1>2
<1>4. db \in Databases /\ dbRows' \in [Databases -> Rows] /\ new \in Rows
  BY <1>1, <1>2 DEF Databases, Wrote
<1>5. /\ \A p \in Paths : text[p] # Absent => /\ new[p] # Absent /\ new[p].names = text[p]
                                              /\ new[p].spans = text[p] /\ new[p].print = text[p]
      /\ \A p \in Paths : text[p] = Absent => new[p] = Absent
      /\ \A d \in Databases : d # db => dbRows'[d] = dbRows[d] /\ table'[d] = table[d]
  BY <1>1, <1>2 DEF Wrote, NoRows
<1>6. /\ IsJob(job') /\ job'.kind = job.kind /\ job'.stage = "written" /\ job' # NoJob
      /\ job'.versions = job.versions /\ job'.parsed = job.parsed /\ job'.gone = job.gone
      /\ job'.ready = job.ready /\ job'.updates = Merges(new)
      /\ job'.copy.db = db /\ job'.copy.backed = StaysBacked(new)
      /\ job'.copy.unwritten = FALSE /\ job'.copy.files = text
      /\ job'.copy.filters = IF StaysBacked(new) /\ ~Merges(new) THEN FiltersOf(new) ELSE NoRow
      /\ job'.copy.records = Empty /\ job'.copy.spans = Empty
      /\ job'.copy.symbols = IF Rehots THEN Over(HotOf(Exports(new), text), Empty) ELSE Empty
  BY <1>3 DEF Finishes, EmptyCaches, NoJob
<1>7. CachesTypeOK'
  BY <1>0, <1>2, <1>4, <1>6 DEF CachesTypeOK, Rows
<1>8. RowsCurrent' /\ RowsWhole' /\ GoneIsGone' /\ CachesRight' /\ QueryRight'
  BY <1>0, <1>2, <1>6 DEF RowsCurrent, RowsWhole, GoneIsGone, CachesRight, QueryRight, Settled
<1>9. RowsMade'
  <2>1. ASSUME NEW d \in Databases, NEW p \in Paths, dbRows'[d][p] # Absent
        PROVE  dbRows'[d][p].spans = dbRows'[d][p].print
    <3>1. CASE d = db
      BY <1>1, <1>5, <2>1, <3>1
    <3>2. CASE d # db
      BY <1>0, <1>5, <2>1, <3>2 DEF RowsMade, Stored
    <3> QED BY <3>1, <3>2
  <2>2. ASSUME NEW d \in Databases
        PROVE  table'[d] = Exports(dbRows'[d])
    <3>1. CASE d = db
      BY <1>1, <1>2, <3>1
    <3>2. CASE d # db
      BY <1>0, <1>5, <3>2 DEF RowsMade
    <3> QED BY <3>1, <3>2
  <2> QED BY <2>1, <2>2 DEF RowsMade, Stored, Exports, Pairs
<1>10. Covered'
  <2> SUFFICES ASSUME current PROVE Covered'
    BY <1>2 DEF Covered
  <2>1. index.db \in Databases
    BY <1>0 DEF CachesTypeOK, IsIndex
  <2>2. ASSUME ~TornCrash, NEW p \in Paths, Heard(p)', text'[p] # Absent, pending'[p] = 0
        PROVE  Covers(index, index.filters, p)'
    <3>1. CoversBy(text[p], index, index.filters, dbRows[index.db], p)
      BY <1>0, <1>2, <2>2, CoversMeans DEF Covered, Heard
    <3>2. dbRows'[index.db][p] = dbRows[index.db][p] \/ dbRows'[index.db][p] # Absent
      BY <1>1, <1>2, <1>5, <2>1, <2>2
    <3>3. CoversBy(text[p], index, index.filters, dbRows'[index.db], p)
      BY <3>1, <3>2 DEF CoversBy
    <3>4. CoversBy(text'[p], index', index'.filters, dbRows'[index'.db], p)
      BY <1>2, <3>3
    <3> QED BY <3>4 DEF CoversBy, Covers, Stored
  <2> QED BY <1>0, <1>2, <2>2 DEF Covered
<1>11. JobKinds'
  <2>1. job'.updates => job'.kind = "refresh"
    BY <1>6 DEF Merges
  <2> QED BY <1>0, <1>2, <1>6, <2>1 DEF JobKinds
<1>12. StartedRefresh' /\ ParsedRefresh' /\ Rebuilding' /\ ParsedReconcile'
  BY <1>2, <1>6 DEF StartedRefresh, ParsedRefresh, Rebuilding, ParsedReconcile, At
<1>13. PICK filters : filters = Merged'
  OBVIOUS
<1>14. \A p \in Paths : Left(p)' <=> Left(p)
  BY <1>2, <1>6 DEF Left
<1>15. /\ FiltersOf(new) # NoRow
       /\ \A p \in Paths : p \in DOMAIN FiltersOf(new) <=> new[p] # Absent
       /\ \A p \in Paths : new[p] # Absent => FiltersOf(new)[p] = new[p].names
  BY <1>4, FiltersOfRows DEF Rows
<1>16. \A p \in Paths : RightBy(text[p], new[p])
  BY <1>5 DEF RightBy
<1>17. ASSUME job.kind = "refresh"
       PROVE  WrittenJob'
  <2>1. current /\ (job.ready <=> index.filters # NoRow) /\ job.copy.backed = index.backed
    BY <1>2, <1>17, RefreshPaths
  <2>2. index.backed => index.filters # NoRow
    BY <1>0, <2>1 DEF Covered
  <2>3. StaysBacked(new) => Merges(new) /\ index.backed /\ index.filters # NoRow
    BY <1>17, <2>1, <2>2 DEF StaysBacked, Merges
  <2>4. StaysBacked(new) => filters = PutFilters(index.filters, job.parsed, job.gone)
    BY <1>2, <1>6, <1>13, <2>3 DEF Merged
  <2>5. StaysBacked(new) =>
          /\ filters # NoRow
          /\ \A p \in Paths : job.parsed[p] # Absent => p \in DOMAIN filters /\ filters[p] = job.parsed[p]
          /\ \A p \in Paths : job.parsed[p] = Absent =>
               /\ p \in DOMAIN filters <=> p \in DOMAIN index.filters /\ p \notin job.gone
               /\ p \in DOMAIN filters => filters[p] = index.filters[p]
    <3>1. index.filters = NoRow \/ index.filters \in FilterTables
      BY <1>0 DEF CachesTypeOK, IsIndex
    <3>2. job.parsed \in [Paths -> Text] /\ job.gone \in SUBSET Paths
      BY <1>0 DEF IsJob
    <3> QED BY <2>3, <2>4, <3>1, <3>2, FiltersMerged
  <2>6. ASSUME ~TornCrash, NEW p \in Paths, p \in EditablePaths, p \notin unseen, Left(p), text[p] # Absent
        PROVE  CoversBy(text[p], job'.copy, filters, new, p)
    <3>1. job'.copy.files[p] # Absent /\ new[p] # Absent
      BY <1>5, <1>6, <2>6
    <3>2. ASSUME StaysBacked(new), p \in DOMAIN filters
          PROVE  filters[p] = text[p]
      <4>1. CASE p \in DOMAIN job.versions
        <5>1. job.versions[p] = pending[p]
          BY <1>2, <1>17, <2>6, <4>1, RefreshPaths DEF Left
        <5> QED BY <1>2, <1>17, <2>5, <2>6, <3>2, <4>1, <5>1, RefreshPaths
      <4>2. CASE p \notin DOMAIN job.versions
        <5>1. pending[p] = 0
          BY <2>6, <4>2 DEF Left
        <5>2. job.parsed[p] = Absent
          BY <1>2, <1>17, <4>2, RefreshPaths
        <5>3. CoversBy(text[p], index, index.filters, dbRows[index.db], p)
          BY <1>0, <2>1, <2>6, <5>1, CoversMeans DEF Covered, Heard
        <5> QED BY <2>3, <2>5, <3>2, <5>2, <5>3 DEF CoversBy
      <4> QED BY <4>1, <4>2
    <3> QED BY <1>6, <3>1, <3>2 DEF CoversBy
  <2>7. job'.copy.backed => filters # NoRow
    BY <1>6, <2>5
  <2>8. \A p \in Paths : p \in EditablePaths /\ p \notin unseen' /\ Left(p)' =>
           /\ text'[p] # Absent /\ ~TornCrash =>
                CoversBy(text'[p], job'.copy, filters, dbRows'[job'.copy.db], p)
           /\ ~job'.copy.unwritten => RightBy(text'[p], dbRows'[job'.copy.db][p])
    BY <1>1, <1>2, <1>6, <1>14, <1>16, <2>6
  <2> QED BY <1>13, <2>7, <2>8, WrittenWhen
<1>18. ASSUME job.kind = "reconcile"
       PROVE  WrittenJob'
  <2>1. ~Merges(new)
    BY <1>18 DEF Merges
  <2>2. filters = IF StaysBacked(new) THEN FiltersOf(new) ELSE NoRow
    BY <1>6, <1>13, <2>1 DEF Merged
  <2>3. ASSUME NEW p \in Paths, text[p] # Absent
        PROVE  CoversBy(text[p], job'.copy, filters, new, p)
    BY <1>5, <1>6, <1>15, <2>2, <2>3 DEF CoversBy
  <2>4. \A p \in Paths :
           /\ text'[p] # Absent /\ ~TornCrash =>
                CoversBy(text'[p], job'.copy, filters, dbRows'[job'.copy.db], p)
           /\ RightBy(text'[p], dbRows'[job'.copy.db][p])
    BY <1>1, <1>2, <1>6, <1>16, <2>3
  <2>5. job'.copy.backed => filters # NoRow
    BY <1>6, <1>15, <2>2
  <2> QED BY <1>13, <2>4, <2>5, WrittenWhen
<1>19. WrittenJob'
  BY <1>2, <1>17, <1>18
<1>20. JobCaches'
  <2>1. CASE Rehots
    <3>1. job'.copy.symbols = Over(HotOf(Exports(new), job'.copy.files), Empty)
      BY <1>6, <2>1
    <3>2. SymbolsRight(job'.copy, new, Exports(new))
      BY <3>1, HotRight
    <3>3. SymbolsRight(job'.copy, dbRows'[job'.copy.db], table'[job'.copy.db])
      BY <1>1, <1>2, <1>6, <3>2
    <3> QED BY <1>6, <3>3 DEF JobCaches, At
  <2>2. CASE ~Rehots
    <3>1. job'.copy.symbols = Empty
      BY <1>6, <2>2
    <3>2. SymbolsRight(job'.copy, dbRows'[job'.copy.db], table'[job'.copy.db])
      BY <3>1 DEF SymbolsRight, Empty
    <3> QED BY <1>6, <3>2 DEF JobCaches, At
  <2> QED BY <2>1, <2>2
<1> QED BY <1>7, <1>8, <1>9, <1>10, <1>11, <1>12, <1>19, <1>20 DEF CachesInv, Texted, Worked

LEMMA WriteAllKeeps ==
  ASSUME CachesInv, WriteAll
  PROVE  CachesInv'
<1>0. /\ CachesTypeOK /\ Covered /\ RowsMade /\ JobKinds /\ GoneIsGone /\ Rebuilding
      /\ IsJob(job) /\ EditablePaths \subseteq Paths
  BY NothingIsAbsent DEF CachesInv, Texted, Worked, CachesTypeOK, WriteAll
<1>1. /\ job # NoJob /\ job.stage = "parsed" /\ job.kind = "rebuild"
      /\ IsJob(job') /\ job'.kind = "rebuild" /\ job'.stage = "written" /\ job' # NoJob
      /\ job'.versions = job.versions /\ job'.parsed = job.parsed /\ job'.updates = job.updates
      /\ job'.copy.backed = job.copy.backed /\ job'.copy.files = job.copy.files
      /\ job'.copy.symbols = job.copy.symbols /\ job'.copy.records = job.copy.records
      /\ job'.copy.spans = job.copy.spans
      /\ dbRows' \in [Databases -> Rows]
      /\ table' \in [Databases -> SUBSET (Paths \X Identifiers)]
      /\ UNCHANGED <<text, unseen, pending, removed, index, query, current>>
  BY <1>0, WriteAllEffect DEF NoJob
<1>2. \/ /\ Wrote(job.copy.db, NoRows, job.parsed, {})
         /\ table'[job.copy.db] = Exports(dbRows'[job.copy.db])
         /\ job'.copy.db = job.copy.db
      \/ /\ UNCHANGED <<dbRows, table>>
         /\ job'.copy.unwritten = TRUE
  BY <1>0, WriteAllEffect
<1>3. /\ current /\ job.versions = Empty
      /\ EmptyCaches(job.copy) /\ ~job.copy.backed /\ job.copy.files = job.parsed
      /\ \A p \in Paths : Heard(p) /\ pending[p] = 0 => job.parsed[p] = text[p]
  BY <1>0, <1>1 DEF JobKinds, Rebuilding
<1>4. CachesTypeOK'
  BY <1>0, <1>1 DEF CachesTypeOK, Rows
<1>5. RowsCurrent' /\ RowsWhole' /\ GoneIsGone' /\ CachesRight' /\ QueryRight'
  BY <1>0, <1>1 DEF RowsCurrent, RowsWhole, GoneIsGone, CachesRight, QueryRight, Settled
<1>6. JobKinds'
  BY <1>0, <1>1, <1>3 DEF JobKinds, Empty
<1>7. StartedRefresh' /\ ParsedRefresh' /\ ParsedReconcile'
  BY <1>1 DEF StartedRefresh, ParsedRefresh, ParsedReconcile, At
<1>8. EmptyCaches(job'.copy) /\ Rebuilding' /\ ~job'.copy.backed
  BY <1>1, <1>3 DEF Rebuilding, EmptyCaches
<1>9. JobCaches'
  <2>1. SymbolsRight(job'.copy, dbRows'[job'.copy.db], table'[job'.copy.db])
    BY <1>8 DEF SymbolsRight, EmptyCaches, Empty
  <2> QED BY <1>1, <1>8, <2>1 DEF JobCaches, At, EmptyCaches
<1>10. PICK filters : filters = Merged'
  OBVIOUS
<1>11. \A p \in Paths : Left(p)' => pending[p] = 0
  BY <1>1, <1>3 DEF Left, Empty
<1>12. ASSUME NEW p \in Paths, p \in EditablePaths, p \notin unseen', Left(p)'
       PROVE  /\ job.parsed[p] = text[p]
              /\ text'[p] # Absent => CoversBy(text'[p], job'.copy, filters, dbRows'[job'.copy.db], p)
  <2>1. job.parsed[p] = text[p]
    BY <1>1, <1>3, <1>11, <1>12 DEF Heard
  <2> QED BY <1>1, <1>3, <1>8, <2>1 DEF CoversBy
<1>13. CASE /\ Wrote(job.copy.db, NoRows, job.parsed, {})
            /\ table'[job.copy.db] = Exports(dbRows'[job.copy.db])
            /\ job'.copy.db = job.copy.db
  <2>1. PICK db, new : db = job.copy.db /\ new = dbRows'[db]
    OBVIOUS
  <2>2. /\ \A p \in Paths : job.parsed[p] # Absent =>
             /\ new[p] # Absent /\ new[p].names = job.parsed[p]
             /\ new[p].spans = text[p] /\ new[p].print = text[p]
        /\ \A p \in Paths : job.parsed[p] = Absent => new[p] = Absent
        /\ \A d \in Databases : d # db => dbRows'[d] = dbRows[d] /\ table'[d] = table[d]
        /\ table'[db] = Exports(new)
    BY <1>13, <2>1 DEF Wrote, NoRows
  <2>3. RowsMade'
    <3>1. ASSUME NEW d \in Databases, NEW p \in Paths, dbRows'[d][p] # Absent
          PROVE  dbRows'[d][p].spans = dbRows'[d][p].print
      <4>1. CASE d = db
        BY <2>1, <2>2, <3>1, <4>1
      <4>2. CASE d # db
        BY <1>0, <2>2, <3>1, <4>2 DEF RowsMade, Stored
      <4> QED BY <4>1, <4>2
    <3>2. ASSUME NEW d \in Databases
          PROVE  table'[d] = Exports(dbRows'[d])
      <4>1. CASE d = db
        BY <2>1, <2>2, <4>1
      <4>2. CASE d # db
        BY <1>0, <2>2, <4>2 DEF RowsMade
      <4> QED BY <4>1, <4>2
    <3> QED BY <3>1, <3>2 DEF RowsMade, Stored, Exports, Pairs
  <2>4. Covered'
    <3>1. index.db \in Databases
      BY <1>0 DEF CachesTypeOK, IsIndex
    <3>2. ASSUME ~TornCrash, NEW p \in Paths, Heard(p)', text'[p] # Absent, pending'[p] = 0
          PROVE  Covers(index, index.filters, p)'
      <4>1. CoversBy(text[p], index, index.filters, dbRows[index.db], p)
        BY <1>0, <1>1, <1>3, <3>2, CoversMeans DEF Covered, Heard
      <4>2. job.parsed[p] # Absent
        BY <1>1, <1>3, <3>2 DEF Heard
      <4>3. dbRows'[index.db][p] = dbRows[index.db][p] \/ dbRows'[index.db][p] # Absent
        BY <2>1, <2>2, <3>1, <4>2
      <4>4. CoversBy(text[p], index, index.filters, dbRows'[index.db], p)
        BY <4>1, <4>3 DEF CoversBy
      <4>5. CoversBy(text'[p], index', index'.filters, dbRows'[index'.db], p)
        BY <1>1, <4>4
      <4> QED BY <4>5 DEF CoversBy, Covers, Stored
    <3> QED BY <1>0, <1>1, <1>3, <3>2 DEF Covered
  <2>5. \A p \in Paths : p \in EditablePaths /\ p \notin unseen' /\ Left(p)' =>
           /\ text'[p] # Absent => CoversBy(text'[p], job'.copy, filters, dbRows'[job'.copy.db], p)
           /\ ~job'.copy.unwritten => RightBy(text'[p], dbRows'[job'.copy.db][p])
    <3>1. \A p \in Paths : job.parsed[p] = text[p] => RightBy(text[p], new[p])
      BY <2>2 DEF RightBy
    <3> QED BY <1>1, <1>12, <1>13, <2>1, <3>1
  <2>6. WrittenJob'
    BY <1>8, <1>10, <2>5, WrittenWhen
  <2> QED BY <1>4, <1>5, <1>6, <1>7, <1>8, <1>9, <2>3, <2>4, <2>6 DEF CachesInv, Texted, Worked
<1>14. CASE UNCHANGED <<dbRows, table>> /\ job'.copy.unwritten = TRUE
  <2>1. RowsMade'
    <3>1. \A d : Stored(d)' = Stored(d)
      BY <1>14 DEF Stored
    <3> QED BY <1>0, <1>14, <3>1 DEF RowsMade, Exports, Pairs
  <2>2. Covered'
    BY <1>0, <1>1, <1>14 DEF Covered, Heard, Covers, Stored
  <2>3. \A p \in Paths : p \in EditablePaths /\ p \notin unseen' /\ Left(p)' =>
           /\ text'[p] # Absent => CoversBy(text'[p], job'.copy, filters, dbRows'[job'.copy.db], p)
           /\ ~job'.copy.unwritten => RightBy(text'[p], dbRows'[job'.copy.db][p])
    BY <1>12, <1>14
  <2>4. WrittenJob'
    BY <1>8, <1>10, <2>3, WrittenWhen
  <2> QED BY <1>4, <1>5, <1>6, <1>7, <1>8, <1>9, <2>1, <2>2, <2>4 DEF CachesInv, Texted, Worked
<1> QED BY <1>2, <1>13, <1>14

LEMMA InstallKeeps ==
  ASSUME CachesInv, Install
  PROVE  CachesInv'
<1>0. CachesTypeOK /\ WrittenJob /\ JobCaches /\ GoneIsGone /\ RowsMade /\ pending \in [Paths -> Nat]
  BY DEF CachesInv, Texted, Worked, CachesTypeOK
<1>1. PICK filters, db : filters = Merged /\ db = job.copy.db
  OBVIOUS
<1>2. /\ job # NoJob /\ job.stage = "written" /\ query = NoRow
      /\ IsIndex(index') /\ index'.db = db /\ index'.backed = job.copy.backed
      /\ index'.unwritten = job.copy.unwritten /\ index'.files = job.copy.files
      /\ index'.filters = filters
      /\ index'.symbols = job.copy.symbols /\ index'.records = job.copy.records
      /\ index'.spans = job.copy.spans
      /\ pending' \in [Paths -> Nat]
      /\ \A p \in Paths : ~Left(p) => pending'[p] = pending[p]
      /\ job' = NoJob /\ current' = TRUE
      /\ UNCHANGED <<text, unseen, removed, dbRows, table, query, events>>
  BY <1>0, <1>1, InstallEffect
<1>3. CachesTypeOK'
  BY <1>0, <1>2 DEF CachesTypeOK
<1>4. \A p \in Paths : pending'[p] = 0 => Left(p)
  BY <1>2 DEF Left
<1>5. /\ job.copy.backed => filters # NoRow
      /\ \A p \in Paths : Heard(p) /\ Left(p) =>
           /\ text[p] # Absent /\ ~TornCrash => Covers(job.copy, filters, p)
           /\ ~job.copy.unwritten => RowRight(db, p)
  BY <1>0, <1>1, <1>2 DEF WrittenJob
<1>6. Covered'
  <2>1. ASSUME ~TornCrash, NEW p \in Paths, Heard(p)', text'[p] # Absent, pending'[p] = 0
        PROVE  Covers(index, index.filters, p)'
    <3>1. Covers(job.copy, filters, p)
      BY <1>2, <1>4, <1>5, <2>1 DEF Heard
    <3> QED BY <1>1, <1>2, <3>1 DEF Covers, Stored
  <2> QED BY <1>2, <1>5, <2>1 DEF Covered
<1>7. RowsCurrent'
  <2>1. ASSUME ~index'.unwritten, NEW p \in Paths, Heard(p)', pending'[p] = 0
        PROVE  RowRight(index.db, p)'
    <3>1. RowRight(db, p)
      BY <1>2, <1>4, <1>5, <2>1 DEF Heard
    <3> QED BY <1>2, <3>1 DEF RowRight, Stored
  <2> QED BY <2>1 DEF RowsCurrent
<1>8. GoneIsGone' /\ RowsWhole'
  BY <1>0, <1>2 DEF GoneIsGone, RowsWhole
<1>9. RowsMade'
  <2>1. \A d : Stored(d)' = Stored(d)
    BY <1>2 DEF Stored
  <2> QED BY <1>0, <1>2, <2>1 DEF RowsMade, Exports, Pairs
<1>10. Worked' /\ JobCaches' /\ QueryRight'
  BY <1>2 DEF Worked, JobKinds, StartedRefresh, ParsedRefresh, Rebuilding, ParsedReconcile, WrittenJob,
              At, JobCaches, QueryRight
<1>11. CachesRight'
  <2>1. /\ SymbolsRight(job.copy, dbRows[db], table[db])
        /\ job.copy.records = Empty /\ job.copy.spans = Empty
    BY <1>0, <1>1, <1>2 DEF JobCaches
  <2>2. SymbolsRight(index', dbRows[db], table[db])
    BY <1>2, <2>1, SymbolsSame
  <2>3. RecordsRight(index', dbRows[db]) /\ SpansRight(index', dbRows[db])
    BY <1>2, <2>1 DEF RecordsRight, SpansRight, Empty
  <2> QED BY <1>2, <2>2, <2>3 DEF CachesRight
<1> QED BY <1>3, <1>6, <1>7, <1>8, <1>9, <1>10, <1>11 DEF CachesInv, Texted

-----------------------------------------------------------------------------
(* The invariant, and what it says of queries.                             *)

LEMMA CachesInitially == CachesInit => CachesInv
<1> SUFFICES ASSUME CachesInit PROVE CachesInv
  OBVIOUS
<1>1. /\ unseen = {} /\ pending = [p \in Paths |-> 0] /\ removed = {}
      /\ dbRows = [db \in Databases |-> NoRows] /\ table = [db \in Databases |-> {}]
      /\ index = Hydrated("primary")
      /\ job = NoJob /\ query = NoRow /\ current = FALSE
  BY DEF CachesInit
<1>2. text \in [Paths -> Text]
  <2>1. PICK t \in [Paths -> UNION {Texts[p] : p \in Paths}] :
          text = t /\ \A p \in Paths : t[p] \in Texts[p]
    BY DEF CachesInit
  <2>2. ASSUME NEW p \in Paths
        PROVE  t[p] \in Text
    <3>1. t[p] \in Texts[p] /\ Texts[p] \subseteq (SUBSET Identifiers) \union {Absent}
      BY <2>1, CachesAssumption
    <3> QED BY <3>1 DEF Text
  <2> QED BY <2>1, <2>2
<1>3. IsIndex(index) /\ EmptyCaches(index)
  BY <1>1, HydratedType, HydratedFields DEF Databases
<1>4. NoRows \in Rows /\ \A p \in Paths : NoRows[p] = Absent
  BY DEF NoRows, Rows
<1>5. CachesTypeOK
  BY <1>1, <1>2, <1>3, <1>4 DEF CachesTypeOK, Rows
<1>6. \A db \in Databases : dbRows[db] = NoRows /\ table[db] = {} /\ Stored(db) = {}
  BY <1>1, <1>4 DEF Stored
<1>7. Exports(NoRows) = {}
  <2>1. \A s \in Paths \X Identifiers : s \notin Exports(NoRows)
    BY <1>4, ExportsOf
  <2> QED BY <1>4, <2>1, ExportsOf
<1>8. Texted
  BY <1>1, <1>6, <1>7 DEF Texted, Covered, RowsCurrent, GoneIsGone, RowsWhole, RowsMade
<1>9. Worked /\ QueryRight /\ JobCaches
  BY <1>1 DEF Worked, JobKinds, StartedRefresh, ParsedRefresh, Rebuilding, ParsedReconcile, WrittenJob,
              At, JobCaches, QueryRight
<1>10. CachesRight
  BY <1>3 DEF CachesRight, SymbolsRight, RecordsRight, SpansRight, EmptyCaches, Empty
<1> QED BY <1>5, <1>8, <1>9, <1>10 DEF CachesInv

LEMMA CachesStutter == CachesInv /\ UNCHANGED caches => CachesInv'
<1> SUFFICES ASSUME CachesInv, UNCHANGED caches PROVE CachesInv'
  OBVIOUS
<1>1. UNCHANGED <<text, unseen, pending, removed, dbRows, table, index, job, query, current, events>>
  BY DEF caches
<1>2. Asks /\ StillWorld /\ query' = query
  BY <1>1 DEF Asks, StillWorld
<1>3. query' # NoRow => IsQuery(query')
  BY <1>1 DEF CachesInv, CachesTypeOK
<1>4. QueryRight'
  BY <1>1, StillCached DEF CachesInv
<1> QED BY <1>2, <1>3, <1>4, AskKeeps

LEMMA CachesInductive == CachesInv /\ [CachesNext]_caches => CachesInv'
<1> SUFFICES ASSUME CachesInv, [CachesNext]_caches PROVE CachesInv'
  OBVIOUS
<1>1. ASSUME NEW p \in Paths, ChangeFile(p) \/ Mark(p) PROVE CachesInv'
  BY <1>1, ChangeKeeps, MarkKeeps
<1>2. ASSUME NEW p \in Opened, Preload(p) \/ OpenFile(p) PROVE CachesInv'
  BY <1>2, PreloadKeeps, OpenFileKeeps
<1>3. ASSUME NEW n \in Identifiers, LookUp(n) \/ FindReferences(n) PROVE CachesInv'
  BY <1>3, LookUpKeeps, FindReferencesKeeps
<1>4. CASE ReadSpans \/ StoreAnswer \/ Crash
  BY <1>4, ReadSpansKeeps, StoreKeeps, CrashKeeps
<1>5. CASE StartReconcile \/ StartRebuild \/ \E S \in (SUBSET Paths) \ {{}} : StartRefresh(S)
  BY <1>5, StartKeeps
<1>6. CASE ParseRefresh \/ ParseRebuild \/ FastReconcile \/ ParseReconcile
  BY <1>6, ParseRefreshKeeps, ParseRebuildKeeps, FastReconcileKeeps, ParseReconcileKeeps
<1>7. CASE WriteRows \/ FallBack \/ WriteAll \/ Install
  BY <1>7, WriteRowsKeeps, FallBackKeeps, WriteAllKeeps, InstallKeeps
<1>8. CASE UNCHANGED caches
  BY <1>8, CachesStutter
<1> QED BY <1>1, <1>2, <1>3, <1>4, <1>5, <1>6, <1>7, <1>8 DEF CachesNext

LEMMA CachesAlways == CachesSpec => []CachesInv
<1>1. CachesInit => CachesInv
  BY CachesInitially
<1>2. CachesInv /\ [CachesNext]_caches => CachesInv'
  BY CachesInductive
<1> QED BY <1>1, <1>2, PTL DEF CachesSpec

LEMMA CoveredIsFound == ~TornCrash /\ CachesInv => NoReferenceMissed
<1> SUFFICES ASSUME ~TornCrash, CachesInv, NEW p \in Paths, NEW n \in Identifiers,
                    Told(p), text[p] # Absent, n \in text[p]
             PROVE  p \in Scanned(n)
  BY DEF NoReferenceMissed
<1>1. CASE pending[p] # 0
  BY <1>1 DEF Scanned
<1>2. CASE pending[p] = 0
  <2>1. Covers(index, index.filters, p) /\ (index.backed => index.filters # NoRow)
    BY <1>2 DEF CachesInv, Texted, Covered, Told, Heard
  <2>2. CASE index.backed /\ p \in DOMAIN index.filters
    BY <2>1, <2>2 DEF Covers, Scanned
  <2>3. CASE ~(index.backed /\ p \in DOMAIN index.filters)
    BY <2>1, <2>3 DEF Covers, Scanned
  <2> QED BY <2>2, <2>3
<1> QED BY <1>1, <1>2

LEMMA RightIsCurrent == CachesInv => CachedAnswersCurrent
<1> SUFFICES ASSUME CachesInv PROVE CachedAnswersCurrent
  OBVIOUS
<1>0. CachesTypeOK /\ RowsCurrent /\ RowsMade /\ CachesRight /\ EditablePaths \subseteq Paths
  BY NothingIsAbsent DEF CachesInv, Texted
<1>1. PICK db, rows : db = index.db /\ rows = dbRows[db]
  OBVIOUS
<1>2. db \in Databases /\ rows \in Rows
  BY <1>0, <1>1 DEF CachesTypeOK, IsIndex, Rows
<1>3. CachedReferencesCurrent
  <2> SUFFICES ASSUME NEW n \in DOMAIN index.spans, Settled, ~index.unwritten,
                      \A p \in EditablePaths : Told(p) /\ pending[p] = 0
               PROVE  index.spans[n] = {p \in EditablePaths : text[p] # Absent /\ n \in text[p]}
    BY DEF CachedReferencesCurrent
  <2>1. index.spans[n] = SpansIn(rows, n)
    BY <1>0, <1>1 DEF CachesRight, SpansRight
  <2>2. ASSUME NEW p \in EditablePaths
        PROVE  rows[p] # Absent /\ n \in rows[p].spans <=> text[p] # Absent /\ n \in text[p]
    <3>1. RowRight(db, p)
      BY <1>0, <1>1, <2>2 DEF RowsCurrent, Told, Heard
    <3>2. RightBy(text[p], rows[p])
      BY <1>0, <1>1, <2>2, <3>1, RowRightMeans
    <3> QED BY <3>2 DEF RightBy
  <2> QED BY <2>1, <2>2 DEF SpansIn
<1>4. CachedLookupsCurrent
  <2> SUFFICES ASSUME Settled PROVE CachedLookupsCurrent
    BY DEF CachedLookupsCurrent
  <2>1. SymbolsRight(index, rows, table[db]) /\ RecordsRight(index, rows)
    BY <1>0, <1>1 DEF CachesRight
  <2>2. RowPairs(db) = RowsPairs(rows)
    BY <1>0, <1>1, <1>2, RowPairsOf
  <2>3. table[db] \subseteq RowPairs(db)
    <3>1. table[db] = Exports(rows)
      BY <1>0, <1>1, <1>2 DEF RowsMade
    <3>2. \A p \in Paths, n \in Identifiers : <<p, n>> \in Exports(rows) => <<p, n>> \in RowsPairs(rows)
      BY <1>2, ExportsOf, RowsPairsOf
    <3>3. \A s \in Exports(rows) : s \in RowsPairs(rows)
      BY <1>2, <3>2, ExportsOf
    <3> QED BY <2>2, <3>1, <3>3
  <2>4. ASSUME NEW k \in DOMAIN index.symbols
        PROVE  \/ \E n \in Identifiers :
                    /\ Key[n] = k
                    /\ index.symbols[k] = IF index.backed THEN RowsNamed(RowPairs(index.db), n) ELSE {}
               \/ k \in HotKeys /\ index.symbols[k] \subseteq RowPairs(index.db) \union Pairs(index.files)
    <3>1. CASE FromRows(index, rows, k)
      BY <1>1, <2>2, <3>1 DEF FromRows, Named
    <3>2. CASE FromHot(index, table[db], k)
      BY <1>1, <2>3, <3>2 DEF FromHot, Keyed
    <3> QED BY <2>1, <3>1, <3>2 DEF SymbolsRight
  <2>5. \A p \in DOMAIN index.records :
           index.records[p] = IF index.files[p] # Absent THEN index.files[p] ELSE dbRows[index.db][p].names
    BY <1>1, <2>1 DEF RecordsRight, FileIn
  <2> QED BY <2>4, <2>5 DEF CachedLookupsCurrent
<1> QED BY <1>3, <1>4 DEF CachedAnswersCurrent

-----------------------------------------------------------------------------
(* The theorems.                                                           *)

(* The state of the index, its caches, the rows and the job in flight has  *)
(* its type, in every session of lookup_state.rs.                          *)
THEOREM CachesTypeCorrect == CachesSpec => []CachesTypeOK
<1>1. CachesInv => CachesTypeOK
  BY DEF CachesInv
<1> QED BY <1>1, CachesAlways, PTL

(* A search for references leaves out no file of the workspace that        *)
(* mentions the name (lookup_state.rs:132, the candidates of a search),    *)
(* whatever reconciles, rebuilds, refreshes, preloads and queries ran, in  *)
(* whatever order, and after a restart. A restart while a row is torn, one *)
(* written from an older text than the fingerprint stored with it, is      *)
(* excluded: the next session takes such a row for current.                *)
THEOREM ReferencesAreFound == ~TornCrash /\ CachesSpec => []NoReferenceMissed
<1>1. ASSUME ~TornCrash PROVE CachesInv => NoReferenceMissed
  BY <1>1, CoveredIsFound
<1>2. ASSUME ~TornCrash PROVE CachesSpec => []NoReferenceMissed
  BY <1>1, <1>2, CachesAlways, PTL
<1> QED BY <1>2

(* No cache in front of the rows gives an old answer (the cached lookups,  *)
(* records and spans of cache_queries.rs and what lookup_state.rs drops of *)
(* them when rows change), in any session: no assumption on the faults.    *)
THEOREM AnswersAreCurrent == CachesSpec => []CachedAnswersCurrent
BY CachesAlways, RightIsCurrent, PTL
=============================================================================
