------------------------------ MODULE SageTables ------------------------------
(***************************************************************************)
(* What `sage.all` and the other export modules offer, and which methods   *)
(* Sage's types have: the two materialised tables of the cache, computed   *)
(* by a rebuild from the symbols in memory and by a refresh from the rows  *)
(* of the database.                                                        *)
(*   src/crates/sage-index/src/materialized_cache.rs, symbol_support.rs,   *)
(*   query_support/symbols.rs                                              *)
(*                                                                         *)
(* A symbol is [kind, module, name, class, target, doc, path, parsed,      *)
(* line, method]: `target` the module and name an import names, `doc` its  *)
(* docstring, `path` the rank of its file's extension, `parsed` and `line` *)
(* its place in the order of paths and, within a file, of the parser's     *)
(* passes or of lines.  A file is [symbols, all, stars]: its symbols as    *)
(* parsed, its __all__ and the modules of its star imports (the code keeps *)
(* both as import symbols with sentinel names).                            *)
(*                                                                         *)
(* The two loaders read the same symbols differently: memory is a map from *)
(* lower-cased names, the database compares names exactly, joins           *)
(* docstrings by name and detail, and orders rows by line.                 *)
(***************************************************************************)
EXTENDS Naturals, SequencesExt, FiniteSetsExt, TLC

CONSTANTS
  Modules,        \* Module names.
  ExportModules,  \* sage.all and sage.*.all
  SageModules,    \* Modules whose name starts with sage.
  Submodule,      \* Pairs <<package, module>> by name.
  Endings,        \* Pairs <<m, s>>: the name m ends with ".s".
  Private,        \* Names that start with an underscore.
  Files,          \* Files[m]: the contents module m may have, NoFile when it may be missing.
  CaseVariants,   \* Pairs {a, b} of names that differ in case only.
  NoFile, NoAll, NoClass, NoTarget, NoSymbol, NoDoc,
  StaticExports,  \* SAGE_EXPORT_MAP: [import_module, name, source_module, source_name]
  ClassOwner,     \* Owner types of classes: a function <<class, module>> -> [type, priority]
  ModuleOwner,    \* Owner types of whole modules: a function module -> [type, priority]
  MatrixConstructor, \* The class of aliases of matrix constructors, and their owner type.
  StaticMethods,  \* SAGE_METHOD_SPECS and aliases: [type, member, module, source_name]
  MaxPending,     \* How many edited files may await their refresh.
  MaxDepth        \* MAX_IMPORT_RESOLUTION_DEPTH

Kinds == {"Class", "Function", "Variable", "Module", "Import"}
Fields == {"kind", "module", "name", "class", "target", "doc", "path", "parsed", "line", "method"}
Loaders == {"memory", "database"}

\* What a file of a module may hold.  An alias of a matrix constructor names a
\* definition of its own module.
IsFileOf(m, f) ==
  \A s \in ToSet(f.symbols) :
    /\ DOMAIN s = Fields /\ s.module = m /\ s.kind \in Kinds /\ s.path \in 0 .. 4
    /\ s.parsed \in Nat /\ s.line \in Nat
    /\ s.class = MatrixConstructor => s.target = <<m, s.target[2]>> /\ s.target # NoTarget

ASSUME FilesAssumption ==
  /\ ExportModules \subseteq SageModules /\ SageModules \subseteq Modules
  /\ \A m \in Modules : \A f \in Files[m] \ {NoFile} : IsFileOf(m, f)
  /\ MaxDepth \in Nat

\* sage_owner_type_from_class_name and SAGE_OWNER_METHOD_MODULES know modules of Sage only.
ASSUME OwnersAssumption ==
  /\ \A c \in DOMAIN ClassOwner : c[2] \in SageModules /\ ClassOwner[c].priority \in Nat
  /\ \A m \in DOMAIN ModuleOwner : m \in SageModules /\ ModuleOwner[m].priority \in Nat

VARIABLES
  disk,           \* The source files.
  symbolRows,     \* The indexed files, in memory or in the database.
  exports,        \* sage_export_cache: <<module, public name>> -> symbol
  methods         \* sage_method_cache: <<owner type, member>> -> symbol
tables == <<disk, symbolRows, exports, methods>>

-----------------------------------------------------------------------------
(* Rows.                                                                      *)

Indexed(db) == {m \in Modules : db[m] # NoFile}
SymbolRows(db) == UNION {ToSet(db[m].symbols) : m \in Indexed(db)}

\* symbol_resolution_rank, symbol_doc_rank, symbol_choice_key
KindRank(kind) ==
  CASE kind \in {"Class", "Function"} -> 0 [] kind = "Variable" -> 1 [] kind = "Module" -> 2
    [] OTHER -> 3
DocRank(s) == IF s.doc = NoDoc THEN 1 ELSE 0
ChoiceKey(s) == 10 * KindRank(s.kind) + 5 * DocRank(s) + s.path

\* A map keeps the symbols of a name as they were parsed, a query orders them by line.
PlaceIn(s, loader) == IF loader = "memory" THEN s.parsed ELSE s.line

\* The first of the least key, in the order the loader meets them.
ChosenBefore(s, t, loader) ==
  \/ ChoiceKey(s) < ChoiceKey(t)
  \/ ChoiceKey(s) = ChoiceKey(t) /\ PlaceIn(s, loader) <= PlaceIn(t, loader)
Least(S, loader) == {s \in S : \A t \in S : ChosenBefore(s, t, loader)}
BestOf(S, loader) ==
  IF Least(S, loader) = {} THEN NoSymbol ELSE CHOOSE s \in Least(S, loader) : TRUE

\* The docs a row is joined with are those of any symbol of its file with its
\* name and detail, which is made of the kind, class and name.
Twins(s, t) == s.module = t.module /\ s.name = t.name /\ s.kind = t.kind /\ s.class = t.class
JoinedDocs(db, s) == {t.doc : t \in {t \in ToSet(db[s.module].symbols) : Twins(s, t) /\ t.doc # NoDoc}}
WithDoc(s, doc) == IF s.doc = doc THEN s ELSE [s EXCEPT !.doc = doc]
Joined(db, s) == IF JoinedDocs(db, s) = {} THEN {s} ELSE {WithDoc(s, d) : d \in JoinedDocs(db, s)}
ReadBy(db, loader, s) == IF loader = "memory" THEN {s} ELSE Joined(db, s)

\* The symbols of a module, and of all, as a loader reads them.
ModuleRows(db, loader, m) == UNION {ReadBy(db, loader, s) : s \in ToSet(db[m].symbols)}
Rows(db, loader) == UNION {ModuleRows(db, loader, m) : m \in Indexed(db)}

\* symbols_by_name.get(lower-cased name), load_symbols_by_name_from_connection
IsNamed(s, loader, name) == s.name = name \/ (loader = "memory" /\ {s.name, name} \in CaseVariants)
CandidateRows(db, loader, name) ==
  UNION {ReadBy(db, loader, s) : s \in {s \in SymbolRows(db) : IsNamed(s, loader, name)}}

ModuleMatchesImport(module, from) == module = from \/ <<module, from>> \in Endings

ImportTargetDefinitionMatches(s, from, name) ==
  CASE s.kind = "Import" -> FALSE
    [] s.kind = "Module" -> s.module = from \/ (s.name = name /\ <<from, s.module>> \in Submodule)
    [] OTHER -> s.name = name /\ ModuleMatchesImport(s.module, from)

Definitions(db, loader, from, name) ==
  {s \in CandidateRows(db, loader, name) : ImportTargetDefinitionMatches(s, from, name)}
ImportsNamed(db, loader, from, name) ==
  {s \in CandidateRows(db, loader, name) :
     s.kind = "Import" /\ s.name = name /\ ModuleMatchesImport(s.module, from)}

\* best_symbol_by_name_and_module_from_symbol_map, load_best_symbol_by_name_and_module
BestDefinition(db, loader, from, name) == BestOf(Definitions(db, loader, from, name), loader)

-----------------------------------------------------------------------------
(* The chain of an import.                                                    *)

\* The import that answers for the target of another.
NextImport(db, loader, s) ==
  IF s = NoSymbol \/ s.target = NoTarget THEN NoSymbol
  ELSE BestOf(ImportsNamed(db, loader, s.target[1], s.target[2]), loader)

ImportChain(db, loader, s) ==
  LET chain[i \in 0 .. MaxDepth] == IF i = 0 THEN s ELSE NextImport(db, loader, chain[i - 1])
  IN chain

\* The definition each import of a chain names.
TargetDefinitions(db, loader, chain) ==
  [i \in DOMAIN chain |->
     IF chain[i] = NoSymbol \/ chain[i].target = NoTarget THEN NoSymbol
     ELSE BestDefinition(db, loader, chain[i].target[1], chain[i].target[2])]

\* Where a chain is left: the definition there, or the last import of a chain
\* that leads nowhere.
EndOfChain(chain, definitions) ==
  LET Leads(i) == /\ i < MaxDepth /\ chain[i].target # NoTarget
                  /\ \A j \in 0 .. i - 1 : chain[j].target # chain[i].target
      Ends(i) == ~Leads(i) \/ definitions[i] # NoSymbol \/ chain[i + 1] = NoSymbol
      last == CHOOSE i \in 0 .. MaxDepth : Ends(i) /\ \A j \in 0 .. i - 1 : ~Ends(j)
  IN IF Leads(last) /\ definitions[last] # NoSymbol THEN definitions[last]
     ELSE IF last = 0 THEN NoSymbol ELSE chain[last]

\* resolve_import_symbol, for an import.
ResolveImport(db, loader, s) ==
  LET chain == ImportChain(db, loader, s) IN EndOfChain(chain, TargetDefinitions(db, loader, chain))

-----------------------------------------------------------------------------
(* The table of exports.  `named` is exports_by_module, `table` the rows   *)
(* written: they part where the first of two imports of a name is kept in  *)
(* one and the last in the other.                                          *)

\* Mutant: names are offered whatever __all__ says.
MutStarCandidate(file, s) == s.kind # "Module" /\ s.name \notin Private

\* is_star_namespace_export_candidate
StarCandidate(file, s) ==
  /\ s.kind # "Module"
  /\ IF file.all = NoAll THEN s.name \notin Private ELSE s.name \in file.all

Resolved(db, loader, s) == IF s.kind = "Import" THEN ResolveImport(db, loader, s) ELSE s

\* What the symbols of a module that a star import takes resolve to.
StarRecords(db, loader, module) ==
  [s \in {s \in ModuleRows(db, loader, module) : StarCandidate(db[module], s)} |->
     Resolved(db, loader, s)]

\* Of the symbols that bind a name, those whose record is best, the first of them.
FirstOfBest(records, loader, S) ==
  {s \in S : \A t \in S :
     \/ ChoiceKey(records[s]) < ChoiceKey(records[t])
     \/ /\ ChoiceKey(records[s]) = ChoiceKey(records[t])
        /\ PlaceIn(s, loader) <= PlaceIn(t, loader)}

\* public_module_exports: the names `from module import *` binds.
BestRecords(module, loader, records) ==
  LET offered == {s \in DOMAIN records : records[s] # NoSymbol}
      Of(k) == {s \in offered : s.name = k[2]}
  IN [k \in {<<module, s.name>> : s \in offered} |->
        records[CHOOSE s \in FirstOfBest(records, loader, Of(k)) : TRUE]]
PublicExports(db, loader, module) ==
  IF module \notin Indexed(db) THEN <<>>
  ELSE BestRecords(module, loader, StarRecords(db, loader, module))

\* The explicit imports of the export modules and what they resolve to.
ExportFiles(db) == ExportModules \intersect Indexed(db)
ExplicitImports(db) ==
  [m \in ExportFiles(db) |-> {i \in DOMAIN db[m].symbols : db[m].symbols[i].kind = "Import"}]
ImportRecords(db, loader) ==
  [m \in ExportFiles(db) |->
     [i \in ExplicitImports(db)[m] |->
        [name |-> db[m].symbols[i].name, symbol |-> ResolveImport(db, loader, db[m].symbols[i])]]]

\* The row of a name is the last of its imports that resolve, the entry the first.
TakeImports(records) ==
  LET Found(m) == {i \in DOMAIN records[m] : records[m][i].symbol # NoSymbol}
      Of(k) == {i \in Found(k[1]) : records[k[1]][i].name = k[2]}
      keys == UNION {{<<m, records[m][i].name>> : i \in Found(m)} : m \in DOMAIN records}
  IN [named |-> [k \in keys |-> records[k[1]][Min(Of(k))].symbol],
      table |-> [k \in keys |-> records[k[1]][Max(Of(k))].symbol]]

\* The star imports of the export modules, and what their sources offer.
StarEdges(db) == [m \in ExportFiles(db) |-> db[m].stars]
SourceExports(db, loader) ==
  [source \in UNION {ToSet(StarEdges(db)[m]) : m \in ExportFiles(db)} |->
     PublicExports(db, loader, source)]

\* A source that is no export module with entries of its own is entered with
\* its public names.
EnterSources(acc, offers) ==
  LET entered == {source \in DOMAIN offers : \A k \in DOMAIN acc.named : k[1] # source}
      keys == UNION {DOMAIN offers[source] : source \in entered}
  IN [acc EXCEPT !.named = @ @@ [k \in keys |-> offers[k[1]][k]]]

\* insert_star_re_exports: in each round every edge offers the names its
\* module has not got; the row is the first offer, the entry the last.
StarRound(acc, edges) ==
  LET Offers(k) == {i \in DOMAIN edges[k[1]] : <<edges[k[1]][i], k[2]>> \in DOMAIN acc.named}
      OfferAt(k, i) == acc.named[<<edges[k[1]][i], k[2]>>]
      new == UNION {{<<m, k[2]>> : k \in {k \in DOMAIN acc.named : k[1] \in ToSet(edges[m])}} :
                      m \in DOMAIN edges} \ DOMAIN acc.named
  IN IF new = {} THEN acc
     ELSE [named |-> acc.named @@ [k \in new |-> OfferAt(k, Max(Offers(k)))],
           table |-> [k \in new |-> OfferAt(k, Min(Offers(k)))] @@ acc.table]
StarRounds(acc, edges) ==
  LET rounds[i \in 0 .. MaxDepth] == IF i = 0 THEN acc ELSE StarRound(rounds[i - 1], edges)
  IN rounds[MaxDepth]

\* insert_static_sage_export_fallbacks
Fallbacks(db, loader) ==
  [i \in DOMAIN StaticExports |->
     BestDefinition(db, loader, StaticExports[i].source_module, StaticExports[i].source_name)]
AddFallbacks(acc, fallbacks) ==
  LET Entry(i) == <<StaticExports[i].import_module, StaticExports[i].name>>
      found == {i \in DOMAIN fallbacks : fallbacks[i] # NoSymbol}
      new == {Entry(i) : i \in found} \ DOMAIN acc.named
  IN [k \in new |-> fallbacks[Min({i \in found : Entry(i) = k})]] @@ acc.table

\* refresh_materialized_export_cache_from_symbols, refresh_materialized_export_cache
ExportTable(db, loader) ==
  LET explicit == TakeImports(ImportRecords(db, loader))
      starred == StarRounds(EnterSources(explicit, SourceExports(db, loader)), StarEdges(db))
  IN AddFallbacks(starred, Fallbacks(db, loader))

-----------------------------------------------------------------------------
(* The table of methods.                                                   *)

\* source_derived_method_owner_for_symbol; a class is given with its module,
\* and a module whose classes alone count has no owner of its own.
Owner(s) ==
  IF ~s.method THEN NoSymbol
  ELSE IF s.class # NoClass /\ <<s.class, s.module>> \in DOMAIN ClassOwner
  THEN ClassOwner[<<s.class, s.module>>]
  ELSE IF s.module \in DOMAIN ModuleOwner THEN ModuleOwner[s.module]
  ELSE NoSymbol

\* An alias in a class body stands for a method of that class, with priority 0.
ClassAliases(db) ==
  {s \in SymbolRows(db) : s.kind = "Import" /\ <<s.class, s.module>> \in DOMAIN ClassOwner}
ClassAliasTargets(db, loader, alias) ==
  {s \in Rows(db, loader) : s.method /\ s.module = alias.module /\ s.class = alias.class
                            /\ s.name = alias.target[2]}

\* The alias of a function or class decorated with @matrix_method: memory is
\* searched in the alias's module, the database as for an import.
MatrixAliases(db) == {s \in SymbolRows(db) : s.kind = "Import" /\ s.class = MatrixConstructor}
MatrixAliasTargets(db, loader, alias) ==
  IF loader = "memory"
  THEN {s \in SymbolRows(db) : s.kind # "Import" /\ s.module = alias.module /\ s.name = alias.target[2]}
  ELSE Definitions(db, loader, alias.module, alias.target[2])

\* A method of a type as [type, member, priority, record].
Method(type, member, priority, record) ==
  [type |-> type, member |-> member, priority |-> priority, record |-> record]
OwnedMethods(S) ==
  {Method(Owner(s).type, s.name, Owner(s).priority, s) : s \in {s \in S : Owner(s) # NoSymbol}}
ClassAliasMethods(db, loader) ==
  {Method(ClassOwner[<<a.class, a.module>>].type, a.name, 0,
          BestOf(ClassAliasTargets(db, loader, a), loader)) :
     a \in {a \in ClassAliases(db) : ClassAliasTargets(db, loader, a) # {}}}
MatrixAliasMethods(db, loader) ==
  {Method(MatrixConstructor, a.name, 0, BestOf(MatrixAliasTargets(db, loader, a), loader)) :
     a \in {a \in MatrixAliases(db) : MatrixAliasTargets(db, loader, a) # {}}}
AliasMethods(db, loader) == ClassAliasMethods(db, loader) \union MatrixAliasMethods(db, loader)

\* source_derived_method_records_from_symbols, .._from_connection: the second
\* loads the methods of classes and the functions of owner modules apart.
MethodsFromSymbols(db) == OwnedMethods(SymbolRows(db)) \union AliasMethods(db, "memory")
MethodsFromConnection(db) ==
  OwnedMethods({s \in Rows(db, "database") : s.class # NoClass}) \union AliasMethods(db, "database")
    \union OwnedMethods({s \in Rows(db, "database") : s.module \in DOMAIN ModuleOwner})
SourceMethods(db, loader) ==
  IF loader = "memory" THEN MethodsFromSymbols(db) ELSE MethodsFromConnection(db)

StaticRecords(db, loader) ==
  [t \in ToSet(StaticMethods) |-> BestDefinition(db, loader, t.module, t.source_name)]
Better(a, b) ==
  \/ a.priority < b.priority
  \/ a.priority = b.priority /\ ChoiceKey(a.record) < ChoiceKey(b.record)

\* The best candidates of each key, source-derived before static; which of
\* equals is kept is the order of the rows, or of a hash map.
MethodChoices(derived, records) ==
  LET keys == {<<d.type, d.member>> : d \in derived}
      of(k) == {d \in derived : <<d.type, d.member>> = k}
      static == {t \in DOMAIN records : <<t.type, t.member>> \notin keys /\ records[t] # NoSymbol}
  IN [k \in keys \union {<<t.type, t.member>> : t \in static} |->
        IF k \in keys THEN {d.record : d \in {d \in of(k) : \A e \in of(k) : ~Better(e, d)}}
        ELSE {records[t] : t \in {t \in static : <<t.type, t.member>> = k}}]
MethodTable(db, loader) == MethodChoices(SourceMethods(db, loader), StaticRecords(db, loader))

-----------------------------------------------------------------------------
(* Edits, rebuilds and refreshes.                                          *)

\* Mutant: only the export modules themselves count.
MutNeedsRefresh(changed) == changed \cap ExportModules # {}

\* paths_need_materialized_cache_refresh
NeedsRefresh(changed) == changed \cap SageModules # {}

\* A function that takes one of the choices for each key.
OneOf(choices) == [k \in DOMAIN choices |-> CHOOSE s \in choices[k] : TRUE]

ExportsInit ==
  /\ disk \in {d \in [Modules -> UNION {Files[m] : m \in Modules}] : \A m \in Modules : d[m] \in Files[m]}
  /\ symbolRows = disk
  /\ exports = ExportTable(symbolRows, "memory")
  /\ methods = OneOf(MethodTable(symbolRows, "memory"))

EditFile ==
  /\ Cardinality({m \in Modules : symbolRows[m] # disk[m]}) < MaxPending
  /\ \E m \in Modules : \E f \in Files[m] :
       f # disk[m] /\ disk' = [disk EXCEPT ![m] = f]
  /\ UNCHANGED <<symbolRows, exports, methods>>

\* rebuild or a reconcile of everything, then persist_all.
Rebuild ==
  /\ symbolRows # disk
  /\ symbolRows' = disk
  /\ exports' = ExportTable(symbolRows', "memory")
  /\ methods' = OneOf(MethodTable(symbolRows', "memory"))
  /\ UNCHANGED disk

\* refresh_paths, then persist_paths.
RefreshPaths ==
  /\ \E changed \in SUBSET {m \in Modules : symbolRows[m] # disk[m]} :
       /\ changed # {}
       /\ symbolRows' = [m \in Modules |-> IF m \in changed THEN disk[m] ELSE symbolRows[m]]
       /\ IF NeedsRefresh(changed)
          THEN /\ exports' = ExportTable(symbolRows', "database")
               /\ methods' = OneOf(MethodTable(symbolRows', "database"))
          ELSE UNCHANGED <<exports, methods>>
  /\ UNCHANGED disk

ExportsNext == EditFile \/ Rebuild \/ RefreshPaths

ExportsSpec == ExportsInit /\ [][ExportsNext]_tables

-----------------------------------------------------------------------------
(* Where Sage's imports lead.                                                 *)

\* No module outside Sage answers for `from`, by its name, the end of it or as
\* a submodule.
OnlySageAnswers(from) ==
  \A m \in Modules \ SageModules : ~ModuleMatchesImport(m, from) /\ <<from, m>> \notin Submodule

\* What Sage's modules and the built-in maps name is found in Sage's modules or
\* not at all, and only they decorate constructors of matrices.
SageIsClosed ==
  /\ \A m \in SageModules : \A f \in Files[m] \ {NoFile} : \A s \in ToSet(f.symbols) :
       s.target # NoTarget => OnlySageAnswers(s.target[1])
  /\ \A m \in ExportModules : \A f \in Files[m] \ {NoFile} :
       ToSet(f.stars) \intersect Modules \subseteq SageModules
  /\ \A t \in ToSet(StaticExports) : OnlySageAnswers(t.source_module)
  /\ \A t \in ToSet(StaticMethods) : OnlySageAnswers(t.module)
  /\ \A m \in Modules \ SageModules : \A f \in Files[m] \ {NoFile} : \A s \in ToSet(f.symbols) :
       s.class # MatrixConstructor

-----------------------------------------------------------------------------
(* Where the two loaders could read differently.                              *)

SageRows(db) == {s \in SymbolRows(db) : s.module \in SageModules}

\* The modules and names that Sage's imports and the built-in maps ask for.
AskedOfSage(db) ==
  {s.target : s \in {s \in SageRows(db) : s.target # NoTarget}}
    \union {<<t.source_module, t.source_name>> : t \in ToSet(StaticExports)}
    \union {<<t.module, t.source_name>> : t \in ToSet(StaticMethods)}

\* No row is joined with the docstring of another.
DocsAreOwn(db) == \A s, t \in SageRows(db) : Twins(s, t) => s.doc = t.doc

\* Symbols of one name were parsed in the order of their lines.
OrderIsKept(db) ==
  \A s, t \in SageRows(db) : s.name = t.name => (s.parsed <= t.parsed <=> s.line <= t.line)

\* Where a module's own name differs in case only from one asked of it, as
\* Graph of sage.graphs.graph, a better definition has that name.
NamesAreExact(db) ==
  \A q \in AskedOfSage(db) : \A s \in SageRows(db) :
    s.kind = "Module" /\ s.module = q[1] /\ s.name # q[2] /\ {s.name, q[2]} \in CaseVariants
      => \E d \in SageRows(db) : /\ d.name = q[2] /\ ImportTargetDefinitionMatches(d, q[1], q[2])
                                 /\ ChoiceKey(d) < ChoiceKey(s)

\* What an alias of a matrix constructor names is in its own module only.
AliasesAreOwn(db) ==
  \A a \in MatrixAliases(db) : \A s \in SageRows(db) :
    s.name = a.target[2] /\ ImportTargetDefinitionMatches(s, a.module, a.target[2])
      => s.module = a.module

Unambiguous(db) == DocsAreOwn(db) /\ OrderIsKept(db) /\ NamesAreExact(db) /\ AliasesAreOwn(db)

IsChosen(table, choices) ==
  DOMAIN table = DOMAIN choices /\ \A k \in DOMAIN table : table[k] \in choices[k]

\* The tables are those of the indexed rows, as a rebuild or a refresh would
\* compute them (refresh_materialized_caches_from_symbols,
\* refresh_materialized_caches), although a refresh skips what looks
\* irrelevant (paths_need_materialized_cache_refresh); and unless Sage's files
\* are ambiguous in one of the four ways above the two compute the same,
\* methods up to symbols of equal rank.
TablesAgree ==
  LET ofMemory == ExportTable(symbolRows, "memory")
      ofDatabase == ExportTable(symbolRows, "database")
      methodsOfMemory == MethodTable(symbolRows, "memory")
      methodsOfDatabase == MethodTable(symbolRows, "database")
  IN /\ \/ exports = ofMemory /\ IsChosen(methods, methodsOfMemory)
        \/ exports = ofDatabase /\ IsChosen(methods, methodsOfDatabase)
     /\ Unambiguous(symbolRows) => ofMemory = ofDatabase /\ methodsOfMemory = methodsOfDatabase
=============================================================================
