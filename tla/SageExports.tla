----------------------------- MODULE SageExports -----------------------------
(***************************************************************************)
(* The resolution of a name that a module exports, which falls back from   *)
(* the table of SageTables to the import chain and to the sources, and     *)
(* what Python makes of the same sources.  The index is read from the      *)
(* database; the map that a rebuild leaves in memory beside it, where      *)
(* names are looked up without their case, is left aside.                  *)
(*   src/crates/sage-index/src/symbol_resolution.rs                        *)
(***************************************************************************)
EXTENDS SageTables

-----------------------------------------------------------------------------
(* Resolution of a name that a module exports: the table, then the chain   *)
(* of imports through rows and sources, then the sources of the export     *)
(* module, then the built-in map.  `seen` is shared by the whole search;   *)
(* a result is [answer, seen].                                             *)

\* An explicit import of the list that offers the name.
Named(file, name) == {s \in ToSet(file.symbols) : s.name = name}

\* require_exported: what a star import may take.
Exported(file, name) == IF file.all = NoAll THEN name \notin Private ELSE name \in file.all

RECURSIVE ResolveImportRecord(_, _, _), ModuleSymbolFromRoots(_, _, _, _, _)

\* resolve_import_record_with_depth
ResolveImportRecord(s, depth, seen) ==
  IF s.kind # "Import" \/ depth >= MaxDepth \/ s.target = NoTarget \/ s.target \in seen
  THEN [answer |-> NoSymbol, seen |-> seen]
  ELSE LET marked == seen \union {s.target}
           definition == BestDefinition(symbolRows, "database", s.target[1], s.target[2])
           source == ModuleSymbolFromRoots(s.target[1], s.target[2], depth + 1, marked, FALSE)
           next == BestOf(ImportsNamed(symbolRows, "database", s.target[1], s.target[2]), "database")
           beyond == ResolveImportRecord(next, depth + 1, source.seen)
       IN CASE definition # NoSymbol -> [answer |-> definition, seen |-> marked]
            [] source.answer # NoSymbol -> source
            [] next = NoSymbol -> source
            [] OTHER -> [beyond EXCEPT !.answer = IF @ = NoSymbol THEN next ELSE @]

\* resolve_module_symbol_from_roots_with_exports
ModuleSymbolFromRoots(module, name, depth, seen, starred) ==
  IF depth >= MaxDepth \/ disk[module] = NoFile \/ (starred /\ ~Exported(disk[module], name))
  THEN [answer |-> NoSymbol, seen |-> seen]
  ELSE LET here == Named(disk[module], name)
           definition == BestOf({s \in here : ImportTargetDefinitionMatches(s, module, name)}, "memory")
           next == BestOf({s \in here : s.kind = "Import"}, "memory")
           Try(acc, star) ==
             IF acc.answer # NoSymbol \/ <<star, name>> \in acc.seen THEN acc
             ELSE ModuleSymbolFromRoots(star, name, depth + 1, acc.seen \union {<<star, name>>}, TRUE)
           starry == FoldLeft(Try, [answer |-> NoSymbol, seen |-> seen], disk[module].stars)
           beyond == ResolveImportRecord(next, depth + 1, starry.seen)
       IN CASE definition # NoSymbol -> [answer |-> definition, seen |-> seen]
            [] starry.answer # NoSymbol -> starry
            [] next = NoSymbol -> starry
            [] OTHER -> [beyond EXCEPT !.answer = IF @ = NoSymbol THEN next ELSE @]

\* resolve_sage_exported_symbol_from, without the lookup cache's short cut.
SageExport(module, name) ==
  LET bindings == {s \in SymbolRows(symbolRows) : s.kind = "Import" /\ s.name = name /\ s.module = module}
      binding == BestOf(bindings, "database")
      chained == ResolveImportRecord(binding, 0, {}).answer
      source == ModuleSymbolFromRoots(module, name, 0, {}, FALSE).answer
      targets == SelectSeq(StaticExports, LAMBDA t : t.import_module = module /\ t.name = name)
      static == Head(targets)
      built == BestDefinition(symbolRows, "database", static.source_module, static.source_name)
  IN CASE <<module, name>> \in DOMAIN exports -> exports[<<module, name>>]
       [] bindings # {} -> IF chained = NoSymbol THEN binding ELSE chained
       [] module \in ExportModules /\ source # NoSymbol -> source
       [] targets = <<>> -> NoSymbol
       [] built # NoSymbol -> built
       [] OTHER -> ModuleSymbolFromRoots(static.source_module, static.source_name, 0, {}, FALSE).answer

-----------------------------------------------------------------------------
(* What Python makes of the sources.                                       *)

Names == {s.name : s \in UNION {ToSet(f.symbols) : f \in UNION {Files[m] \ {NoFile} : m \in Modules}}}

InNamespace(s) == s.class = NoClass /\ s.kind # "Module"

\* A symbol whatever docstring it was loaded with.
Undocumented(s) == [s EXCEPT !.doc = NoDoc]

\* What a star import takes.
Public(file, name) == IF file.all = NoAll THEN name \notin Private ELSE name \in file.all

\* The symbols a module may bind a name to, directly or through imports; the
\* star imports of the modules in `starring` are followed.
Bound(db, starring) ==
  LET Direct == {<<s.module, s.name, Undocumented(s)>> : s \in {s \in SymbolRows(db) : InNamespace(s)}}
      imports == {s \in SymbolRows(db) : s.kind = "Import" /\ s.target # NoTarget}
      edges == UNION {{m} \X ToSet(db[m].stars) : m \in {m \in starring : db[m] # NoFile}}
      Through(R) ==
        UNION {{<<s.module, s.name, r[3]>> : r \in {r \in R : s.target = <<r[1], r[2]>>}} : s \in imports}
        \union UNION {{<<e[1], r[2], r[3]>> : r \in {r \in R : r[1] = e[2] /\ Public(db[e[2]], r[2])}} : e \in edges}
      Reach[i \in 0 .. 2 * Cardinality(Modules)] ==
        IF i = 0 THEN Direct ELSE LET R == Reach[i - 1] IN R \union Through(R)
  IN Reach[2 * Cardinality(Modules)]

BuiltIn(db, k, record) ==
  \E t \in ToSet(StaticExports) :
    /\ k = <<t.import_module, t.name>>
    /\ Undocumented(record) \in {Undocumented(d) : d \in Definitions(db, "database", t.source_module, t.source_name)}

\* A binding of k among `bound` that is no import.
Reaches(bound, k) == \E b \in bound : <<b[1], b[2]>> = k /\ b[3].kind # "Import"
Backed(db, bound, k, record) ==
  InNamespace(record) => <<k[1], k[2], Undocumented(record)>> \in bound \/ BuiltIn(db, k, record)

\* What the module of a star import offers to it.
OfferedBy(module) ==
  IF module \in ExportModules THEN {k[2] : k \in {k \in DOMAIN exports : k[1] = module}}
  ELSE {s.name : s \in {s \in SymbolRows(symbolRows) :
                          s.module = module /\ s.kind \notin {"Module", "Import"} /\ Public(symbolRows[module], s.name)}}

\* The table of exports is what the import statements of the indexed files
\* say.  A row's symbol can be reached by them or is the built-in map's, and
\* is an import only where explicit imports reach no definition; every
\* explicit import of a definition has its row, and a star import has rows
\* for all that its module offers.
\* (Methods of classes and the record of a module itself are offered as
\* names of their module too; they are left aside.)
TableMatches(bound, explicit) ==
  /\ \A k \in DOMAIN exports :
       /\ Backed(symbolRows, bound, k, exports[k])
       /\ exports[k].kind = "Import" => ~Reaches(explicit, k)
  /\ \A k \in ExportModules \X Names : Reaches(explicit, k) => k \in DOMAIN exports
  /\ \A m \in ExportFiles(symbolRows) : \A source \in ToSet(StarEdges(symbolRows)[m]) :
       \A n \in OfferedBy(source) : <<m, n>> \in DOMAIN exports

\* Once the index has caught up with the files, a name is resolved to
\* something its module may bind it to or the built-in map says, and every
\* name that a definition can be reached for is resolved.
AnswerMatches(bound, k, answer) ==
  /\ answer # NoSymbol => Backed(symbolRows, bound, k, answer)
  /\ Reaches(bound, k) => answer # NoSymbol
ResolutionMatches(bound) ==
  \A k \in ExportModules \X Names : AnswerMatches(bound, k, SageExport(k[1], k[2]))

\* The table (refresh_materialized_export_cache) and what is resolved through it
\* (resolve_sage_exported_symbol_from) are what the imports say.
ExportsMatchImports ==
  /\ TableMatches(Bound(symbolRows, ExportModules), Bound(symbolRows, {}))
  /\ symbolRows = disk => ResolutionMatches(Bound(disk, Modules))
=============================================================================
