----------------------------- MODULE SymbolQueries -----------------------------
(***************************************************************************)
(* How a plain name is resolved, what a navigation request jumps to and    *)
(* what a rename edits: query_source_symbol_with_options_and_symbols       *)
(* (sage-index workspace_queries.rs), resolve_import_record and its kin    *)
(* (symbol_resolution.rs), navigation_targets.rs, and the handlers of      *)
(* sage-ls navigation.rs and references.rs.                                *)
(*                                                                         *)
(* The state is a small workspace: the files on disk, what the index knows *)
(* of them and the documents open in the editor. Requests change nothing;  *)
(* the properties ask for every occurrence of every name in every state.   *)
(*                                                                         *)
(* A line is a complete statement. An import has the fields `from` and     *)
(* `src` besides the name n it binds; `star` and `load` lines have `from`. *)
(* Left out: members (MemberInference), the materialised tables and        *)
(* __all__ (SageExports), relative modules and modules known by an ending  *)
(* of their name, built-in names. The spans and rows the caches hold are   *)
(* those of LookupCaches.                                                  *)
(***************************************************************************)
EXTENDS LocalBindings

CONSTANTS
  FileOrder,       \* the files, as a sequence; a module's .pyx before its .pxd
  Mod,             \* file |-> the module it holds
  Ext,             \* file |-> "py", "sage", "pyx" or "pxd"
  SageAll,         \* the module sage.all
  SageAllModules,   \* sage.all and sage.*.all
  Editable,        \* the files below the editable roots
  MaxImports,      \* MAX_IMPORT_RESOLUTION_DEPTH
  Scenarios,       \* each [lines: file |-> [stmts, max], opens, edits]: what is written and edited
  Closed           \* "not open in the editor"

Documents == ToSet(FileOrder)
KnownModules == {Mod[f] : f \in Documents}

ASSUME QueriesAssumption ==
  /\ SageAllModules \subseteq KnownModules \union {SageAll} /\ Editable \subseteq Documents
  /\ MaxImports \in Nat \ {0}

VARIABLES
  saved,           \* file |-> its text on disk
  indexed,         \* file |-> the records the index has of that text
  opened,          \* file |-> the document open in the editor, or Closed
  edits,           \* how often an open document was edited
  scenario

workspace == <<saved, indexed, opened, edits, scenario>>

Live(f) == IF opened[f] = Closed THEN saved[f] ELSE opened[f]
Rank(f) == CHOOSE i \in DOMAIN FileOrder : FileOrder[i] = f

---------------------------------------------------------------------------
(* Records *)

\* The class capture_declarations puts a definition in.
Holder(text, line) ==
  LET classes == {j \in 1 .. (line - 1) : Kind(text, j) = "class" /\ Encloses(text, j, line)}
  IN  IF classes = {} THEN "" ELSE text[CHOOSE j \in classes : \A k \in classes : k <= j].stmt.n

RecordAt(f, text, n, line) ==
  LET stmt == text[line].stmt
  IN  [file |-> f, n |-> n, line |-> line, kind |-> stmt.k, from |-> stmt.from, src |-> stmt.src,
       holder |-> Holder(text, line), signature |-> stmt.ns]
RecordsOf(f, text) == {RecordAt(f, text, s.n, s.line) : s \in Symbols(text)}

\* A local binding as a record; parameters are not symbols of the text.
LocalRecord(f, text, c) ==
  IF c.parameter THEN [RecordAt(f, text, c.n, c.line) EXCEPT !.kind = "parameter"]
  ELSE RecordAt(f, text, c.n, c.line)

IsImport(r) == r.kind = "import"

\* symbol_choice_key; among equals the first one wins.
ChoiceRank(r) ==
  CASE r.kind \in {"def", "class"} -> 0 [] r.kind = "assign" -> 1 [] OTHER -> 3
PathRank(r) == CASE Ext[r.file] \in {"py", "sage"} -> 0 [] Ext[r.file] = "pyx" -> 1 [] OTHER -> 2
Precedes(r, s) ==
  LET key(q) == <<ChoiceRank(q), PathRank(q), Rank(q.file), q.line>>
      p == key(r)
      q == key(s)
  IN  p = q \/ \E i \in 1 .. 4 : p[i] < q[i] /\ \A j \in 1 .. (i - 1) : p[j] = q[j]
First(records) ==
  IF records = {} THEN None ELSE CHOOSE r \in records : \A s \in records : Precedes(r, s)

\* symbol_candidates
Candidates(n) == {r \in UNION {indexed[f] : f \in Documents} : r.n = n}

\* import_target_definition_matches
Targets(from, src) == {r \in Candidates(src) : ~IsImport(r) /\ Mod[r.file] = from}

---------------------------------------------------------------------------
(* Imports across files *)

\* module_source_path_from_roots
SourceOf(m) == CHOOSE f \in Documents : Mod[f] = m /\ \A g \in Documents : Mod[g] = m => Rank(f) <= Rank(g)

Stars(text) ==
  SelectSeq(Lines(Len(text)), LAMBDA i : Kind(text, i) = "star")

RECURSIVE ResolveModuleSymbol(_, _, _), ResolveImported(_, _), FirstOfStars(_, _, _)

OrElse(r, s) == IF r = None THEN s ELSE r

\* resolve_import_record_with_depth
ResolveImported(r, depth) ==
  IF ~IsImport(r) \/ depth >= MaxImports THEN None
  ELSE LET next == First({c \in Candidates(r.src) : IsImport(c) /\ Mod[c.file] = r.from})
       IN  OrElse(First(Targets(r.from, r.src)),
           OrElse(ResolveModuleSymbol(r.from, r.src, depth + 1),
                  IF next = None THEN None ELSE OrElse(ResolveImported(next, depth + 1), next)))

\* resolve_module_symbol_from_roots
ResolveModuleSymbol(m, n, depth) ==
  IF depth >= MaxImports \/ m \notin KnownModules THEN None
  ELSE LET f == SourceOf(m)
           records == {r \in indexed[f] : r.n = n}
           stars == Stars(saved[f])
           import == First({r \in records : IsImport(r)})
       IN  OrElse(First({r \in records : ~IsImport(r)}),
           OrElse(FirstOfStars([i \in DOMAIN stars |-> saved[f][stars[i]].stmt.from], n, depth + 1),
                  IF import = None THEN None ELSE OrElse(ResolveImported(import, depth + 1), import)))

FirstOfStars(modules, n, depth) ==
  IF modules = <<>> THEN None
  ELSE OrElse(ResolveModuleSymbol(Head(modules), n, depth), FirstOfStars(Tail(modules), n, depth))

\* resolve_sage_exported_symbol_from
SageExported(m, n) ==
  LET binding == First({c \in Candidates(n) : IsImport(c) /\ Mod[c.file] = m})
  IN  CASE binding # None -> OrElse(ResolveImported(binding, 0), binding)
        [] binding = None /\ m \in SageAllModules -> ResolveModuleSymbol(m, n, 0)
        [] OTHER -> None

---------------------------------------------------------------------------
(* query_source_symbol_with_options_and_symbols, for a plain name of code *)

High(r) == [high |-> TRUE, record |-> r, candidates |-> {}]
Weak(r) == [high |-> FALSE, record |-> r, candidates |-> {}]
Several(records) == [high |-> FALSE, record |-> None, candidates |-> records]

\* source_import_lookup
Lookup(text, import) ==
  IF import = None THEN None
  ELSE [from |-> text[import.line].stmt.from, src |-> text[import.line].stmt.src]

\* sage_all_export_lookup
ExportLookup(text, n, lookup) ==
  LET stars == SelectSeq(Stars(text), LAMBDA i : text[i].stmt.from \in SageAllModules)
  IN  CASE lookup # None -> IF lookup.from \in SageAllModules THEN lookup ELSE None
        [] lookup = None /\ stars # <<>> -> [from |-> text[Head(stars)].stmt.from, src |-> n]
        [] OTHER -> None

\* resolve_loaded_symbol_before_line: the last load before the line that has the name
Loaded(text, n, t) ==
  LET Found(i) ==
        First({r \in indexed[SourceOf(text[i].stmt.from)] : r.n = n /\ ~IsImport(r)})
      loads == SelectSeq(Lines(Len(text)), LAMBDA i : i <= t /\ Kind(text, i) = "load")
  IN  FoldLeft(LAMBDA last, i : OrElse(Found(i), last), None, loads)

\* explicit import of a module that is no export module
OneOrSeveral(found, Answer(_)) ==
  IF Cardinality(found) = 1 THEN Answer(First(found)) ELSE Several(found)
ImportAnswer(lookup) ==
  LET targets == Targets(lookup.from, lookup.src)
  IN  OneOrSeveral(IF targets # {} THEN targets
                   ELSE {ResolveModuleSymbol(lookup.from, lookup.src, 0)} \ {None}, High)

GlobalAnswer(n) ==
  OneOrSeveral({IF IsImport(r) THEN OrElse(ResolveImported(r, 0), r) ELSE r : r \in Candidates(n)}, Weak)

\* The answers that are tried in turn; None where there is none.
Sure(r) == IF r = None THEN None ELSE High(r)
Implied(f, n) == IF Ext[f] = "sage" THEN Sure(SageExported(SageAll, n)) ELSE None
\* What is asked of sage.all and not among its exports is left to the runtime.
Chained(export) ==
  IF export = None THEN None
  ELSE OrElse(Sure(SageExported(export.from, export.src)),
              IF export.from # SageAll THEN Several({}) ELSE None)
Explicit(export, lookup) == IF export = None /\ lookup # None THEN ImportAnswer(lookup) ELSE None
Local(f, text, shadow) == IF shadow = None THEN None ELSE High(LocalRecord(f, text, shadow))

\* Mutant: the implicit exports of sage.all come before the document's own bindings.
MutChoose(f, text, n, t, lookup, shadow, export) ==
  OrElse(Implied(f, n), OrElse(Chained(export), OrElse(Explicit(export, lookup),
    OrElse(Sure(Loaded(text, n, t)), OrElse(Local(f, text, shadow), GlobalAnswer(n))))))

Choose(f, text, n, t, lookup, shadow, export) ==
  LET first == Ext[f] = "sage" \/ export # None \/ lookup # None
      local == Local(f, text, shadow)
  IN  OrElse(IF first THEN local ELSE None,
      OrElse(Implied(f, n),
      OrElse(Chained(export),
      OrElse(Explicit(export, lookup),
      OrElse(Sure(Loaded(text, n, t)),
      OrElse(local, GlobalAnswer(n)))))))
Resolve(f, text, n, t) ==
  LET lookup == Lookup(text, LocalImport(text, n, t))
  IN  Choose(f, text, n, t, lookup, LocalShadow(text, n, t), ExportLookup(text, n, lookup))

---------------------------------------------------------------------------
(* navigation_targets.rs: the two sites of a Cython class or method *)

\* cython_pair_identity
Paired(r) ==
  /\ Ext[r.file] \in {"pxd", "pyx"}
  /\ r.kind = "class" \/ (r.kind = "def" /\ r.holder # "" /\ r.signature # {})
Identity(r) ==
  <<Mod[r.file], r.n, r.holder, r.kind, IF r.kind = "class" THEN {} ELSE r.signature>>
RoleExt(role) == IF role = "declaration" THEN "pxd" ELSE "pyx"
BothRoles(records) == {"pxd", "pyx"} \subseteq {Ext[r.file] : r \in records}
Sites(records, role) == {r \in records : Ext[r.file] = RoleExt(role)}

\* paired_navigation_targets_for_resolved
PairTargets(r, role) ==
  LET siblings == UNION {indexed[f] : f \in {g \in Documents : Mod[g] = Mod[r.file]}}
      same == {s \in siblings \union {r} : Paired(s) /\ Identity(s) = Identity(r)}
  IN  IF BothRoles(same) THEN Sites(same, role) ELSE {}

\* select_navigation_role_candidates
SelectRole(records, role) ==
  LET paired == {r \in records : Paired(r)}
      groups == {{s \in paired : Identity(s) = Identity(r)} : r \in paired}
      whole == {g \in groups : BothRoles(g)}
      kept == (records \ UNION whole) \union UNION {Sites(g, role) : g \in whole}
  IN  CASE whole = {} -> Several(records)
        [] Cardinality(whole) = 1 /\ records = UNION whole /\ Cardinality(kept) = 1 ->
             High(First(kept))
        [] OTHER -> Several(kept)

\* resolve_navigation_target_role
ForRole(answer, role) ==
  LET pair == IF Paired(answer.record) THEN PairTargets(answer.record, role) ELSE {}
  IN  CASE role = "definition" -> answer
        [] role # "definition" /\ answer.high ->
             CASE Cardinality(pair) = 0 -> answer
               [] Cardinality(pair) = 1 -> High(First(pair))
               [] OTHER -> Several(pair)
        [] OTHER -> IF answer.record = None THEN SelectRole(answer.candidates, role) ELSE answer

\* An answer that is an import is followed to its definition.
Definite(answer) ==
  IF answer.record = None \/ ~IsImport(answer.record) THEN answer
  ELSE [answer EXCEPT !.record = OrElse(ResolveImported(@, 0), @)]
Query(f, text, n, t, role) == ForRole(Definite(Resolve(f, text, n, t)), role)

---------------------------------------------------------------------------
(* sage-ls navigation.rs *)

\* The words of a line: the name it binds or uses, parameters, the imported name.
Words(stmt) ==
  (IF stmt.k \in {"star", "load"} THEN {} ELSE {stmt.n})
    \union (IF stmt.k = "def" THEN stmt.ns ELSE {})
    \union (IF stmt.k = "import" THEN {stmt.src} ELSE {})

Same(r, s) == [r EXCEPT !.line = 0, !.signature = {}] = [s EXCEPT !.line = 0, !.signature = {}]

\* live_definition_range: the record's line in a newer text; 0 for none
LiveLine(r, text) ==
  LET found == {s \in RecordsOf(r.file, text) : Same(s, r)}
  IN  CASE \E s \in found : s.line = r.line -> r.line
        [] Cardinality(found) = 1 -> First(found).line
        [] found = {} /\ r.kind = "parameter" ->
             IF r.line \in DOMAIN text /\ r.n \in Words(text[r.line].stmt) THEN r.line ELSE 0
        [] OTHER -> 0

\* definition_identity_ranges
IdentityLines(r) ==
  LET live == IF opened[r.file] = Closed THEN 0 ELSE LiveLine(r, opened[r.file])
      disk == {s \in RecordsOf(r.file, saved[r.file]) : Same(s, r)}
  IN  ({r.line, live} \ {0}) \union (IF Cardinality(disk) = 1 THEN {First(disk).line} ELSE {})

---------------------------------------------------------------------------
(* Occurrences: the code tokens of a line a request may be about *)

Token(f, i, n, part) == [file |-> f, line |-> i, n |-> n, part |-> part]
IsAliased(stmt) == stmt.k = "import" /\ stmt.src # stmt.n
Tokens(f) ==
  UNION {LET stmt == Live(f)[i].stmt
         IN  (IF stmt.k \in {"star", "load"} THEN {} ELSE {Token(f, i, stmt.n, "name")})
               \union (IF stmt.k = "def" THEN {Token(f, i, n, "parameter") : n \in stmt.ns} ELSE {})
               \union (IF IsAliased(stmt) THEN {Token(f, i, stmt.src, "source")} ELSE {}) :
         i \in DOMAIN Live(f)}

Ask(o, role) == Query(o.file, Live(o.file), o.n, o.line, role)

\* goto_navigation_response with one location, location_for_query_definition
Jump(answer) ==
  LET r == answer.record
      line == LiveLine(r, Live(r.file))
  IN  IF answer.high /\ line # 0 THEN [file |-> r.file, line |-> line, n |-> r.n] ELSE None

---------------------------------------------------------------------------
(* sage-ls references.rs: rename_response *)

\* local_import_alias_symbol_from_symbols: the line of the aliased import, or 0
AliasedLine(o, import) ==
  IF import # None /\ IsAliased(Live(o.file)[import.line].stmt) THEN import.line ELSE 0
AliasLine(o) == AliasedLine(o, LocalImport(Live(o.file), o.n, o.line))

\* rename_target: the declaration is what the edits always contain.
NoRename == [alias |-> 0, declared |-> None, record |-> None, lines |-> {}]
TargetOf(o, alias, answer) ==
  LET jump == Jump(answer)
  IN  IF alias # 0 /\ o.file \in Editable
      THEN [alias |-> alias, declared |-> [file |-> o.file, line |-> alias, n |-> o.n],
            record |-> None, lines |-> {}]
      ELSE IF alias # 0 \/ jump = None \/ jump.file \notin Editable THEN NoRename
      ELSE [alias |-> 0, declared |-> jump, record |-> answer.record,
            lines |-> IdentityLines(answer.record)]
\* Mutant: an alias is what it stands for.
MutTarget(o) == TargetOf(o, 0, Ask(o, "definition"))

Target(o) == TargetOf(o, AliasLine(o), Ask(o, "definition"))

\* reference_query_matches_target
Answers(target, answer) ==
  /\ answer.high /\ Same(answer.record, target.record)
  /\ answer.record.line \in target.lines

\* local_import_alias_symbol_from_source_name: the alias a source token belongs to
AliasOf(o) == Token(o.file, o.line, Live(o.file)[o.line].stmt.n, "name")

\* reference_query_or_aliased_import_matches_target
Matches(origin, target, o) ==
  IF target.alias # 0
  THEN o.file = origin.file /\ AliasLine(o) = target.alias
  ELSE \E p \in {o} \union (IF o.part = "source" THEN {AliasOf(o)} ELSE {}) :
         Answers(target, Ask(p, "definition"))

\* reference_locations with the declaration, as places [file, line, n]
Place(o) == [file |-> o.file, line |-> o.line, n |-> o.n]
EditsOf(o, target) ==
  LET occurrences == {p \in UNION {Tokens(f) : f \in Editable} : p.n = o.n}
  IN  IF target = NoRename THEN {}
      ELSE {target.declared} \union {Place(p) : p \in {q \in occurrences : Matches(o, target, q)}}
Edits(o) == EditsOf(o, Target(o))

---------------------------------------------------------------------------
(* The workspace *)

\* A line is indented below the header above it, or at a margin in use.
WellFormed(text) ==
  \A i \in DOMAIN text :
    /\ text[i].indent <= IF i = 1 THEN 0
                         ELSE text[i - 1].indent + (IF Kind(text, i - 1) \in Headers THEN 1 ELSE 0)
    /\ Kind(text, i) \in {"star", "load"} => text[i].indent = 0

Line(indent, stmt, id) == [indent |-> indent, stmt |-> stmt, id |-> id]

QueriesInit ==
  /\ scenario \in DOMAIN Scenarios
  /\ saved = [f \in Documents |-> <<>>] /\ indexed = [f \in Documents |-> {}]
  /\ opened = [f \in Documents |-> Closed] /\ edits = 0

\* The index has a file's text as soon as it is on disk (IndexJobs is about the meantime).
Store(f, text) ==
  /\ saved' = [saved EXCEPT ![f] = text]
  /\ indexed' = [indexed EXCEPT ![f] = RecordsOf(f, text)]

\* The files come to be, one after the other.
Write(f, indent, stmt) ==
  LET text == Append(saved[f], Line(indent, stmt, Len(saved[f]) + 1))
  IN  /\ \A g \in Documents : opened[g] = Closed /\ (Rank(g) > Rank(f) => saved[g] = <<>>)
      /\ Len(saved[f]) < Scenarios[scenario].lines[f].max /\ WellFormed(text)
      /\ Store(f, text)
      /\ UNCHANGED <<opened, edits, scenario>>

DidOpen(f) ==
  /\ f \in Scenarios[scenario].opens /\ opened[f] = Closed
  /\ opened' = [opened EXCEPT ![f] = saved[f]]
  /\ UNCHANGED <<saved, indexed, edits, scenario>>

\* An edit inserts or removes a line; what is inserted is a new declaration.
Insert(f, indent, stmt, i) ==
  LET text == InsertAt(opened[f], i, Line(indent, stmt, 10 + edits))
  IN  /\ WellFormed(text) /\ opened' = [opened EXCEPT ![f] = text]
      /\ UNCHANGED <<saved, indexed, scenario>>
Delete(f, i) ==
  /\ WellFormed(RemoveAt(opened[f], i)) /\ opened' = [opened EXCEPT ![f] = RemoveAt(opened[f], i)]
  /\ UNCHANGED <<saved, indexed, scenario>>
DidChange(f) ==
  /\ opened[f] # Closed /\ edits < Scenarios[scenario].edits /\ edits' = edits + 1
  /\ \/ \E indent \in {0, 1}, stmt \in Scenarios[scenario].lines[f].stmts, i \in 1 .. (Len(opened[f]) + 1) :
          Insert(f, indent, stmt, i)
     \/ \E i \in DOMAIN opened[f] : Delete(f, i)

DidSave(f) ==
  /\ opened[f] \notin {Closed, saved[f]}
  /\ Store(f, opened[f])
  /\ UNCHANGED <<opened, edits, scenario>>

DidClose(f) ==
  /\ opened[f] # Closed /\ edits > 0
  /\ opened' = [opened EXCEPT ![f] = Closed]
  /\ UNCHANGED <<saved, indexed, edits, scenario>>

QueriesNext ==
  \E f \in Documents :
    \/ \E indent \in {0, 1}, stmt \in Scenarios[scenario].lines[f].stmts : Write(f, indent, stmt)
    \/ DidOpen(f) \/ DidChange(f) \/ DidSave(f) \/ DidClose(f)

---------------------------------------------------------------------------
(* What a name stands for when the program runs, as seen from an open file: *)
(* its live text and the other files' saved ones. A binding is known by its *)
(* line's id.                                                               *)

Text(f, g) == IF g = f THEN Live(f) ELSE saved[g]
Thing(g, line, n) == [file |-> g, id |-> line.id, n |-> n]
MaxOf(S) == CHOOSE x \in S : \A y \in S : y <= x

RECURSIVE BoundTo(_, _, _, _, _, _), Final(_, _, _, _, _)

\* The lines of scope s that bind n.
BindingLines(f, g, s, n, through, fuel) ==
  {i \in Directly(Text(f, g), s) :
     LET stmt == Text(f, g)[i].stmt
     IN  \/ stmt.k \in {"def", "class", "assign", "import"} /\ stmt.n = n
         \/ stmt.k \in {"star", "load"} /\ Final(f, stmt.from, n, through, fuel - 1) # {}}

\* What line i binds n to: imports are followed, aliased ones only if `through`.
BoundTo(f, g, i, n, through, fuel) ==
  LET line == Text(f, g)[i]
      stmt == line.stmt
      source == IF stmt.k = "import" THEN stmt.src ELSE n
      found == IF fuel = 0 THEN {} ELSE Final(f, stmt.from, source, through, fuel - 1)
  IN  IF stmt.k \notin {"import", "star", "load"} \/ (IsAliased(stmt) /\ ~through) \/ found = {}
      THEN {Thing(g, line, n)}
      ELSE found

\* What module m's global n is in the end; a Cython module has it in either file.
Final(f, m, n, through, fuel) ==
  IF fuel = 0 \/ m \notin KnownModules THEN {}
  ELSE UNION {LET lines == BindingLines(f, g, 0, n, through, fuel)
              IN  IF lines = {} THEN {} ELSE BoundTo(f, g, MaxOf(lines), n, through, fuel) :
              g \in {h \in Documents : Mod[h] = m}}

RECURSIVE InScope(_, _, _, _, _, _)
\* The bindings of n code before line t of scope s may see; a function's body runs later.
InScope(f, n, t, s, later, through) ==
  LET text == Text(f, f)
      lines == BindingLines(f, f, s, n, through, MaxImports + 1)
      above == {i \in lines : i < t}
      before == IF above = {} THEN {} ELSE BoundTo(f, f, MaxOf(above), n, through, MaxImports + 1)
      after == IF later THEN UNION {BoundTo(f, f, i, n, through, MaxImports + 1) : i \in lines \ above}
               ELSE {}
      function == s # 0 /\ Kind(text, s) = "def"
      first == CASE before # {} -> before
                 [] function /\ before = {} /\ n \in text[s].stmt.ns -> {Thing(f, text[s], n)}
                 [] s = 0 /\ before = {} /\ Ext[f] = "sage" ->
                      Final(f, SageAll, n, through, MaxImports + 1)
                 [] OTHER -> {}
      own == function /\ (lines # {} \/ n \in text[s].stmt.ns)
  IN  CASE s = 0 \/ own -> first \union after
        [] s # 0 /\ ~function /\ ~later /\ before # {} -> before
        [] OTHER -> InScope(f, n, s, OwnScope(text, s), later \/ function, through)

StandsFor(o, through) ==
  LET text == Live(o.file)
      stmt == text[o.line].stmt
      scope == OwnScope(text, o.line)
  IN  CASE o.part = "parameter" -> {Thing(o.file, text[o.line], o.n)}
        [] o.part = "source" -> Final(o.file, stmt.from, o.n, through, MaxImports + 1)
        [] o.part = "name" /\ stmt.k # "use" ->
             BoundTo(o.file, o.file, o.line, o.n, through, MaxImports + 1)
        [] OTHER -> InScope(o.file, o.n, o.line, scope, FALSE, through)

\* The thing an editor finds at a place: Live lines keep their ids.
At(place) == Thing(place.file, Live(place.file)[place.line], place.n)

---------------------------------------------------------------------------
(* Code the queries are made for. Each part names what they do not follow.   *)

\* The line supplies the name from elsewhere.
Supplies(f, i, n) == i \in BindingLines(f, f, OwnScope(Live(f), i), n, TRUE, MaxImports + 1)
WordsOf(f) == UNION {Words(Live(f)[i].stmt) : i \in DOMAIN Live(f)}

\* Local bindings are never followed by an import of the name, stars and loads by no binding.
NoLateImport(f, n) ==
  \A i, j \in DOMAIN Live(f) :
    i < j /\ Supplies(f, j, n) =>
      /\ Kind(Live(f), j) = "import" =>
           ~(Supplies(f, i, n) /\ Kind(Live(f), i) # "import") /\ n \notin Live(f)[i].stmt.ns
      /\ Kind(Live(f), j) \in {"star", "load"} => ~Supplies(f, i, n)
\* A .sage file imports no other thing under a name sage.all exports.
NoMaskedExport(f, n) ==
  Ext[f] = "sage" /\ SageExported(SageAll, n) # None =>
    \A i \in DOMAIN Live(f) : Kind(Live(f), i) \in {"import", "star", "load"} => ~Supplies(f, i, n)
\* Assignments the index captures: those at the left margin.
NoHiddenAssignment(f, n) ==
  \A i \in DOMAIN Live(f) : Kind(Live(f), i) = "assign" /\ Live(f)[i].stmt.n = n => Live(f)[i].indent = 0
\* No parameter is bound again in its function.
NoReboundParameter(f, n) ==
  \A i, j \in DOMAIN Live(f) :
    n \in Live(f)[i].stmt.ns /\ OwnScope(Live(f), j) = i => ~Supplies(f, j, n)
\* The name an aliased import takes from its module is no name of the file.
NoSourceTwin(f, n) ==
  (\E i \in DOMAIN Live(f) : IsAliased(Live(f)[i].stmt) /\ Live(f)[i].stmt.src = n) =>
    \A i \in DOMAIN Live(f) : ~Supplies(f, i, n) /\ n \notin Live(f)[i].stmt.ns

\* What is taken from a module is bound there once, and at the top level.
Takes(stmt, m, n) ==
  stmt.from = m /\ (stmt.k = "import" => stmt.src = n)
Taken(g, n) ==
  Mod[g] = SageAll \/ \E h \in Documents : \E i \in DOMAIN Live(h) : Takes(Live(h)[i].stmt, Mod[g], n)
TakenOnce(g, n, text) ==
  LET lines == {i \in DOMAIN text :
                  \/ text[i].stmt.n = n /\ Kind(text, i) # "use"
                  \/ Kind(text, i) \in {"star", "load"}}
  IN  Taken(g, n) => Cardinality(lines) <= 1 /\ \A i \in lines : OwnScope(text, i) = 0

EverythingTakenOnce ==
  \A g \in Documents : \A text \in {saved[g], Live(g)} :
    \A m \in {l.stmt.n : l \in ToSet(text)} : TakenOnce(g, m, text)

Followed(f, n) ==
  /\ NoLateImport(f, n) /\ NoMaskedExport(f, n) /\ NoHiddenAssignment(f, n)
  /\ NoReboundParameter(f, n) /\ NoSourceTwin(f, n)

---------------------------------------------------------------------------
(* Properties *)

\* Where go to definition, declaration and implementation jump from an occurrence.
Occurrences == UNION {Tokens(f) : f \in Documents}
Jumps ==
  [o \in Occurrences, role \in {"definition", "declaration", "implementation"} |-> Jump(Ask(o, role))]

\* A jump to a definition goes where the name is bound when the line runs: through
\* imports, exports and loads, past the names other scopes hide, and to that line in
\* the open document although the index has it at another one.
LandsIn(jump, bound) == jump # None /\ bound # {} => At(jump) \in bound
DefinitionIsTheBinding(jumps) ==
  EverythingTakenOnce => \A o \in Occurrences :
    Followed(o.file, o.n) => LandsIn(jumps[o, "definition"], StandsFor(o, TRUE))

TokenAt(place) == CHOOSE o \in Tokens(place.file) : Place(o) = place
\* No two declarations of a document have the same identity.
NoTwins ==
  \A f \in Documents : \A r, s \in RecordsOf(f, Live(f)) : Same(r, s) => r = s
NothingUnsaved == \A f \in Documents : opened[f] \in {Closed, saved[f]}

\* Where a declaration and an implementation differ they are the two sites of one class
\* or method, and each leads to the other.
AreSites(jumps, declaration, implementation) ==
  LET Class(site) == Holder(Live(site.file), site.line)
  IN  declaration # None /\ implementation # None /\ declaration # implementation =>
        /\ Class(declaration) = Class(implementation) /\ declaration.n = implementation.n
        /\ jumps[TokenAt(declaration), "implementation"] = implementation
        /\ jumps[TokenAt(implementation), "declaration"] = declaration
SitesAnswerEachOther(jumps) ==
  NoTwins /\ NothingUnsaved /\ (\E f \in Documents : Ext[f] = "pxd" /\ saved[f] # <<>>) =>
    \A o \in Occurrences : AreSites(jumps, jumps[o, "declaration"], jumps[o, "implementation"])

\* Go to definition, declaration and implementation with high confidence
\* (goto_navigation_response) never leave what the name stands for.
JumpsLand(jumps) == DefinitionIsTheBinding(jumps) /\ SitesAnswerEachOther(jumps)
JumpIsTheBinding == JumpsLand(Jumps)

\* Every scope binds a name once, and no aliased import is taken on by another file.
Plain ==
  EverythingTakenOnce /\ \A f \in Documents : \A n \in WordsOf(f) :
    /\ Followed(f, n)
    /\ \A i, j \in DOMAIN Live(f) :
         Supplies(f, i, n) /\ Supplies(f, j, n) /\ i # j => OwnScope(Live(f), i) # OwnScope(Live(f), j)
    /\ \A i \in DOMAIN Live(f) : IsAliased(Live(f)[i].stmt) => ~Taken(f, Live(f)[i].stmt.n)

\* Two occurrences of one variable; a name nothing binds when its line runs is no one's.
Related(o, p) ==
  LET S == StandsFor(o, FALSE)
      T == StandsFor(p, FALSE)
  IN  S # {} /\ T # {} => S \intersect T # {}

Renames == {[of |-> o, places |-> Edits(o)] : o \in Occurrences}

\* A rename (rename_response) edits occurrences of the variable it is asked for and of no
\* other one, in open and closed files, and an alias is not its source.
RenameKeepsIdentity ==
  Plain => \A rename \in Renames : \A place \in rename.places : Related(rename.of, TokenAt(place))

\* Another occurrence a rename edits is the same variable; asked there, the rename is
\* refused or edits the same places.
SameFrom(renames, rename, o) ==
  /\ Related(rename.of, o)
  /\ o.part # "source" => \E other \in renames : other.of = o /\ other.places \in {{}, rename.places}
StayInDomain(renames) ==
  \A rename \in renames : \A place \in rename.places : SameFrom(renames, rename, TokenAt(place))

\* The same, with declarations of different identity, and it does not matter at which of
\* the occurrences it is asked for (rename_target, reference_locations).
RenameStaysInItsDomain == Plain /\ NoTwins => StayInDomain(Renames)
=============================================================================
