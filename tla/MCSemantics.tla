------------------------------ MODULE MCSemantics ------------------------------
(***************************************************************************)
(* What the server answers from and how it resolves names: the             *)
(* materialised tables of Sage's exports, the caches in front of the       *)
(* index, the types of owners and the queries for plain names.  One of     *)
(* them moves in a behavior, the others stay as they start.                *)
(***************************************************************************)
EXTENDS SageExports, LookupCaches, MemberInference, SymbolQueries

---------------------------------------------------------------------------
(* SageExports: sage.all, another export module, two modules of Sage, one of *)
(* the workspace.                                                            *)

CONSTANTS all, plotall, point, base, lib, x, y, h, GF, pointName, C, Graph, Ring, docs

Symbol(kind, m, n, class, target, doc, place, method) ==
  [kind |-> kind, module |-> m, name |-> n, class |-> class, target |-> target, doc |-> doc,
   path |-> 0, parsed |-> place, line |-> place, method |-> method]
Defined(m, n, place) == Symbol("Function", m, n, NoClass, NoTarget, NoDoc, place, FALSE)
Assigned(m, n, place) == Symbol("Variable", m, n, NoClass, NoTarget, NoDoc, place, FALSE)
Documented(m, n, place) == Symbol("Function", m, n, NoClass, NoTarget, docs, place, FALSE)
MethodOf(m, n, c) == Symbol("Function", m, n, c, NoTarget, NoDoc, 3, TRUE)
FunctionOf(m, n) == Symbol("Function", m, n, NoClass, NoTarget, NoDoc, 4, TRUE)
Imported(m, n, s, k) == Symbol("Import", m, n, NoClass, <<s, k>>, NoDoc, 5, FALSE)
Alias(m, n, c, k) == Symbol("Import", m, n, c, <<m, k>>, NoDoc, 6, FALSE)
\* By a call above the import statements, which the parser collects before it.
Lazily(m, n, s, k) == [Imported(m, n, s, k) EXCEPT !.parsed = 6, !.line = 1]
Itself(m, n) == Symbol("Module", m, n, NoClass, NoTarget, NoDoc, 0, FALSE)
File(symbols, exported, stars) == [symbols |-> symbols, all |-> exported, stars |-> stars]

FiveModules == {all, plotall, point, base, lib}
ExportOnes == {all, plotall}
SageOnes == {all, plotall, point, base}
SomeFiles ==
  all :> {File(<<Imported(all, x, plotall, x), Imported(all, y, point, y)>>, NoAll, <<base>>),
          File(<<Imported(all, x, plotall, x), Imported(all, x, point, x)>>, NoAll, <<plotall, point>>),
          NoFile}
  @@ plotall :> {File(<<Imported(plotall, x, point, h), Imported(plotall, y, plotall, y)>>, NoAll, <<base, point>>),
                 NoFile}
  @@ point :> {File(<<Itself(point, pointName), Defined(point, x, 1), Assigned(point, h, 2)>>, NoAll, <<>>),
               File(<<Imported(point, x, base, x), Imported(point, y, base, y), MethodOf(point, y, C),
                      Lazily(point, x, base, h)>>, {x}, <<base>>),
               File(<<Itself(point, pointName), Defined(point, x, 1), FunctionOf(point, y),
                      Alias(point, h, C, y), MethodOf(point, y, C)>>, NoAll, <<>>)}
  @@ base :> {File(<<Defined(base, x, 1), Defined(base, y, 2), FunctionOf(base, GF),
                     Alias(base, h, MatrixConstructor, GF)>>, {y, GF}, <<>>),
              File(<<Defined(base, x, 1), Documented(base, x, 2), Defined(base, h, 3),
                     Imported(base, y, point, y)>>, NoAll, <<point>>),
              NoFile}
  @@ lib :> {File(<<Defined(lib, x, 1), Imported(lib, y, all, y)>>, NoAll, <<>>)}
\* y is the name of the module point but for its case.
Alike == {{pointName, y}}
\* The files while something else moves: as few as there may be.
FewSymbols == [m \in FiveModules |->
  IF NoFile \in SomeFiles[m] THEN NoFile
  ELSE CHOOSE f \in SomeFiles[m] : \A g \in SomeFiles[m] : Len(f.symbols) <= Len(g.symbols)]
Packages == {}
Hidden == {h}
BuiltInExports == <<[import_module |-> all, name |-> GF, source_module |-> base, source_name |-> GF]>>
GraphClasses == <<C, point>> :> [type |-> Graph, priority |-> 5]
RingModules == base :> [type |-> Ring, priority |-> 3]
BuiltInMethods == <<[type |-> Graph, member |-> y, module |-> base, source_name |-> y],
                    [type |-> Ring, member |-> x, module |-> point, source_name |-> x]>>

\* These files and maps name only what is in Sage's modules or nowhere.
ASSUME FilesAreClosed == SageIsClosed

---------------------------------------------------------------------------
(* LookupCaches: a file of the workspace and one of Sage. *)

CONSTANTS ownFile, sageFile, oneName, oneKey
TwoPaths == {ownFile, sageFile}
OneEditable == {ownFile}
OneMaterial == {sageFile}
OneName == {oneName}
OneKey == oneName :> oneKey
Hot == {oneKey}
SomeTexts == ownFile :> {{oneName}, {}, Absent} @@ sageFile :> {{oneName}}

---------------------------------------------------------------------------
(* MemberInference: documents of the lines each list gives. *)

Opaque(n) == [k |-> "opaque", of |-> n]
Stmt(kind, n, ns, rhs) == [k |-> kind, n |-> n, ns |-> ns, rhs |-> rhs, asks |-> {}]
Bare(kind, n) == Stmt(kind, n, {}, Opaque(n))
Let(n, kind, of) == Stmt("assign", n, {}, [k |-> kind, of |-> of])
Asks(n) == [Bare("use", n) EXCEPT !.asks = {n}]
From(n, module) == Stmt("import", n, {module}, Opaque(n))
Def(n, ps) == Stmt("def", n, ps, Opaque(n))

AllVocabularies == <<
  {Let("x", "call", "Graph"), Let("x", "opaque", "x"), Bare("if", "x"),
   Bare("elif", "x"), Bare("else", "x"), Bare("for", "x"), Asks("x")},
  {Let("x", "call", "Graph"), Def("f", {"x"}), Def("g", {}), Bare("global", "x"),
   Bare("del", "x"), Bare("if", "x"), Asks("x")},
  {Def("f", {}), Stmt("return", "f", {}, [k |-> "call", of |-> "Graph"]),
   Stmt("return", "f", {}, [k |-> "name", of |-> "x"]), Let("x", "call", "matrix"),
   Bare("if", "x"), Let("y", "call", "f"), Asks("y")},
  {Stmt("preparse", "K", {"a"}, [k |-> "call", of |-> "GF"]), Let("K", "call", "GF"),
   Let("K", "opaque", "K"), Let("a", "call", "K"), Let("K", "name", "a"),
   Let("a", "method", "K"), Asks("a")},
  {From("Graph", "sage"), From("Graph", "other"),
   Def("f", {"Graph"}), Def("g", {}), Let("x", "call", "Graph"), Asks("x"), Asks("Graph")},
  {Bare("class", "C"), Def("f", {}), Let("x", "call", "Graph"), Let("x", "call", "matrix"),
   Bare("comment", ""), Asks("x")},
  {Def("f", {}), Def("g", {"f"}), Bare("class", "f"), Bare("class", "C"),
   From("f", "other"), Asks("f")}>>
SomeConstructors ==
  [n \in {"Graph", "matrix", "GF"} |->
     CASE n = "Graph" -> "Graph" [] n = "matrix" -> "Matrix" [] OTHER -> "Field"]
SomeReturns == [T \in {"Graph", "Matrix", "Field"} |-> IF T = "Field" THEN "FieldElement" ELSE "Matrix"]

---------------------------------------------------------------------------
(* SymbolQueries: a Cython module in two files, a module of Sage, sage.all,  *)
(* two modules and a Sage document of the workspace.                         *)

Statement(kind, n, ns, from, src) ==
  [k |-> kind, n |-> n, ns |-> ns, rhs |-> Opaque(n), from |-> from, src |-> src]
Declare(kind, n) == Statement(kind, n, {}, "", "")
Takes1(n, param) == Statement("def", n, {param}, "", "")
Import(n, from, src) == Statement("import", n, {}, from, src)
Whole(kind, from) == Statement(kind, "", {}, from, "")

SixModules ==
  "pair.pyx" :> "pair" @@ "pair.pxd" :> "pair" @@ "core.py" :> "sage.core" @@ "all.py" :> "sage.all"
  @@ "lib.py" :> "lib" @@ "use.py" :> "use" @@ "top.sage" :> "top"
InOrder == <<"pair.pyx", "pair.pxd", "core.py", "all.py", "lib.py", "use.py", "top.sage">>
Extensions ==
  [f \in DOMAIN SixModules |-> CASE f = "pair.pyx" -> "pyx" [] f = "pair.pxd" -> "pxd"
                                 [] f = "top.sage" -> "sage" [] OTHER -> "py"]
OwnFiles == DOMAIN SixModules \ {"all.py"}

\* At most `max` lines of a file.
Upto(max, stmts) == [stmts |-> stmts, max |-> max]
Only(files) == [f \in DOMAIN SixModules |-> IF f \in DOMAIN files THEN files[f] ELSE Upto(0, {})]
Unedited(files) == [lines |-> Only(files), opens |-> {}, edits |-> 0]

FourScenarios == <<
  \* scopes, imports and exports
  Unedited("core.py" :> Upto(1, {Declare("def", "f")})
           @@ "all.py" :> Upto(1, {Import("f", "sage.core", "f"), Whole("star", "sage.core")})
           @@ "lib.py" :> Upto(1, {Import("f", "sage.core", "f"), Declare("def", "f")})
           @@ "use.py" :> Upto(3, {Declare("use", "f"), Declare("def", "f"), Takes1("g", "f"),
                                   Declare("class", "c"),
                                   Import("f", "lib", "f"), Whole("star", "sage.all")})),
  \* Sage documents
  Unedited("core.py" :> Upto(1, {Declare("def", "f")})
           @@ "all.py" :> Upto(1, {Import("f", "sage.core", "f")})
           @@ "lib.py" :> Upto(1, {Import("f", "sage.core", "f"), Declare("def", "f")})
           @@ "top.sage" :> Upto(3, {Declare("use", "f"), Declare("def", "f"), Declare("def", "g"),
                                     Declare("assign", "f"), Import("f", "lib", "f"),
                                     Whole("load", "lib")})),
  \* documents edited and saved while others refer to them
  [lines |-> Only("core.py" :> Upto(2, {Declare("def", "f"), Declare("def", "g")})
                  @@ "use.py" :> Upto(2, {Declare("use", "f"), Import("f", "sage.core", "f"),
                                          Import("g", "sage.core", "f")})),
   opens |-> {"core.py", "use.py"}, edits |-> 1],
  \* the two sites of classes and methods
  Unedited("pair.pyx" :> Upto(3, {Declare("class", "c"), Declare("class", "d"), Takes1("m", "s")})
           @@ "pair.pxd" :> Upto(2, {Declare("class", "c"), Takes1("m", "s"), Takes1("m", "t")})
           @@ "use.py" :> Upto(1, {Import("c", "pair", "c"), Declare("use", "m")}))>>

\* Edits only.
EditScenario == <<FourScenarios[3]>>

---------------------------------------------------------------------------
VARIABLE focus
semantics == <<focus, tables, caches, inference, workspace>>

\* Where a component does not move it starts in one state.
Init ==
  /\ focus \in {"exports", "caches", "types", "names"}
  /\ focus # "exports" => disk = FewSymbols
  /\ focus # "caches" => text = [f \in Paths |-> {oneName}]
  /\ focus # "types" => vocabulary = 1
  /\ focus # "names" => scenario = 1
  /\ CachesInit /\ InferenceInit /\ QueriesInit /\ ExportsInit

Next ==
  /\ UNCHANGED focus
  /\ \/ focus = "exports" /\ ExportsNext /\ UNCHANGED <<caches, inference, workspace>>
     \/ focus = "caches" /\ CachesNext /\ UNCHANGED <<tables, inference, workspace>>
     \/ focus = "types" /\ InferenceNext /\ UNCHANGED <<tables, caches, workspace>>
     \/ focus = "names" /\ QueriesNext /\ UNCHANGED <<tables, caches, inference>>

Spec == Init /\ [][Next]_semantics

\* What takes long to evaluate is evaluated where it can change: the meaning of the
\* export tables (materialized_cache.rs), of navigation
\* (goto_navigation_response) and of renames (rename_response).
ExportsMatchHere == focus = "exports" => ExportsMatchImports
JumpsLandHere == focus = "names" => JumpIsTheBinding
RenamesStayHere == focus = "names" => RenameStaysInItsDomain
=============================================================================
