---------------------------- MODULE LocalBindings ----------------------------
(***************************************************************************)
(* src/crates/sage-index/src/query_support: the symbols of one text and    *)
(* the local binding of a plain name (completion.rs, local_scopes.rs,      *)
(* source_analysis/declarations.rs, active_local_binding_at).              *)
(*                                                                         *)
(* A text is a sequence of logical lines [indent, stmt]; a statement has a *)
(* kind k, the name n it is about, further names ns (parameters,           *)
(* generators) and a right-hand side rhs.                                  *)
(***************************************************************************)
EXTENDS Naturals, FiniteSets, SequencesExt

CONSTANT None      \* "no type", "no binding"

Headers == {"def", "class", "if", "elif", "else", "for"}
Code(doc, i) == doc[i].stmt.k # "comment"
Lines(n) == [i \in 1 .. n |-> i]
Kind(doc, i) == doc[i].stmt.k

\* line_rebinds_name
Rebinds(stmt) ==
  CASE stmt.k = "preparse" -> {stmt.n} \union stmt.ns
    [] stmt.k \in {"assign", "def", "class", "for", "import", "del"} -> {stmt.n}
    [] OTHER -> {}

\* Mutant: only what is indented deeper is popped.
MutKept(stack, indent) ==
  SubSeq(stack, 1, Max({0} \union {k \in DOMAIN stack : stack[k].indent <= indent}))

\* What is left of a stack when all at its end that is indented as far has been popped.
Kept(stack, indent) ==
  SubSeq(stack, 1, Max({0} \union {k \in DOMAIN stack : stack[k].indent < indent}))

VisibleFrom(binding, target) ==
  /\ IsPrefix(binding, target)
  /\ Len(binding) \in {0, Len(target)} \/ Last(binding).kind = "def"

---------------------------------------------------------------------------
(* The document's symbols and the local binding of a name *)

\* definition_scope_at_line: read from the indentation alone.  A code line closes
\* what is not indented less, a definition's header opens its suite.
ScopeEntry(doc, i) == [line |-> i, kind |-> Kind(doc, i), indent |-> doc[i].indent]
StillOpen(doc, stack, i) == IF Code(doc, i) THEN Kept(stack, doc[i].indent) ELSE stack
OpenWith(doc, stack, i) ==
  IF Kind(doc, i) \in {"def", "class"} THEN Append(StillOpen(doc, stack, i), ScopeEntry(doc, i))
  ELSE StillOpen(doc, stack, i)
OpenAfter(doc, n) ==
  LET open[i \in 0 .. n] == IF i = 0 THEN <<>> ELSE OpenWith(doc, open[i - 1], i)
  IN open[n]
DefinitionScope(doc, t) == StillOpen(doc, OpenAfter(doc, t - 1), t)

\* parse_source: what the index captures, as [n, line, import]
Captures(doc, kinds, named, import) ==
  UNION {{[n |-> n, line |-> i, import |-> import] : n \in named[i]} :
         i \in {j \in DOMAIN doc : Kind(doc, j) \in kinds}}
OwnName(doc) == [i \in DOMAIN doc |-> {doc[i].stmt.n}]
\* capture_declarations, capture_imports: at any depth
Declarations(doc) == Captures(doc, {"def", "class"}, OwnName(doc), FALSE)
Imports(doc) == Captures(doc, {"import"}, OwnName(doc), TRUE)
\* capture_preparser_generators
Generators(doc) == Captures(doc, {"preparse"}, [i \in DOMAIN doc |-> Rebinds(doc[i].stmt)], FALSE)
\* capture_assignments: at the left margin, except of the name of a declaration
Assignments(doc) ==
  LET declared == {d.n : d \in Declarations(doc)}
      names(stmt) == stmt.rhs.k = "name" /\ stmt.rhs.of \in declared
  IN  {a \in Captures(doc, {"assign"}, OwnName(doc), FALSE) :
         doc[a.line].indent = 0 /\ ~names(doc[a.line].stmt)}
Symbols(doc) == Declarations(doc) \union Imports(doc) \union Generators(doc) \union Assignments(doc)

\* parameter_candidates_for_target
Parameters(doc, t) ==
  LET around == {s.line : s \in {r \in ToSet(DefinitionScope(doc, t)) : r.kind = "def"}}
      functions == around \union {i \in {t} : Kind(doc, i) = "def"}
      Scope(f) == Append(DefinitionScope(doc, f), ScopeEntry(doc, f))
  IN  UNION {{[n |-> n, line |-> f, scope |-> Scope(f), parameter |-> TRUE] : n \in doc[f].stmt.ns} :
             f \in functions}

\* The candidates local_shadow_symbol_from_symbols and local_binding_shadows_import share.
LocalCandidates(doc, n, t) ==
  {[n |-> n, line |-> s.line, scope |-> DefinitionScope(doc, s.line), parameter |-> FALSE] :
     s \in {r \in Symbols(doc) : r.n = n /\ ~r.import /\ r.line <= t}}
  \union {p \in Parameters(doc, t) : p.n = n}

\* Deepest scope first, then parameters, then the nearest line above.
Preferred(c, d) ==
  \/ Len(c.scope) > Len(d.scope)
  \/ Len(c.scope) = Len(d.scope) /\ c.parameter /\ ~d.parameter
  \/ Len(c.scope) = Len(d.scope) /\ c.parameter = d.parameter /\ c.line >= d.line
Best(candidates) ==
  IF candidates = {} THEN None
  ELSE CHOOSE c \in candidates : \A d \in candidates : Preferred(c, d)

\* Mutant: the nearest binding wins, whatever scope it is in.
MutLocalShadow(doc, n, t) == Best(LocalCandidates(doc, n, t))

LocalShadow(doc, n, t) ==
  Best({c \in LocalCandidates(doc, n, t) :
          c.line = t \/ VisibleFrom(c.scope, DefinitionScope(doc, t))})

\* local_binding_shadows_import
Shadows(c, import, here) ==
  /\ VisibleFrom(c.scope, here)
  /\ \/ Len(c.scope) > Len(import.scope)
     \/ c.scope = import.scope /\ import.line < c.line
Unshadowed(import, candidates, here) ==
  IF import = None \/ \E c \in candidates : Shadows(c, import, here) THEN None ELSE import

\* local_import_symbol_from_symbols
ImportCandidates(doc, n, t) ==
  {[n |-> n, line |-> s.line, scope |-> DefinitionScope(doc, s.line), parameter |-> FALSE] :
     s \in {r \in Symbols(doc) : r.n = n /\ r.import /\ r.line <= t}}
LocalImport(doc, n, t) ==
  LET here == DefinitionScope(doc, t)
  IN  Unshadowed(Best({c \in ImportCandidates(doc, n, t) : c.line = t \/ VisibleFrom(c.scope, here)}),
                 LocalCandidates(doc, n, t), here)

\* active_local_binding_at
Nearer(import, shadow) ==
  IF import # None /\ (shadow = None \/ import.line > shadow.line) THEN import ELSE shadow
ActiveBinding(doc, n, t) == Nearer(LocalImport(doc, n, t), LocalShadow(doc, n, t))

---------------------------------------------------------------------------
(* Python's scopes: 0 is the module's, a class's or function's is named by *)
(* its header line.                                                        *)

\* The suite a line opens or belongs to ends at the next code line that is not
\* indented deeper than its header.
Encloses(doc, j, i) ==
  /\ j < i /\ Kind(doc, j) \in Headers
  /\ \A k \in (j + 1) .. i : Code(doc, k) => doc[k].indent > doc[j].indent

Around(doc, i) == {j \in 1 .. (i - 1) : Kind(doc, j) \in {"def", "class"} /\ Encloses(doc, j, i)}
OwnScope(doc, i) == Max({0} \union Around(doc, i))

\* The scopes a name is looked for in: its own, those of the functions around it
\* and the module's.
Searched(doc, i) == {0, OwnScope(doc, i)} \union {f \in Around(doc, i) : Kind(doc, f) = "def"}

Directly(doc, f) == {i \in DOMAIN doc : OwnScope(doc, i) = f}

\* The scope of a binding: a parameter is one of the function it is written at.
ScopeOf(doc, b) == IF b.parameter THEN b.line ELSE OwnScope(doc, b.line)

\* What the index captures of a name up to line t where Python looks for it there.
Bindings(doc, n, t) ==
  {[n |-> n, line |-> s.line, parameter |-> FALSE] : s \in {s \in Symbols(doc) : s.n = n /\ s.line <= t}}
    \union {[n |-> n, line |-> f, parameter |-> TRUE] : f \in {f \in DOMAIN doc : Kind(doc, f) = "def" /\ n \in doc[f].stmt.ns}}
Reachable(doc, n, t) ==
  {b \in Bindings(doc, n, t) : ScopeOf(doc, b) \in Searched(doc, t)}

\* active_local_binding_at finds a binding of the innermost scope that has one of
\* the scopes Python searches, the last one before the line unless it is a
\* parameter; a parameter of the function defined by the line itself comes first.
IsInnermost(doc, n, t, found) ==
  IF found = None THEN Reachable(doc, n, t) = {}
  ELSE /\ [n |-> n, line |-> found.line, parameter |-> found.parameter] \in Bindings(doc, n, t)
       /\ found.line = t \/ ScopeOf(doc, found) \in Searched(doc, t)
       /\ \A b \in Reachable(doc, n, t) :
            \/ ScopeOf(doc, b) < ScopeOf(doc, found)
            \/ ScopeOf(doc, b) = ScopeOf(doc, found) /\ (found.parameter \/ b.line <= found.line)
=============================================================================
