--------------------------- MODULE MemberInference ---------------------------
(***************************************************************************)
(* src/crates/sage-index/src/query_support: the type a member access       *)
(* `owner.member` is resolved with (lexical_scope.rs, sage_type_inference  *)
(* .rs, sage_assignment_inference.rs, local_function_returns.rs,           *)
(* syntax.rs) and the trust it is given (symbol_resolution.rs).            *)
(*                                                                         *)
(* The state is a document being typed at its end, one logical line at a   *)
(* time; the query is on its last line, whose field `asks` names the       *)
(* owners whose members it asks for. The algorithms are compared with   *)
(* what Python does: Outcomes runs the document along every path on which  *)
(* each loop body is entered at most once.                                 *)
(*                                                                         *)
(* Left out: expressions that bind names (lambda, comprehension, walrus),  *)
(* qualified names, aliased imports, continuation lines (a model line is a *)
(* complete logical line) and the name hints of the weak inference.        *)
(***************************************************************************)
EXTENDS LocalBindings

CONSTANTS
  Vocabularies,    \* sets of statements; a document is written in one of them
  MaxLines,        \* bound on the document's length
  MaxIndent,       \* bound on the nesting of its suites
  Constructors,    \* a Sage constructor's name |-> the type it returns
  MethodReturn,    \* a type |-> the type its modelled method returns
  SageFile         \* the document is a .sage file, which sees sage.all

Types == {"Graph", "Matrix", "Field", "FieldElement"}

ASSUME InferenceAssumption ==
  /\ MaxLines \in Nat /\ MaxIndent \in Nat /\ SageFile \in BOOLEAN
  /\ \A c \in DOMAIN Constructors : Constructors[c] \in Types
  /\ \A T \in DOMAIN MethodReturn : T \in Types /\ MethodReturn[T] \in Types
  /\ None \notin Types

VARIABLES
  document,        \* the lines typed so far
  vocabulary       \* which statements its lines are chosen from

inference == <<document, vocabulary>>

---------------------------------------------------------------------------
(* LexicalScopeMap::new *)

\* The if group a branch belongs to: its own line for `if`; for `elif` and
\* `else` that of the suite just closed at their indentation; 0 for none.
Group(kind, line, closed) ==
  CASE kind = "if" -> line
    [] kind \in {"elif", "else"} /\ closed # {} -> (CHOOSE b \in closed : TRUE).group
    [] OTHER -> 0

ScopeLine(m, doc, i) ==
  LET indent == doc[i].indent
      kind == Kind(doc, i)
      active == Kept(m.active, indent) \o Kept(m.pending, indent)
      blocks == Kept(m.blocks, indent) \o Kept(m.waiting, indent)
      closed == {b \in ToSet(m.blocks) : b.indent = indent}
  IN  IF ~Code(doc, i)
      THEN [m EXCEPT !.scopes = Append(@, m.active), !.suites = Append(@, m.blocks)]
      ELSE [active  |-> active,
            pending |-> IF kind \in {"def", "class"}
                        THEN <<[line |-> i, kind |-> kind, indent |-> indent]>> ELSE <<>>,
            blocks  |-> blocks,
            waiting |-> IF kind \in {"if", "elif", "else", "for"}
                        THEN <<[line |-> i, group |-> Group(kind, i, closed),
                                indent |-> indent]>> ELSE <<>>,
            scopes  |-> Append(m.scopes, active),
            suites  |-> Append(m.suites, blocks)]

LexicalScopeMap(doc) ==
  FoldLeft(LAMBDA m, i : ScopeLine(m, doc, i),
           [active |-> <<>>, pending |-> <<>>, blocks |-> <<>>, waiting |-> <<>>,
            scopes |-> <<>>, suites |-> <<>>], Lines(Len(doc)))

\* Two branches of one if statement: at most one of them runs.
MutuallyExclusive(binding, target) ==
  \E k \in 1 .. Len(binding) :
    /\ k <= Len(target)
    /\ SubSeq(binding, 1, k - 1) = SubSeq(target, 1, k - 1)
    /\ binding[k] # target[k]
    /\ binding[k].group # 0 /\ binding[k].group = target[k].group

LineRelation(map, b, t) ==
  LET from == map.suites[b]
      to == map.suites[t]
  IN  CASE ~VisibleFrom(map.scopes[b], map.scopes[t]) -> "Hidden"
        [] IsPrefix(from, to) -> "Dominates"
        [] IsPrefix(to, from) -> "Conditional"
        [] MutuallyExclusive(from, to) -> "Hidden"
        [] OTHER -> "Conditional"

EnclosingFunctions(map, i) == {s.line : s \in {r \in ToSet(map.scopes[i]) : r.kind = "def"}}
DirectBody(map, i, f) == map.scopes[i] # <<>> /\ Last(map.scopes[i]).line = f
UnconditionalBody(map, i, f) == DirectBody(map, i, f) /\ map.suites[i] = map.suites[f]

\* function_statically_binds_name
StaticallyBound(doc, map, f) ==
  LET body == {i \in 1 .. Len(doc) : Code(doc, i) /\ DirectBody(map, i, f)}
  IN  (doc[f].stmt.ns \union UNION {Rebinds(doc[i].stmt) : i \in body})
        \ {doc[i].stmt.n : i \in {j \in body : Kind(doc, j) = "global"}}

---------------------------------------------------------------------------
(* The forward flow the three inferences share: facts about names, from    *)
(* the first line to the target line, which is included.                   *)

Without(facts, names) == [n \in DOMAIN facts \ names |-> facts[n]]
With(facts, names, fact) ==
  [n \in DOMAIN facts \union names |-> IF n \in names THEN fact ELSE facts[n]]
Put(facts, names, fact) == IF fact = None THEN Without(facts, names) ELSE With(facts, names, fact)
NoFacts == [n \in {} |-> None]
Fact(facts, n) == IF n \in DOMAIN facts THEN facts[n] ELSE None

\* What entering the enclosing functions of the target at line i hides.
Entered(doc, map, i, t, done) ==
  (EnclosingFunctions(map, i) \intersect EnclosingFunctions(map, t)) \ done
ParametersAt(doc, map, i, t) ==
  IF i \in EnclosingFunctions(map, t) THEN doc[i].stmt.ns ELSE {}

\* The walk of infer_owner_type_before_with_hints to the target line; the two other
\* analyses are written out the same way in the source.
Flow(doc, map, t, Transfer(_, _)) ==
  LET Step(s, i) ==
        LET relation == LineRelation(map, i, t)
            opened == Entered(doc, map, i, t, s.done)
            lost == UNION {StaticallyBound(doc, map, f) : f \in opened}
                      \union ParametersAt(doc, map, i, t)
        IN  IF ~Code(doc, i) \/ relation = "Hidden" THEN s
            ELSE IF relation = "Conditional"
            THEN [s EXCEPT !.facts = Without(@, Rebinds(doc[i].stmt))]
            ELSE [facts |-> Transfer(Without(s.facts, lost), i), done |-> s.done \union opened]
  IN  FoldLeft(Step, [facts |-> NoFacts, done |-> {}], Lines(t)).facts

---------------------------------------------------------------------------
(* Types *)

\* infer_type_from_rhs, strict: no name hints
TypeOfRhs(rhs, known, returns) ==
  CASE rhs.k = "call" /\ rhs.of \in DOMAIN returns -> returns[rhs.of]
    [] rhs.k = "call" /\ rhs.of \notin DOMAIN returns /\ rhs.of \in DOMAIN Constructors ->
         Constructors[rhs.of]
    [] rhs.k = "call" /\ rhs.of \notin DOMAIN returns \union DOMAIN Constructors ->
         IF Fact(known, rhs.of) = "Field" THEN "FieldElement" ELSE Fact(known, rhs.of)
    [] rhs.k = "method" -> Fact(MethodReturn, Fact(known, rhs.of))
    [] rhs.k = "name" -> Fact(known, rhs.of)
    [] OTHER -> None

\* preparser_generator_type, for the modelled constructors
GeneratorType(parent, count) == IF parent = "Field" /\ count = 1 THEN "FieldElement" ELSE None

\* One line of the type flow: assignments, preparser assignments, other binders.
TypesAfter(doc, i, known, returns) ==
  LET stmt == doc[i].stmt
      type == TypeOfRhs(stmt.rhs, known, returns)
  IN  CASE stmt.k = "assign" -> Put(known, {stmt.n}, type)
        [] stmt.k = "preparse" ->
             Put(Put(Without(known, Rebinds(stmt)), {stmt.n}, type), stmt.ns,
                 GeneratorType(type, Cardinality(stmt.ns)))
        [] OTHER -> Without(known, Rebinds(stmt))

\* infer_local_function_return_type: every return of the function's own body has
\* one type, and one of them is reached whatever the conditions.
ReturnType(doc, map, f, returns) ==
  LET body == {i \in (f + 1) .. Len(doc) : Code(doc, i) /\ DirectBody(map, i, f)}
      Step(s, i) ==
        LET sure == UnconditionalBody(map, i, f)
            after == IF sure THEN TypesAfter(doc, i, s.known, returns)
                     ELSE Without(s.known, Rebinds(doc[i].stmt))
            type == TypeOfRhs(doc[i].stmt.rhs, IF sure THEN after ELSE s.known, returns)
        IN  IF Kind(doc, i) = "return"
            THEN [known |-> after, types |-> s.types \union {type}, sure |-> s.sure \/ sure]
            ELSE [s EXCEPT !.known = after]
      end == FoldLeft(Step, [known |-> NoFacts, types |-> {}, sure |-> FALSE],
                      SetToSortSeq(body, <))
  IN  IF end.sure /\ Cardinality(end.types) = 1 THEN CHOOSE T \in end.types : TRUE ELSE None

\* infer_local_function_return_types
LocalReturns(doc, map, t) ==
  Flow(doc, map, t,
       LAMBDA returns, i : IF Kind(doc, i) = "def"
                           THEN Put(returns, {doc[i].stmt.n}, ReturnType(doc, map, i, returns))
                           ELSE Without(returns, Rebinds(doc[i].stmt)))

\* infer_owner_type_before_strict, for an owner that is a plain name
OwnerTypes(doc, map, t) ==
  LET returns == LocalReturns(doc, map, t)
  IN  Flow(doc, map, t, LAMBDA known, i : TypesAfter(doc, i, known, returns))

\* assignment_constructor_before_line: the callee of each name's last assignment
ConstructorsBefore(doc, map, t) ==
  LET Callee(rhs) == IF rhs.k \in {"call", "method"} THEN rhs ELSE None
      Transfer(facts, i) ==
        LET stmt == doc[i].stmt
            other == Without(facts, Rebinds(stmt))
        IN  CASE stmt.k = "assign" -> Put(other, {stmt.n}, Callee(stmt.rhs))
              [] stmt.k = "preparse" ->
                   With(Put(other, {stmt.n}, Callee(stmt.rhs)), stmt.ns,
                        [k |-> "gen", of |-> stmt.n])
              [] OTHER -> other
  IN  Flow(doc, map, t, Transfer)

---------------------------------------------------------------------------
(* resolve_member_symbol: when the inferred type may authorize a jump *)

\* Mutant: any import of a constructor's name is taken for Sage's.
MutFromSage(stmt) == stmt.k = "import"

FromSage(stmt) == stmt.k = "import" /\ "sage" \in stmt.ns

\* owner_name_has_reliable_sage_binding
NameReliable(doc, n, t, type) ==
  /\ Fact(Constructors, n) = type
  /\ \E binding \in {ActiveBinding(doc, n, t)} :
       IF binding = None THEN SageFile ELSE FromSage(doc[binding.line].stmt)

\* owner_type_has_reliable_sage_binding, for unqualified constructors
TypeReliable(doc, owner, t, type, types, callees) ==
  LET callee == Fact(callees, owner)
      Parent(n) == Fact(types, n) = "Field" /\ type = "FieldElement"
      Direct(n, T) ==  \* the callee of n's own assignment is Sage's constructor of T
        LET c == Fact(callees, n)
        IN  IF c = None THEN NameReliable(doc, n, t, T)
            ELSE c.k = "call" /\ NameReliable(doc, c.of, t, T)
      Receiver(c) ==
        LET T == Fact(types, c.of)
            returned == IF c.k = "gen" THEN GeneratorType(T, 1) ELSE Fact(MethodReturn, T)
        IN  T # None /\ returned = type /\ Fact(callees, c.of) # None /\ Direct(c.of, T)
  IN  CASE callee = None -> NameReliable(doc, owner, t, type)
        [] callee # None /\ callee.k = "call" ->
             IF Parent(callee.of) THEN Direct(callee.of, "Field")
             ELSE NameReliable(doc, callee.of, t, type)
        [] OTHER -> Receiver(callee)

\* The strict owner type of `owner` at line t, and whether it is trusted.
Judged(doc, owner, t, types, callees) ==
  LET type == Fact(types, owner)
  IN  [type |-> type, high |-> type # None /\ TypeReliable(doc, owner, t, type, types, callees)]
Inferred(doc, owner, t) ==
  LET map == LexicalScopeMap(doc)
  IN  Judged(doc, owner, t, OwnerTypes(doc, map, t), ConstructorsBefore(doc, map, t))

---------------------------------------------------------------------------
(* What Python does: a run is an environment for every scope (0 is the     *)
(* module, a class or function is named by its header line), the           *)
(* indentation being skipped, and per indentation whether a branch of the  *)
(* current if statement was taken. A value remembers the line that bound   *)
(* it.                                                                     *)

Value(k, type, line) == [k |-> k, type |-> type, at |-> line, def |-> 0]
Function(line) == [k |-> "def", type |-> "", at |-> line, def |-> line]
Unbound == Value("unbound", "", 0)
Other(line) == Value("other", "", line)

NamesOf(doc) ==
  UNION {Rebinds(doc[i].stmt) \union doc[i].stmt.ns \union {doc[i].stmt.rhs.of} : i \in DOMAIN doc}
    \union DOMAIN Constructors

Declared(doc, f) == {doc[i].stmt.n : i \in {j \in Directly(doc, f) : Kind(doc, j) = "global"}}
Owned(doc, f) ==
  (doc[f].stmt.ns \union UNION {Rebinds(doc[i].stmt) : i \in Directly(doc, f)}) \ Declared(doc, f)

\* The scope a name is read from, and the scope it is bound in, at line i.
ReadFrom(doc, env, n, i) ==
  LET own == OwnScope(doc, i)
      functions == {f \in 1 .. (i - 1) : Kind(doc, f) = "def" /\ Encloses(doc, f, i)
                                           /\ n \in Owned(doc, f) \union Declared(doc, f)}
      nearest == Max(functions \union {0})
  IN  CASE own # 0 /\ Kind(doc, own) = "class" /\ env[own][n] # Unbound -> own
        [] nearest # 0 /\ n \in Owned(doc, nearest) -> nearest
        [] OTHER -> 0
BoundIn(doc, n, i) ==
  LET own == OwnScope(doc, i)
  IN  IF own # 0 /\ Kind(doc, own) = "def" /\ n \in Declared(doc, own) THEN 0 ELSE own

Read(doc, env, n, i) == env[ReadFrom(doc, env, n, i)][n]
Bind(doc, env, names, i, value) ==
  [s \in DOMAIN env |-> [n \in DOMAIN env[s] |->
     IF n \in names /\ s = BoundIn(doc, n, i) THEN value ELSE env[s][n]]]

\* The values a right-hand side can have if the name in it has this value; none
\* if evaluating it fails; `returned` is what a call of a function may return.
Results(rhs, i, value, returned) ==
  CASE rhs.k = "opaque" -> {Other(i)}
    [] rhs.k # "opaque" /\ value = Unbound -> {}
    [] rhs.k = "name" /\ value # Unbound -> {[value EXCEPT !.at = i]}
    [] rhs.k = "method" /\ value # Unbound ->
         IF value.k = "type" /\ value.type \in DOMAIN MethodReturn
         THEN {Value("type", MethodReturn[value.type], i)} ELSE {Other(i)}
    [] OTHER ->
         CASE value.k = "constructor" -> {Value("type", value.type, i)}
           [] value.k = "def" -> {[v EXCEPT !.at = i] : v \in returned}
           [] value.k = "type" /\ value.type = "Field" -> {Value("type", "FieldElement", i)}
           [] value.k = "type" /\ value.type # "Field" -> {}
           [] OTHER -> {Other(i)}
Evaluate(doc, r, rhs, i, returned) == Results(rhs, i, Read(doc, r.env, rhs.of, i), returned)

Everything == MaxIndent + 1
Running(r, doc, i) == Code(doc, i) /\ doc[i].indent <= r.skip /\ r.result = Unbound
Enter(r) == [r EXCEPT !.skip = Everything]
Pass(r, doc, i) == [r EXCEPT !.skip = doc[i].indent]

\* One line of a run towards line t; the outcomes are a set of runs.
Execute(doc, t, r, i, returned) ==
  LET stmt == doc[i].stmt
      indent == doc[i].indent
      values == Evaluate(doc, r, stmt.rhs, i, returned)
      open == Enter(r)
      bound(names, value) == [open EXCEPT !.env = Bind(doc, r.env, names, i, value)]
      scope(env) == [env EXCEPT ![i] = [n \in DOMAIN env[i] |->
                                          IF n \in stmt.ns THEN Other(i) ELSE Unbound]]
      taken(flag) == [open EXCEPT !.taken[indent] = flag]
  IN  CASE stmt.k = "if" -> {taken(TRUE), Pass(taken(FALSE), doc, i)}
        [] stmt.k = "elif" -> {Pass(open, doc, i)} \union (IF r.taken[indent] THEN {} ELSE {taken(TRUE)})
        [] stmt.k = "else" -> {IF r.taken[indent] THEN Pass(open, doc, i) ELSE open}
        [] stmt.k = "for" -> {bound({stmt.n}, Other(i)), Pass(open, doc, i)}
        [] stmt.k = "def" ->
             LET after == bound({stmt.n}, Function(i))
             IN  IF Encloses(doc, i, t) THEN {[after EXCEPT !.env = scope(@)]}
                 ELSE {Pass(after, doc, i)}
        [] stmt.k = "class" ->
             LET after == bound({stmt.n}, Value("class", "", i))
             IN  {[after EXCEPT !.env = scope(@)]}
        [] stmt.k = "assign" -> {bound({stmt.n}, v) : v \in values}
        [] stmt.k = "preparse" ->
             {[open EXCEPT !.env =
                 Bind(doc, Bind(doc, r.env, {stmt.n}, i, v), stmt.ns, i,
                      IF v.type = "Field" /\ Cardinality(stmt.ns) = 1
                      THEN Value("type", "FieldElement", i) ELSE Other(i))] : v \in values}
        [] stmt.k = "import" ->
             {bound({stmt.n}, IF "sage" \in stmt.ns /\ stmt.n \in DOMAIN Constructors
                              THEN Value("constructor", Constructors[stmt.n], i) ELSE Other(i))}
        [] stmt.k = "del" -> {bound({stmt.n}, Unbound)}
        [] stmt.k = "return" -> {[open EXCEPT !.result = v] : v \in values}
        [] OTHER -> {open}

Begin(env) ==
  [env |-> env, skip |-> Everything, result |-> Unbound,
   taken |-> [indent \in 0 .. MaxIndent |-> FALSE]]

\* The values a call of the function at line f may return. A model document
\* calls its functions outside of function bodies only.
InBody(doc, f, runs, i) ==
  UNION {IF Running(r, doc, i) THEN Execute(doc, f, r, i, {}) ELSE {r} : r \in runs}
Returned(doc, env, f) ==
  LET body == SelectSeq(Lines(Len(doc)), LAMBDA i : Encloses(doc, f, i))
      locals == [env EXCEPT ![f] = [n \in DOMAIN env[f] |->
                                      IF n \in doc[f].stmt.ns THEN Other(f) ELSE Unbound]]
      ended == FoldLeft(LAMBDA runs, i : InBody(doc, f, runs, i), {Begin(locals)}, body)
  IN  {IF r.result = Unbound THEN Other(f) ELSE r.result : r \in ended}

\* One line of the document, whose right-hand side may call a function.
Advance(doc, t, runs, i) ==
  LET returned(r) == Returned(doc, r.env, Read(doc, r.env, doc[i].stmt.rhs.of, i).def)
  IN  UNION {IF Running(r, doc, i) THEN Execute(doc, t, r, i, returned(r)) ELSE {r} : r \in runs}

\* The environments in which the last line is reached. The function it is in, if
\* any, is called once the rest of the document has run.
Outcomes(doc) ==
  LET t == Len(doc)
      start == [s \in 0 .. t |-> [n \in NamesOf(doc) |->
                 IF s = 0 /\ SageFile /\ n \in DOMAIN Constructors
                 THEN Value("constructor", Constructors[n], 0) ELSE Unbound]]
      ended == FoldLeft(LAMBDA runs, i : Advance(doc, t, runs, i), {Begin(start)}, Lines(t - 1))
  IN  {r.env : r \in {q \in ended : Running(q, doc, t)}}

\* What the last line reads for a name, on the paths on which it is bound.
Reads(doc, n) ==
  {Read(doc, env, n, Len(doc)) : env \in Outcomes(doc)} \ {Unbound}

---------------------------------------------------------------------------
(* Typing *)

\* The last code line that is indented no deeper than `indent`; 0 if none.
Above(doc, indent) ==
  LET lines == {i \in DOMAIN doc : Code(doc, i) /\ doc[i].indent <= indent}
  IN  IF lines = {} THEN 0 ELSE CHOOSE i \in lines : \A j \in lines : j <= i

\* Where Python accepts a statement at an indentation after the document.
Fits(doc, stmt, indent) ==
  LET last == Above(doc, MaxIndent)
      inside == last # 0 /\ Kind(doc, last) \in Headers
      peer == Above(doc, indent)
      within == {j \in DOMAIN doc : Kind(doc, j) = "def" /\ doc[j].indent < indent
                    /\ \A k \in (j + 1) .. Len(doc) : Code(doc, k) => doc[k].indent > doc[j].indent}
  IN  /\ stmt.k # "comment" =>
           IF last = 0 THEN indent = 0
           ELSE IF inside THEN indent = doc[last].indent + 1
           ELSE indent <= doc[last].indent
      /\ stmt.k \in {"elif", "else"} =>
           peer # 0 /\ doc[peer].indent = indent /\ Kind(doc, peer) \in {"if", "elif"}
      /\ stmt.k = "return" => within # {}
      /\ stmt.k = "global" => last # 0 /\ Kind(doc, last) = "def" /\ stmt.n \notin doc[last].stmt.ns
      /\ stmt.k \in Headers => indent < MaxIndent

\* The calls Returned describes: not made by functions, and of functions without
\* effect on other scopes.
CallsModelled(doc) ==
  \A i, j \in DOMAIN doc :
    Kind(doc, j) = "def" /\ doc[i].stmt.rhs.k = "call" /\ doc[i].stmt.rhs.of = doc[j].stmt.n =>
      /\ \A f \in DOMAIN doc : Kind(doc, f) = "def" => ~Encloses(doc, f, i)
      /\ Declared(doc, j) = {}

InferenceInit ==
  /\ vocabulary \in DOMAIN Vocabularies
  /\ document = <<>>

\* The user types a line at the end of the document.
Type(stmt, indent) ==
  LET typed == Append(document, [indent |-> indent, stmt |-> stmt])
  IN  /\ Len(document) < MaxLines
      /\ Fits(document, stmt, indent)
      /\ CallsModelled(typed)
      /\ document' = typed
      /\ UNCHANGED vocabulary

InferenceNext ==
  \E stmt \in Vocabularies[vocabulary], indent \in 0 .. MaxIndent : Type(stmt, indent)

InferenceSpec == InferenceInit /\ [][InferenceNext]_inference

---------------------------------------------------------------------------
(* Properties *)

Asked == IF document = <<>> THEN {} ELSE Last(document).stmt.asks
IsType(value, type) == value.k = "type" /\ value.type = type
AllOfType(values, type) == type # None => \A value \in values : IsType(value, type)
TrustedHolds(values, inferred) == inferred.high => AllOfType(values, inferred.type)

\* The document leaves the names of Sage's constructors alone, or binds them before it
\* calls them.
NamesKept(doc) ==
  SageFile /\ \A i \in DOMAIN doc :
    DOMAIN Constructors \intersect (Rebinds(doc[i].stmt) \union doc[i].stmt.ns) = {}
BoundFirst(doc) ==
  \A i, j \in DOMAIN doc :
    i < j /\ doc[i].stmt.rhs.k = "call" => doc[i].stmt.rhs.of \notin
      Rebinds(doc[j].stmt) \intersect DOMAIN Constructors
ClaimHolds(values, inferred) ==
  /\ NamesKept(document) => AllOfType(values, inferred.type)
  /\ BoundFirst(document) => TrustedHolds(values, inferred)

\* What is claimed of an owner's type holds on every path that reaches the query:
\* conditional bindings, function scopes, parameters, del, aliases and returned values
\* included. While constructor names mean Sage's constructors that is the strict type
\* (sage_type_inference.rs, local_function_returns.rs); whatever the document binds
\* these names to, the type that authorizes a direct jump (resolve_member_symbol,
\* confidence high).
ClaimedTypeHolds ==
  \A owner \in Asked :
    ClaimHolds(Reads(document, owner), Inferred(document, owner, Len(document)))

\* The local binding a plain name is resolved to (active_local_binding_at) is one
\* Python may read there, if the index captures all bindings of the name, no
\* function binds a parameter anew and none declares the name global: never one of a
\* sibling scope, nor one a later binding of the same scope overwrote.
Captured(doc, n) ==
  \A i \in DOMAIN doc : n = doc[i].stmt.n /\ Kind(doc, i) # "use" =>
    /\ \E s \in Symbols(doc) : s.n = n /\ s.line = i
    /\ OwnScope(doc, i) # 0 => n \notin doc[OwnScope(doc, i)].stmt.ns
ReadHere(binding, values) ==
  binding # None /\ values # {} => \E value \in values : value.at = binding.line
BindingIsReached ==
  \A n \in Asked : \A binding \in {ActiveBinding(document, n, Len(document))} :
    Captured(document, n) => ReadHere(binding, Reads(document, n))

\* The local binding a plain name is resolved to is one of the innermost scope Python
\* looks in, whatever else binds the name: none of a sibling function, of a class around
\* the function or of a suite that has ended, none that a deeper scope or a later line of
\* the scope overwrites, parameters aside, which come before their rebindings; and there is none only where Python finds none of those the index
\* captures (active_local_binding_at; ARCHITECTURE.md, the local scopes).
BindingIsInnermost ==
  \A n \in Asked :
    IsInnermost(document, n, Len(document), ActiveBinding(document, n, Len(document)))
=============================================================================
