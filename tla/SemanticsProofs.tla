---------------------------- MODULE SemanticsProofs ----------------------------
(***************************************************************************)
(* Theorems about SageTables, for any modules, files, imports, built-in    *)
(* maps, owner types and depth of the search                               *)
(* (crates/sage-index/src/materialized_cache.rs): the tables of exports    *)
(* and methods are those of the indexed rows after any edits, rebuilds and *)
(* refreshes, although a refresh recomputes them only for files of Sage;   *)
(* and a rebuild, which reads memory, and a refresh, which reads the       *)
(* database, compute the same unless Sage's files are ambiguous.           *)
(*                                                                         *)
(* And about LocalBindings, for any text, line and name                    *)
(* (crates/sage-index/src/query_support/completion.rs, local_scopes.rs):   *)
(* the local binding found for a name is of the innermost scope that       *)
(* Python looks in.                                                        *)
(***************************************************************************)
EXTENDS SageTables, MemberInference,
        SequenceTheorems, NaturalsInduction, WellFoundedInduction, TLAPS

-----------------------------------------------------------------------------
(* Rows and symbols.                                                       *)

\* Indexed files that the program can have read.
RowsOK(db) == \A m \in Modules : db[m] \in Files[m]

\* Two states of the rows that differ outside Sage only.
SameForSage(a, b) == \A m \in SageModules : a[m] = b[m]

\* Two states that the loaders la and lb read the same of Sage from: the
\* loaders are one, or no row is ambiguous.
Alike(a, la, b, lb) ==
  /\ RowsOK(a) /\ RowsOK(b) /\ SameForSage(a, b)
  /\ la \in Loaders /\ lb \in Loaders
  /\ la = lb \/ (Unambiguous(a) /\ Unambiguous(b))

LEMMA NatLeast ==
  ASSUME NEW T \in SUBSET Nat, T # {}
  PROVE  \E n \in T : \A m \in T : n <= m
<1> DEFINE R == OpToRel(<, Nat)
<1>1. \A m, n \in Nat : m < n => <<m, n>> \in R
  BY DEF OpToRel
<1>2. IsWellFoundedOn(R, Nat)
  BY NatLessThanWellFounded, Zenon
<1> HIDE DEF R
<1>3. PICK n \in T : \A m \in T : ~(<<m, n>> \in R)
  BY <1>2, WFMin
<1>4. \A m \in T : n <= m
  <2> SUFFICES ASSUME NEW m \in T PROVE n <= m
    OBVIOUS
  <2>1. ~(m < n)
    BY <1>1, <1>3
  <2> QED BY <2>1
<1> QED BY <1>4

\* What every symbol that was read has.
IsRow(r) == r.module \in Modules /\ r.kind \in Kinds /\ r.path \in 0 .. 4 /\ r.parsed \in Nat /\ r.line \in Nat

LEMMA RanksAreNat ==
  ASSUME NEW r, IsRow(r), NEW loader
  PROVE  ChoiceKey(r) \in Nat /\ PlaceIn(r, loader) \in Nat
<1>1. KindRank(r.kind) \in Nat
  BY DEF IsRow, KindRank, Kinds
<1>2. DocRank(r) \in Nat
  BY DEF DocRank
<1> QED BY <1>1, <1>2 DEF IsRow, ChoiceKey, PlaceIn

\* A row belongs to the module its symbol names.
LEMMA RowsAreOfTheirModule ==
  ASSUME NEW db, RowsOK(db), NEW s \in SymbolRows(db)
  PROVE  /\ db[s.module] # NoFile
         /\ db[s.module] \in Files[s.module] \ {NoFile}
         /\ s \in ToSet(db[s.module].symbols)
         /\ DOMAIN s = Fields /\ IsRow(s)
         /\ s.class = MatrixConstructor => s.target = <<s.module, s.target[2]>> /\ s.target # NoTarget
<1>1. PICK m \in Modules : db[m] # NoFile /\ s \in ToSet(db[m].symbols)
  BY DEF SymbolRows, Indexed
<1>2. IsFileOf(m, db[m])
  BY <1>1, FilesAssumption DEF RowsOK
<1>3. /\ DOMAIN s = Fields /\ s.module = m /\ IsRow(s)
      /\ s.class = MatrixConstructor => s.target = <<m, s.target[2]>> /\ s.target # NoTarget
  BY <1>1, <1>2 DEF IsFileOf, IsRow
<1> QED BY <1>1, <1>3 DEF RowsOK

LEMMA FileSymbolsAreRows ==
  ASSUME NEW db, RowsOK(db), NEW m \in Modules, db[m] # NoFile, NEW s \in ToSet(db[m].symbols)
  PROVE  s \in SymbolRows(db) /\ s.module = m
<1>1. s \in SymbolRows(db)
  BY DEF SymbolRows, Indexed
<1>2. IsFileOf(m, db[m])
  BY FilesAssumption DEF RowsOK
<1> QED BY <1>1, <1>2 DEF IsFileOf

\* A change outside Sage leaves the rows of Sage's modules.
LEMMA SageRowsStayHalf ==
  ASSUME NEW a, NEW b, RowsOK(a), SameForSage(a, b), NEW s \in SageRows(a)
  PROVE  s \in SageRows(b)
<1>1. s \in SymbolRows(a) /\ s.module \in SageModules
  BY DEF SageRows
<1>2. /\ s.module \in Modules /\ a[s.module] # NoFile
      /\ s \in ToSet(a[s.module].symbols)
  BY <1>1, RowsAreOfTheirModule DEF IsRow
<1>3. b[s.module] = a[s.module]
  BY <1>1 DEF SameForSage
<1> QED BY <1>1, <1>2, <1>3 DEF SymbolRows, Indexed, SageRows

LEMMA SageRowsStay ==
  ASSUME NEW a, NEW b, RowsOK(a), RowsOK(b), SameForSage(a, b)
  PROVE  SageRows(a) = SageRows(b) /\ AskedOfSage(a) = AskedOfSage(b)
<1>1. SameForSage(b, a)
  BY DEF SameForSage
<1>2. SageRows(a) = SageRows(b)
  BY <1>1, SageRowsStayHalf
<1> QED BY <1>2 DEF AskedOfSage

-----------------------------------------------------------------------------
(* What a loader reads.                                                    *)

\* A row read with another docstring.
SameButDoc(r, s) ==
  /\ r.kind = s.kind /\ r.module = s.module /\ r.name = s.name /\ r.class = s.class
  /\ r.target = s.target /\ r.method = s.method

LEMMA DocIsNoOther ==
  ASSUME NEW s, DOMAIN s = Fields, IsRow(s), NEW d
  PROVE  SameButDoc(WithDoc(s, d), s) /\ IsRow(WithDoc(s, d))
<1>1. CASE s.doc = d
  BY <1>1 DEF WithDoc, SameButDoc
<1>2. CASE s.doc # d
  <2>1. WithDoc(s, d) = [s EXCEPT !.doc = d]
    BY <1>2 DEF WithDoc
  <2> DEFINE r == [s EXCEPT !.doc = d]
  <2>2. \A f \in Fields \ {"doc"} : r[f] = s[f]
    OBVIOUS
  <2> HIDE DEF r
  <2>3. /\ r.kind = s.kind /\ r.module = s.module /\ r.name = s.name /\ r.class = s.class
        /\ r.target = s.target /\ r.method = s.method
        /\ r.path = s.path /\ r.parsed = s.parsed /\ r.line = s.line
    BY <2>2 DEF Fields
  <2>4. SameButDoc(r, s) /\ IsRow(r)
    BY <2>3 DEF SameButDoc, IsRow
  <2> QED BY <2>1, <2>4 DEF r
<1> QED BY <1>1, <1>2

LEMMA ReadIsSameButDoc ==
  ASSUME NEW db, RowsOK(db), NEW s \in SymbolRows(db), NEW loader, NEW r \in ReadBy(db, loader, s)
  PROVE  SameButDoc(r, s) /\ IsRow(r)
<1>1. DOMAIN s = Fields /\ IsRow(s)
  BY RowsAreOfTheirModule
<1>2. r = s \/ \E d : r = WithDoc(s, d)
  BY Zenon DEF ReadBy, Joined
<1>3. CASE r = s
  BY <1>1, <1>3 DEF SameButDoc
<1>4. CASE \E d : r = WithDoc(s, d)
  BY <1>1, <1>4, DocIsNoOther
<1> QED BY <1>2, <1>3, <1>4

LEMMA ReadAsItIs ==
  ASSUME NEW db, RowsOK(db), Unambiguous(db), NEW s \in SageRows(db), NEW loader
  PROVE  ReadBy(db, loader, s) = {s}
<1>1. s \in SymbolRows(db) /\ s.module \in SageModules
  BY DEF SageRows
<1>2. /\ s.module \in Modules /\ db[s.module] # NoFile
  BY <1>1, RowsAreOfTheirModule DEF IsRow
<1>3. ASSUME NEW t \in ToSet(db[s.module].symbols), Twins(s, t) PROVE t.doc = s.doc
  <2>1. t \in SageRows(db)
    BY <1>1, <1>2, FileSymbolsAreRows DEF SageRows
  <2> QED BY <1>3, <2>1 DEF Unambiguous, DocsAreOwn
<1>4. \A d \in JoinedDocs(db, s) : d = s.doc
  BY <1>3 DEF JoinedDocs
<1>5. WithDoc(s, s.doc) = s
  BY DEF WithDoc
<1>6. Joined(db, s) = {s}
  <2>1. CASE JoinedDocs(db, s) = {}
    BY <2>1 DEF Joined
  <2>2. CASE JoinedDocs(db, s) # {}
    <3>1. JoinedDocs(db, s) = {s.doc}
      BY <1>4, <2>2
    <3>2. {WithDoc(s, d) : d \in {s.doc}} = {s}
      BY <1>5
    <3> QED BY <3>1, <3>2, <2>2 DEF Joined
  <2> QED BY <2>1, <2>2
<1> QED BY <1>6 DEF ReadBy

LEMMA ReadStays ==
  ASSUME NEW a, NEW la, NEW b, NEW lb, Alike(a, la, b, lb), NEW s \in SageRows(a)
  PROVE  ReadBy(a, la, s) = ReadBy(b, lb, s)
<1>1. s \in SageRows(b)
  BY SageRowsStay DEF Alike
<1>2. CASE la = lb
  <2>1. a[s.module] = b[s.module]
    BY DEF Alike, SameForSage, SageRows
  <2>2. JoinedDocs(a, s) = JoinedDocs(b, s)
    BY <2>1 DEF JoinedDocs
  <2>3. Joined(a, s) = Joined(b, s)
    BY <2>2 DEF Joined
  <2> QED BY <1>2, <2>3 DEF ReadBy
<1>3. CASE Unambiguous(a) /\ Unambiguous(b)
  <2>1. ReadBy(a, la, s) = {s} /\ ReadBy(b, lb, s) = {s}
    BY <1>1, <1>3, ReadAsItIs DEF Alike
  <2> QED BY <2>1
<1> QED BY <1>2, <1>3 DEF Alike

\* The rows of Sage as a loader reads them.
SageRead(db, loader) == {r \in Rows(db, loader) : r.module \in SageModules}

LEMMA RowsAreRead ==
  ASSUME NEW db, RowsOK(db), NEW loader, NEW r
  PROVE  r \in Rows(db, loader) <=> \E s \in SymbolRows(db) : r \in ReadBy(db, loader, s)
BY DEF Rows, ModuleRows, SymbolRows

LEMMA RowsAreRows ==
  ASSUME NEW db, RowsOK(db), NEW loader, NEW r \in Rows(db, loader)
  PROVE  IsRow(r) /\ \E s \in SymbolRows(db) : r \in ReadBy(db, loader, s) /\ SameButDoc(r, s)
<1>1. PICK s \in SymbolRows(db) : r \in ReadBy(db, loader, s)
  BY RowsAreRead
<1> QED BY <1>1, ReadIsSameButDoc

LEMMA SageReadIs ==
  ASSUME NEW db, RowsOK(db), NEW loader, NEW r
  PROVE  r \in SageRead(db, loader) <=> \E s \in SageRows(db) : r \in ReadBy(db, loader, s)
<1>1. ASSUME NEW s \in SymbolRows(db), r \in ReadBy(db, loader, s) PROVE r.module = s.module
  BY <1>1, ReadIsSameButDoc DEF SameButDoc
<1> QED BY <1>1, RowsAreRead DEF SageRead, SageRows

LEMMA SageReadHalf ==
  ASSUME NEW a, NEW la, NEW b, NEW lb, Alike(a, la, b, lb), NEW r \in SageRead(a, la)
  PROVE  r \in SageRead(b, lb)
<1>1. RowsOK(a) /\ RowsOK(b)
  BY DEF Alike
<1>2. PICK s \in SageRows(a) : r \in ReadBy(a, la, s)
  BY <1>1, SageReadIs
<1>3. s \in SageRows(b) /\ r \in ReadBy(b, lb, s)
  BY <1>2, ReadStays, SageRowsStay DEF Alike
<1> QED BY <1>1, <1>3, SageReadIs

LEMMA AlikeIsSymmetric ==
  ASSUME NEW a, NEW la, NEW b, NEW lb, Alike(a, la, b, lb)
  PROVE  Alike(b, lb, a, la)
BY DEF Alike, SameForSage

LEMMA SageReadStays ==
  ASSUME NEW a, NEW la, NEW b, NEW lb, Alike(a, la, b, lb)
  PROVE  SageRead(a, la) = SageRead(b, lb)
<1>1. Alike(b, lb, a, la)
  BY AlikeIsSymmetric
<1>2. \A r \in SageRead(a, la) : r \in SageRead(b, lb)
  BY SageReadHalf
<1>3. \A r \in SageRead(b, lb) : r \in SageRead(a, la)
  BY <1>1, SageReadHalf
<1> QED BY <1>2, <1>3

\* Rows that are not ambiguous are read as they are.
LEMMA SageReadAsItIs ==
  ASSUME NEW db, RowsOK(db), Unambiguous(db), NEW loader
  PROVE  SageRead(db, loader) = SageRows(db)
<1>1. \A s \in SageRows(db) : ReadBy(db, loader, s) = {s}
  BY ReadAsItIs
<1> QED BY <1>1, SageReadIs

-----------------------------------------------------------------------------
(* The best of some rows.                                                  *)

LEMMA BestIsOne ==
  ASSUME NEW S, S # {}, \A s \in S : IsRow(s), NEW loader
  PROVE  BestOf(S, loader) \in S
<1> DEFINE keys == {ChoiceKey(s) : s \in S}
<1>1. keys \in SUBSET Nat /\ keys # {}
  BY RanksAreNat
<1>2. PICK n \in keys : \A k \in keys : n <= k
  BY <1>1, NatLeast, Zenon
<1> DEFINE L == {s \in S : ChoiceKey(s) = n}
           places == {PlaceIn(s, loader) : s \in L}
<1>3. places \in SUBSET Nat /\ places # {}
  BY <1>2, RanksAreNat
<1>4. PICK p \in places : \A k \in places : p <= k
  BY <1>3, NatLeast, Zenon
<1>5. PICK s \in L : PlaceIn(s, loader) = p
  BY <1>4
<1>6. ASSUME NEW t \in S PROVE ChosenBefore(s, t, loader)
  <2>1. /\ ChoiceKey(s) = n /\ n <= ChoiceKey(t) /\ n \in Nat /\ ChoiceKey(t) \in Nat
        /\ PlaceIn(s, loader) = p
    BY <1>2, <1>5, RanksAreNat
  <2>2. ChoiceKey(t) = n => p <= PlaceIn(t, loader)
    BY <1>4
  <2> QED BY <2>1, <2>2 DEF ChosenBefore
<1>7. s \in Least(S, loader)
  BY <1>6 DEF Least
<1>8. BestOf(S, loader) \in Least(S, loader)
  BY <1>7, Zenon DEF BestOf
<1> QED BY <1>8 DEF Least

LEMMA BestOfLeast ==
  ASSUME NEW S, NEW l, NEW T, NEW k, Least(S, l) = Least(T, k)
  PROVE  BestOf(S, l) = BestOf(T, k)
BY DEF BestOf

LEMMA BestOfNone ==
  ASSUME NEW loader
  PROVE  BestOf({}, loader) = NoSymbol
BY DEF BestOf, Least

LEMMA PlacesStay ==
  ASSUME NEW a, NEW la, NEW b, NEW lb, Alike(a, la, b, lb),
         NEW s \in SageRead(a, la), NEW t \in SageRead(a, la), s.name = t.name
  PROVE  PlaceIn(s, la) <= PlaceIn(t, la) <=> PlaceIn(s, lb) <= PlaceIn(t, lb)
<1>1. CASE la = lb
  BY <1>1
<1>2. CASE Unambiguous(a)
  <2>1. s \in SageRows(a) /\ t \in SageRows(a)
    BY <1>2, SageReadAsItIs DEF Alike
  <2>2. s.parsed <= t.parsed <=> s.line <= t.line
    BY <1>2, <2>1 DEF Unambiguous, OrderIsKept
  <2> QED BY <2>2 DEF PlaceIn
<1> QED BY <1>1, <1>2 DEF Alike

\* The best of some rows of Sage of one name is the same for both.
LEMMA BestStays ==
  ASSUME NEW a, NEW la, NEW b, NEW lb, Alike(a, la, b, lb),
         NEW S \in SUBSET SageRead(a, la), \A s, t \in S : s.name = t.name
  PROVE  BestOf(S, la) = BestOf(S, lb)
<1>1. ASSUME NEW s \in S, NEW t \in S
      PROVE  ChosenBefore(s, t, la) <=> ChosenBefore(s, t, lb)
  BY PlacesStay DEF ChosenBefore
<1>2. Least(S, la) = Least(S, lb)
  BY <1>1 DEF Least
<1> QED BY <1>2, BestOfLeast

\* What is worse than one that stays need not be searched.
LEMMA LeastDropsLosers ==
  ASSUME NEW D, NEW E \in SUBSET D, \A s \in D : IsRow(s), NEW loader,
         \A t \in D \ E : \E d \in E : ChoiceKey(d) < ChoiceKey(t)
  PROVE  Least(D, loader) = Least(E, loader)
<1>1. \A s \in D : ChoiceKey(s) \in Nat
  BY RanksAreNat
<1>2. ASSUME NEW s \in Least(D, loader) PROVE s \in Least(E, loader)
  <2>1. s \in D /\ \A t \in D : ChosenBefore(s, t, loader)
    BY DEF Least
  <2>2. s \in E
    <3> SUFFICES ASSUME s \notin E PROVE FALSE
      OBVIOUS
    <3>1. PICK d \in E : ChoiceKey(d) < ChoiceKey(s)
      BY <2>1
    <3>2. ChoiceKey(s) < ChoiceKey(d) \/ ChoiceKey(s) = ChoiceKey(d)
      BY <2>1 DEF ChosenBefore
    <3>3. ChoiceKey(s) \in Nat /\ ChoiceKey(d) \in Nat
      BY <1>1, <2>1
    <3> QED BY <3>1, <3>2, <3>3
  <2> QED BY <2>1, <2>2 DEF Least
<1>3. ASSUME NEW s \in Least(E, loader) PROVE s \in Least(D, loader)
  <2>1. s \in E /\ \A t \in E : ChosenBefore(s, t, loader)
    BY DEF Least
  <2>2. ASSUME NEW t \in D \ E PROVE ChosenBefore(s, t, loader)
    <3>1. PICK d \in E : ChoiceKey(d) < ChoiceKey(t)
      OBVIOUS
    <3>2. ChoiceKey(s) < ChoiceKey(d) \/ ChoiceKey(s) = ChoiceKey(d)
      BY <2>1 DEF ChosenBefore
    <3>3. ChoiceKey(s) \in Nat /\ ChoiceKey(d) \in Nat /\ ChoiceKey(t) \in Nat
      BY <1>1, <2>1
    <3>4. ChoiceKey(s) < ChoiceKey(t)
      BY <3>1, <3>2, <3>3
    <3> QED BY <3>4 DEF ChosenBefore
  <2> QED BY <2>1, <2>2 DEF Least
<1> QED BY <1>2, <1>3

-----------------------------------------------------------------------------
(* What is found under a name of Sage.                                     *)

\* What answers for a name that only Sage answers for.
LEMMA AnswersAreSage ==
  ASSUME NEW s, IsRow(s), NEW from, NEW name, OnlySageAnswers(from),
         ImportTargetDefinitionMatches(s, from, name) \/ ModuleMatchesImport(s.module, from)
  PROVE  s.module \in SageModules
<1>1. s.module \in Modules
  BY DEF IsRow
<1>2. ModuleMatchesImport(s.module, from) \/ <<from, s.module>> \in Submodule
  BY DEF ImportTargetDefinitionMatches, ModuleMatchesImport
<1> QED BY <1>1, <1>2 DEF OnlySageAnswers

LEMMA CandidateRowsAre ==
  ASSUME NEW db, RowsOK(db), NEW loader, NEW name, NEW r
  PROVE  r \in CandidateRows(db, loader, name) <=> r \in Rows(db, loader) /\ IsNamed(r, loader, name)
<1>1. ASSUME NEW s \in SymbolRows(db), r \in ReadBy(db, loader, s)
      PROVE  IsNamed(r, loader, name) <=> IsNamed(s, loader, name)
  BY <1>1, ReadIsSameButDoc DEF SameButDoc, IsNamed
<1>2. r \in CandidateRows(db, loader, name)
      <=> \E s \in SymbolRows(db) : IsNamed(s, loader, name) /\ r \in ReadBy(db, loader, s)
  BY DEF CandidateRows
<1> QED BY <1>1, <1>2, RowsAreRead

LEMMA DefinitionsAre ==
  ASSUME NEW db, RowsOK(db), NEW loader, NEW from, NEW name, OnlySageAnswers(from)
  PROVE  Definitions(db, loader, from, name)
         = {r \in SageRead(db, loader) :
              IsNamed(r, loader, name) /\ ImportTargetDefinitionMatches(r, from, name)}
<1>1. ASSUME NEW r
      PROVE  r \in Definitions(db, loader, from, name)
             <=> r \in Rows(db, loader) /\ IsNamed(r, loader, name) /\ ImportTargetDefinitionMatches(r, from, name)
  BY CandidateRowsAre, Zenon DEF Definitions
<1>2. ASSUME NEW r \in Rows(db, loader), ImportTargetDefinitionMatches(r, from, name)
      PROVE  r \in SageRead(db, loader)
  <2>1. IsRow(r)
    BY RowsAreRows
  <2>2. r.module \in SageModules
    BY <1>2, <2>1, AnswersAreSage, Zenon
  <2> QED BY <2>2, Zenon DEF SageRead
<1>3. \A r \in SageRead(db, loader) : r \in Rows(db, loader)
  BY DEF SageRead
<1> QED BY <1>1, <1>2, <1>3, Zenon

LEMMA ImportsNamedAre ==
  ASSUME NEW db, RowsOK(db), NEW loader, NEW from, NEW name, OnlySageAnswers(from)
  PROVE  ImportsNamed(db, loader, from, name)
         = {r \in SageRead(db, loader) :
              r.kind = "Import" /\ r.name = name /\ ModuleMatchesImport(r.module, from)}
<1>1. ASSUME NEW r
      PROVE  r \in ImportsNamed(db, loader, from, name)
             <=> r \in Rows(db, loader) /\ IsNamed(r, loader, name)
                 /\ r.kind = "Import" /\ r.name = name /\ ModuleMatchesImport(r.module, from)
  BY CandidateRowsAre, Zenon DEF ImportsNamed
<1>2. ASSUME NEW r \in Rows(db, loader), ModuleMatchesImport(r.module, from)
      PROVE  r \in SageRead(db, loader)
  <2>1. IsRow(r)
    BY RowsAreRows
  <2>2. r.module \in SageModules
    BY <1>2, <2>1, AnswersAreSage, Zenon
  <2> QED BY <2>2, Zenon DEF SageRead
<1>3. \A r \in SageRead(db, loader) : r \in Rows(db, loader)
  BY DEF SageRead
<1>4. \A r : r.name = name => IsNamed(r, loader, name)
  BY DEF IsNamed
<1> QED BY <1>1, <1>2, <1>3, <1>4, Zenon

\* The import found under a name of Sage is the same.
LEMMA BestImportStays ==
  ASSUME NEW a, NEW la, NEW b, NEW lb, Alike(a, la, b, lb), NEW from, NEW name, OnlySageAnswers(from)
  PROVE  /\ BestOf(ImportsNamed(a, la, from, name), la) = BestOf(ImportsNamed(b, lb, from, name), lb)
         /\ BestOf(ImportsNamed(a, la, from, name), la) = NoSymbol
            \/ BestOf(ImportsNamed(a, la, from, name), la) \in SageRead(a, la)
<1> DEFINE S == ImportsNamed(a, la, from, name)
<1>0. RowsOK(a) /\ RowsOK(b)
  BY DEF Alike
<1>1. S = {r \in SageRead(a, la) : r.kind = "Import" /\ r.name = name /\ ModuleMatchesImport(r.module, from)}
  BY <1>0, ImportsNamedAre
<1>2. ImportsNamed(b, lb, from, name) = S
  BY <1>0, <1>1, ImportsNamedAre, SageReadStays
<1> HIDE DEF S
<1>3. S \in SUBSET SageRead(a, la) /\ \A s, t \in S : s.name = t.name
  BY <1>1
<1>4. BestOf(S, la) = BestOf(S, lb)
  BY <1>3, BestStays
<1>5. \A s \in S : IsRow(s)
  BY <1>0, <1>3, RowsAreRows DEF SageRead
<1>6. BestOf(S, la) = NoSymbol \/ BestOf(S, la) \in S
  <2>1. CASE S = {}
    BY <2>1, BestOfNone
  <2>2. CASE S # {}
    BY <2>2, <1>5, BestIsOne
  <2> QED BY <2>1, <2>2
<1> QED BY <1>2, <1>3, <1>4, <1>6 DEF S

\* Unless rows are ambiguous, memory knows no better definition than those of
\* the very name.
LEMMA ExactNamesAreBest ==
  ASSUME NEW db, RowsOK(db), Unambiguous(db), NEW q \in AskedOfSage(db), OnlySageAnswers(q[1]),
         NEW loader \in Loaders
  PROVE  BestDefinition(db, loader, q[1], q[2]) = BestDefinition(db, "database", q[1], q[2])
<1> DEFINE D == Definitions(db, "memory", q[1], q[2])
           E == Definitions(db, "database", q[1], q[2])
           S == {r \in SageRows(db) : ImportTargetDefinitionMatches(r, q[1], q[2])}
<1>1. /\ D = {r \in SageRows(db) : IsNamed(r, "memory", q[2]) /\ ImportTargetDefinitionMatches(r, q[1], q[2])}
      /\ E = {r \in SageRows(db) : IsNamed(r, "database", q[2]) /\ ImportTargetDefinitionMatches(r, q[1], q[2])}
  <2>1. SageRead(db, "memory") = SageRows(db) /\ SageRead(db, "database") = SageRows(db)
    BY SageReadAsItIs
  <2> QED BY <2>1, DefinitionsAre
<1> HIDE DEF D, E
<1>2. /\ \A r \in D : r \in S /\ (r.name = q[2] \/ {r.name, q[2]} \in CaseVariants)
      /\ \A r : r \in E <=> r \in S /\ r.name = q[2]
      /\ \A r \in E : r \in D
  BY <1>1 DEF IsNamed
<1>3. ASSUME NEW t \in D \ E PROVE \E d \in E : ChoiceKey(d) < ChoiceKey(t)
  <2>1. /\ t \in SageRows(db) /\ ImportTargetDefinitionMatches(t, q[1], q[2])
        /\ t.name # q[2] /\ {t.name, q[2]} \in CaseVariants
    BY <1>2
  <2>2. t.kind = "Module" /\ t.module = q[1]
    BY <2>1 DEF ImportTargetDefinitionMatches
  <2>3. NamesAreExact(db)
    BY DEF Unambiguous
  <2>4. PICK d \in SageRows(db) : /\ d.name = q[2] /\ ImportTargetDefinitionMatches(d, q[1], q[2])
                                  /\ ChoiceKey(d) < ChoiceKey(t)
    BY <2>1, <2>2, <2>3, Zenon DEF NamesAreExact
  <2>5. d \in E
    BY <1>2, <2>4
  <2> QED BY <2>4, <2>5
<1>4. \A s \in D : IsRow(s)
  <2>1. \A s \in SageRows(db) : IsRow(s)
    BY RowsAreOfTheirModule DEF SageRows
  <2> QED BY <1>2, <2>1
<1>5. Least(D, "memory") = Least(E, "memory")
  BY <1>2, <1>3, <1>4, LeastDropsLosers
<1>6. BestOf(D, "memory") = BestOf(E, "memory")
  BY <1>5, BestOfLeast
<1>7. BestOf(E, "memory") = BestOf(E, "database")
  <2>1. Alike(db, "memory", db, "database")
    BY DEF Alike, Loaders, SameForSage
  <2>2. E \in SUBSET SageRead(db, "memory")
    BY <1>2, SageReadAsItIs
  <2>3. \A s, t \in E : s.name = t.name
    BY <1>2
  <2> QED BY <2>1, <2>2, <2>3, BestStays
<1> QED BY <1>6, <1>7 DEF D, E, BestDefinition, Loaders

\* The definition that an import of Sage or a built-in map names is the same.
LEMMA BestDefinitionStays ==
  ASSUME NEW a, NEW la, NEW b, NEW lb, Alike(a, la, b, lb),
         NEW q \in AskedOfSage(a), OnlySageAnswers(q[1])
  PROVE  BestDefinition(a, la, q[1], q[2]) = BestDefinition(b, lb, q[1], q[2])
<1>1. /\ RowsOK(a) /\ RowsOK(b) /\ SameForSage(a, b) /\ la \in Loaders /\ lb \in Loaders
  BY DEF Alike
<1>2. ASSUME NEW l \in Loaders
      PROVE  BestDefinition(a, l, q[1], q[2]) = BestDefinition(b, l, q[1], q[2])
  <2>1. Alike(a, l, b, l)
    BY <1>1 DEF Alike
  <2>2. SageRead(a, l) = SageRead(b, l)
    BY <2>1, SageReadStays
  <2>3. Definitions(a, l, q[1], q[2]) = Definitions(b, l, q[1], q[2])
    <3>1. ASSUME NEW from, NEW name, OnlySageAnswers(from)
          PROVE  Definitions(a, l, from, name) = Definitions(b, l, from, name)
      <4>1. ASSUME NEW db, RowsOK(db)
            PROVE  Definitions(db, l, from, name)
                   = {r \in SageRead(db, l) : IsNamed(r, l, name) /\ ImportTargetDefinitionMatches(r, from, name)}
        BY <3>1, <4>1, DefinitionsAre
      <4> QED BY <1>1, <2>2, <4>1
    <3> QED BY <3>1
  <2> QED BY <2>3 DEF BestDefinition
<1>3. CASE la = lb
  BY <1>1, <1>2, <1>3
<1>4. CASE Unambiguous(a) /\ Unambiguous(b)
  <2>1. q \in AskedOfSage(b)
    BY <1>1, SageRowsStay
  <2>2. BestDefinition(a, la, q[1], q[2]) = BestDefinition(a, "database", q[1], q[2])
    BY <1>1, <1>4, ExactNamesAreBest
  <2>3. BestDefinition(b, lb, q[1], q[2]) = BestDefinition(b, "database", q[1], q[2])
    BY <1>1, <1>4, <2>1, ExactNamesAreBest
  <2>4. BestDefinition(a, "database", q[1], q[2]) = BestDefinition(b, "database", q[1], q[2])
    BY <1>2 DEF Loaders
  <2> QED BY <2>2, <2>3, <2>4
<1> QED BY <1>3, <1>4 DEF Alike

-----------------------------------------------------------------------------
(* Chains of imports.                                                      *)

\* A symbol whose target is asked of Sage, and only Sage answers for it.
Stays(db, s) ==
  s = NoSymbol \/ (s.target # NoTarget => OnlySageAnswers(s.target[1]) /\ s.target \in AskedOfSage(db))

LEMMA SageTargets ==
  ASSUME SageIsClosed, NEW db, RowsOK(db), NEW s \in SageRows(db), s.target # NoTarget
  PROVE  OnlySageAnswers(s.target[1]) /\ s.target \in AskedOfSage(db)
<1>1. s \in SymbolRows(db) /\ s.module \in SageModules
  BY DEF SageRows
<1>2. db[s.module] \in Files[s.module] \ {NoFile} /\ s \in ToSet(db[s.module].symbols)
  BY <1>1, RowsAreOfTheirModule
<1>3. OnlySageAnswers(s.target[1])
  BY <1>1, <1>2 DEF SageIsClosed
<1> QED BY <1>3 DEF AskedOfSage

LEMMA SageSymbolsStay ==
  ASSUME SageIsClosed, NEW db, RowsOK(db), NEW s \in SageRows(db)
  PROVE  Stays(db, s)
BY SageTargets DEF Stays

LEMMA SageReadSymbolsStay ==
  ASSUME SageIsClosed, NEW db, RowsOK(db), NEW loader, NEW r \in SageRead(db, loader)
  PROVE  Stays(db, r)
<1>1. PICK s \in SageRows(db) : r \in ReadBy(db, loader, s)
  BY SageReadIs
<1>2. r.target = s.target
  BY <1>1, ReadIsSameButDoc DEF SameButDoc, SageRows
<1> QED BY <1>2, SageTargets DEF Stays

\* The next import of a chain that stays in Sage is the same, and stays there.
LEMMA NextStays ==
  ASSUME SageIsClosed, NEW a, NEW la, NEW b, NEW lb, Alike(a, la, b, lb), NEW s, Stays(a, s)
  PROVE  NextImport(a, la, s) = NextImport(b, lb, s) /\ Stays(a, NextImport(a, la, s))
<1>1. CASE s = NoSymbol \/ s.target = NoTarget
  BY <1>1 DEF NextImport, Stays
<1>2. CASE s # NoSymbol /\ s.target # NoTarget
  <2>1. OnlySageAnswers(s.target[1])
    BY <1>2 DEF Stays
  <2> DEFINE best == BestOf(ImportsNamed(a, la, s.target[1], s.target[2]), la)
  <2>2. /\ best = BestOf(ImportsNamed(b, lb, s.target[1], s.target[2]), lb)
        /\ best = NoSymbol \/ best \in SageRead(a, la)
    <3>1. ASSUME NEW from, NEW name, OnlySageAnswers(from)
          PROVE  /\ BestOf(ImportsNamed(a, la, from, name), la) = BestOf(ImportsNamed(b, lb, from, name), lb)
                 /\ BestOf(ImportsNamed(a, la, from, name), la) = NoSymbol
                    \/ BestOf(ImportsNamed(a, la, from, name), la) \in SageRead(a, la)
      BY <3>1, BestImportStays
    <3> QED BY <2>1, <3>1
  <2>3. NextImport(a, la, s) = best /\ NextImport(b, lb, s) = best
    BY <1>2, <2>2, Zenon DEF NextImport
  <2> HIDE DEF best
  <2>4. Stays(a, best)
    <3>1. CASE best = NoSymbol
      BY <3>1 DEF Stays
    <3>2. CASE best \in SageRead(a, la)
      BY <3>2, SageReadSymbolsStay DEF Alike
    <3> QED BY <2>2, <3>1, <3>2
  <2> QED BY <2>3, <2>4
<1> QED BY <1>1, <1>2

\* The first n imports of a chain.
IsChain(db, l, s, n, f) == f = [i \in 0 .. n |-> IF i = 0 THEN s ELSE NextImport(db, l, f[i - 1])]

LEMMA ChainGrows ==
  ASSUME NEW db, NEW l, NEW s, NEW n \in Nat, n # 0, NEW g, IsChain(db, l, s, n - 1, g)
  PROVE  \E f : IsChain(db, l, s, n, f)
<1> DEFINE f == [i \in 0 .. n |-> IF i = 0 THEN s ELSE NextImport(db, l, g[i - 1])]
<1>1. \A i \in 0 .. n : f[i] = IF i = 0 THEN s ELSE NextImport(db, l, g[i - 1])
  OBVIOUS
<1>2. ASSUME NEW j \in 0 .. n - 1 PROVE g[j] = IF j = 0 THEN s ELSE NextImport(db, l, g[j - 1])
  BY <1>2, Zenon DEF IsChain
<1>3. ASSUME NEW j \in 0 .. n - 1 PROVE f[j] = g[j]
  <2>1. j \in 0 .. n
    OBVIOUS
  <2> QED BY <2>1, <1>1, <1>2, Zenon
<1>4. ASSUME NEW i \in 0 .. n, i # 0 PROVE f[i - 1] = g[i - 1]
  <2>1. i - 1 \in 0 .. n - 1
    BY <1>4
  <2> QED BY <2>1, <1>3
<1>5. f = [i \in 0 .. n |-> IF i = 0 THEN s ELSE NextImport(db, l, f[i - 1])]
  <2> HIDE DEF f
  <2>1. ASSUME NEW i \in 0 .. n
        PROVE  f[i] = IF i = 0 THEN s ELSE NextImport(db, l, f[i - 1])
    BY <1>1, <1>4
  <2>2. f = [i \in 0 .. n |-> f[i]]
    BY DEF f
  <2> QED BY <2>1, <2>2
<1> QED BY <1>5 DEF IsChain

LEMMA ChainExists ==
  ASSUME NEW db, NEW l, NEW s, NEW n \in Nat
  PROVE  \E f : IsChain(db, l, s, n, f)
<1> DEFINE T == {k \in Nat : ~ \E f : IsChain(db, l, s, k, f)}
<1>1. SUFFICES ASSUME T # {} PROVE FALSE
  OBVIOUS
<1>2. PICK k \in T : \A j \in T : k <= j
  BY <1>1, NatLeast
<1>3. k \in Nat /\ ~ \E f : IsChain(db, l, s, k, f)
  BY <1>2
<1>4. CASE k = 0
  <2> DEFINE f == [i \in 0 .. 0 |-> s]
  <2>1. f = [i \in 0 .. 0 |-> IF i = 0 THEN s ELSE NextImport(db, l, f[i - 1])]
    OBVIOUS
  <2>2. IsChain(db, l, s, 0, f)
    BY <2>1, Zenon DEF IsChain
  <2> QED BY <2>2, <1>3, <1>4, Zenon
<1>5. CASE k # 0
  <2>1. k - 1 \in Nat /\ ~(k <= k - 1)
    BY <1>3, <1>5
  <2>2. k - 1 \notin T
    BY <1>2, <2>1, Zenon
  <2>3. PICK g : IsChain(db, l, s, k - 1, g)
    BY <2>1, <2>2, Zenon
  <2> QED BY <2>3, <1>3, <1>5, ChainGrows, Zenon
<1> QED BY <1>4, <1>5

LEMMA ImportChainIsChain ==
  ASSUME NEW db, NEW l, NEW s
  PROVE  /\ DOMAIN ImportChain(db, l, s) = 0 .. MaxDepth
         /\ ImportChain(db, l, s)[0] = s
         /\ \A i \in 0 .. MaxDepth :
              i # 0 => ImportChain(db, l, s)[i] = NextImport(db, l, ImportChain(db, l, s)[i - 1])
         /\ ImportChain(db, l, s) = [i \in 0 .. MaxDepth |-> ImportChain(db, l, s)[i]]
<1> DEFINE c == ImportChain(db, l, s)
<1>1. \E f : IsChain(db, l, s, MaxDepth, f)
  BY ChainExists, FilesAssumption
<1>2. IsChain(db, l, s, MaxDepth, c)
  BY <1>1, Zenon DEF IsChain, ImportChain
<1> HIDE DEF c
<1>3. 0 \in 0 .. MaxDepth
  BY FilesAssumption
<1>4. c = [i \in 0 .. MaxDepth |-> IF i = 0 THEN s ELSE NextImport(db, l, c[i - 1])]
  BY <1>2, Zenon DEF IsChain
<1>5. DOMAIN c = 0 .. MaxDepth /\ c = [i \in 0 .. MaxDepth |-> c[i]]
  BY <1>4
<1>6. c[0] = s
  BY <1>3, <1>4
<1>7. ASSUME NEW i \in 0 .. MaxDepth, i # 0 PROVE c[i] = NextImport(db, l, c[i - 1])
  BY <1>4, <1>7
<1> QED BY <1>5, <1>6, <1>7 DEF c

\* The chain of an import of Sage is the same, and stays in Sage.
LEMMA ChainStays ==
  ASSUME SageIsClosed, NEW a, NEW la, NEW b, NEW lb, Alike(a, la, b, lb), NEW s, Stays(a, s)
  PROVE  /\ ImportChain(a, la, s) = ImportChain(b, lb, s)
         /\ \A i \in 0 .. MaxDepth : Stays(a, ImportChain(a, la, s)[i])
<1> DEFINE c == ImportChain(a, la, s)
           d == ImportChain(b, lb, s)
           T == {k \in 0 .. MaxDepth : ~(c[k] = d[k] /\ Stays(a, c[k]))}
<1> HIDE DEF c, d
<1>a. /\ c[0] = s /\ c = [i \in 0 .. MaxDepth |-> c[i]]
      /\ \A i \in 0 .. MaxDepth : i # 0 => c[i] = NextImport(a, la, c[i - 1])
  BY ImportChainIsChain DEF c
<1>b. /\ d[0] = s /\ d = [i \in 0 .. MaxDepth |-> d[i]]
      /\ \A i \in 0 .. MaxDepth : i # 0 => d[i] = NextImport(b, lb, d[i - 1])
  BY ImportChainIsChain DEF d
<1>2. T = {}
  <2>1. SUFFICES ASSUME T # {} PROVE FALSE
    OBVIOUS
  <2>2. T \in SUBSET Nat
    BY FilesAssumption
  <2>3. PICK k \in T : \A l \in T : k <= l
    BY <2>1, <2>2, NatLeast, Zenon
  <2>4. k \in 0 .. MaxDepth /\ ~(c[k] = d[k] /\ Stays(a, c[k]))
    BY <2>3
  <2>5. k # 0
    BY <2>4, <1>a, <1>b
  <2>6. k - 1 \in 0 .. MaxDepth /\ ~(k <= k - 1)
    BY <2>4, <2>5, FilesAssumption
  <2>7. c[k - 1] = d[k - 1] /\ Stays(a, c[k - 1])
    BY <2>3, <2>6, Zenon
  <2>8. ASSUME NEW t, Stays(a, t)
        PROVE  NextImport(a, la, t) = NextImport(b, lb, t) /\ Stays(a, NextImport(a, la, t))
    BY <2>8, NextStays
  <2> QED BY <1>a, <1>b, <2>4, <2>5, <2>7, <2>8, Zenon
<1>3. \A i \in 0 .. MaxDepth : c[i] = d[i] /\ Stays(a, c[i])
  BY <1>2
<1>4. c = d
  BY <1>a, <1>b, <1>3
<1> QED BY <1>3, <1>4 DEF c, d

LEMMA ResolveStays ==
  ASSUME SageIsClosed, NEW a, NEW la, NEW b, NEW lb, Alike(a, la, b, lb), NEW s, Stays(a, s)
  PROVE  ResolveImport(a, la, s) = ResolveImport(b, lb, s)
<1> DEFINE c == ImportChain(a, la, s)
<1>1. /\ c = ImportChain(b, lb, s)
      /\ \A i \in 0 .. MaxDepth : Stays(a, c[i])
  <2>1. ImportChain(a, la, s) = ImportChain(b, lb, s)
    BY ChainStays
  <2>2. ASSUME NEW i \in 0 .. MaxDepth PROVE Stays(a, ImportChain(a, la, s)[i])
    BY ChainStays
  <2> QED BY <2>1, <2>2
<1>2. DOMAIN c = 0 .. MaxDepth
  BY ImportChainIsChain
<1> HIDE DEF c
<1>3. ASSUME NEW i \in DOMAIN c, ~(c[i] = NoSymbol \/ c[i].target = NoTarget)
      PROVE  BestDefinition(a, la, c[i].target[1], c[i].target[2])
             = BestDefinition(b, lb, c[i].target[1], c[i].target[2])
  <2>1. OnlySageAnswers(c[i].target[1]) /\ c[i].target \in AskedOfSage(a)
    BY <1>1, <1>2, <1>3 DEF Stays
  <2>2. ASSUME NEW q \in AskedOfSage(a), OnlySageAnswers(q[1])
        PROVE  BestDefinition(a, la, q[1], q[2]) = BestDefinition(b, lb, q[1], q[2])
    BY <2>2, BestDefinitionStays
  <2> QED BY <2>1, <2>2
<1>4. ASSUME NEW i \in DOMAIN c
      PROVE  (IF c[i] = NoSymbol \/ c[i].target = NoTarget THEN NoSymbol
              ELSE BestDefinition(a, la, c[i].target[1], c[i].target[2]))
             = (IF c[i] = NoSymbol \/ c[i].target = NoTarget THEN NoSymbol
                ELSE BestDefinition(b, lb, c[i].target[1], c[i].target[2]))
  BY <1>3, Zenon
<1>5. TargetDefinitions(a, la, c) = TargetDefinitions(b, lb, c)
  BY <1>4, Zenon DEF TargetDefinitions
<1>6. ResolveImport(a, la, s) = EndOfChain(c, TargetDefinitions(a, la, c))
  BY DEF ResolveImport, c
<1>7. ResolveImport(b, lb, s) = EndOfChain(c, TargetDefinitions(b, lb, c))
  BY <1>1 DEF ResolveImport
<1> QED BY <1>5, <1>6, <1>7

-----------------------------------------------------------------------------
(* The table of exports.                                                   *)

LEMMA IndexedStays ==
  ASSUME NEW a, NEW b, SameForSage(a, b), NEW m, m \in SageModules \/ m \notin Modules
  PROVE  m \in Indexed(a) <=> m \in Indexed(b)
BY FilesAssumption DEF Indexed, SameForSage

LEMMA ModuleRowsStay ==
  ASSUME NEW a, NEW la, NEW b, NEW lb, Alike(a, la, b, lb), NEW m \in SageModules, a[m] # NoFile
  PROVE  /\ ModuleRows(a, la, m) = ModuleRows(b, lb, m)
         /\ ModuleRows(a, la, m) \subseteq SageRead(a, la)
<1>1. m \in Modules /\ a[m] = b[m] /\ RowsOK(a)
  BY FilesAssumption DEF Alike, SameForSage
<1>2. \A s \in ToSet(a[m].symbols) : s \in SageRows(a)
  BY <1>1, FileSymbolsAreRows DEF SageRows
<1>3. \A s \in ToSet(a[m].symbols) : ReadBy(a, la, s) = ReadBy(b, lb, s)
  BY <1>2, ReadStays
<1>4. ModuleRows(a, la, m) = ModuleRows(b, lb, m)
  BY <1>1, <1>3 DEF ModuleRows
<1>5. \A r \in ModuleRows(a, la, m) : r \in SageRead(a, la)
  BY <1>1, <1>2, SageReadIs DEF ModuleRows
<1> QED BY <1>4, <1>5

\* The record kept for a name is that of the same symbol.
LEMMA FirstStays ==
  ASSUME NEW a, NEW la, NEW b, NEW lb, Alike(a, la, b, lb), NEW records,
         NEW S \in SUBSET SageRead(a, la), \A s, t \in S : s.name = t.name
  PROVE  FirstOfBest(records, la, S) = FirstOfBest(records, lb, S)
<1>1. ASSUME NEW s \in S, NEW t \in S
      PROVE  PlaceIn(s, la) <= PlaceIn(t, la) <=> PlaceIn(s, lb) <= PlaceIn(t, lb)
  BY PlacesStay
<1> QED BY <1>1 DEF FirstOfBest

LEMMA BestRecordsStay ==
  ASSUME NEW a, NEW la, NEW b, NEW lb, Alike(a, la, b, lb), NEW module, NEW records,
         DOMAIN records \subseteq SageRead(a, la)
  PROVE  BestRecords(module, la, records) = BestRecords(module, lb, records)
<1> DEFINE offered == {s \in DOMAIN records : records[s] # NoSymbol}
           Of(k) == {s \in offered : s.name = k[2]}
           keys == {<<module, s.name>> : s \in offered}
<1>1. ASSUME NEW k PROVE FirstOfBest(records, la, Of(k)) = FirstOfBest(records, lb, Of(k))
  <2>1. Of(k) \in SUBSET SageRead(a, la) /\ \A s, t \in Of(k) : s.name = t.name
    OBVIOUS
  <2> HIDE DEF Of
  <2> QED BY <2>1, FirstStays
<1>2. /\ BestRecords(module, la, records)
         = [k \in keys |-> records[CHOOSE s \in FirstOfBest(records, la, Of(k)) : TRUE]]
      /\ BestRecords(module, lb, records)
         = [k \in keys |-> records[CHOOSE s \in FirstOfBest(records, lb, Of(k)) : TRUE]]
  BY Zenon DEF BestRecords
<1> HIDE DEF keys, Of
<1> QED BY <1>1, <1>2

LEMMA StarRecordsStay ==
  ASSUME SageIsClosed, NEW a, NEW la, NEW b, NEW lb, Alike(a, la, b, lb),
         NEW m \in SageModules, a[m] # NoFile
  PROVE  /\ StarRecords(a, la, m) = StarRecords(b, lb, m)
         /\ DOMAIN StarRecords(a, la, m) \subseteq SageRead(a, la)
<1> DEFINE S == {s \in ModuleRows(a, la, m) : StarCandidate(a[m], s)}
<1>1. /\ ModuleRows(a, la, m) = ModuleRows(b, lb, m) /\ ModuleRows(a, la, m) \subseteq SageRead(a, la)
      /\ a[m] = b[m]
  BY ModuleRowsStay DEF Alike, SameForSage
<1>2. S = {s \in ModuleRows(b, lb, m) : StarCandidate(b[m], s)} /\ S \subseteq SageRead(a, la)
  BY <1>1
<1>3. StarRecords(a, la, m) = [s \in S |-> Resolved(a, la, s)]
  BY Zenon DEF StarRecords
<1>4. StarRecords(b, lb, m) = [s \in S |-> Resolved(b, lb, s)]
  BY <1>2, Zenon DEF StarRecords
<1> HIDE DEF S
<1>5. ASSUME NEW s \in S PROVE Resolved(a, la, s) = Resolved(b, lb, s)
  <2>1. Stays(a, s)
    BY <1>2, SageReadSymbolsStay DEF Alike
  <2>2. ResolveImport(a, la, s) = ResolveImport(b, lb, s)
    BY <2>1, ResolveStays
  <2> QED BY <2>2 DEF Resolved
<1> QED BY <1>2, <1>3, <1>4, <1>5

\* What a star import of a module of Sage offers.
LEMMA PublicExportsStay ==
  ASSUME SageIsClosed, NEW a, NEW la, NEW b, NEW lb, Alike(a, la, b, lb),
         NEW source, source \in SageModules \/ source \notin Modules
  PROVE  PublicExports(a, la, source) = PublicExports(b, lb, source)
<1>1. source \in Indexed(a) <=> source \in Indexed(b)
  BY IndexedStays DEF Alike
<1>2. CASE source \notin Indexed(a)
  BY <1>1, <1>2 DEF PublicExports
<1>3. CASE source \in Indexed(a)
  <2>1. source \in SageModules /\ a[source] # NoFile
    BY <1>3 DEF Indexed
  <2>2. /\ StarRecords(a, la, source) = StarRecords(b, lb, source)
        /\ DOMAIN StarRecords(a, la, source) \subseteq SageRead(a, la)
    BY <2>1, StarRecordsStay
  <2>3. BestRecords(source, la, StarRecords(a, la, source)) = BestRecords(source, lb, StarRecords(a, la, source))
    BY <2>2, BestRecordsStay
  <2> QED BY <1>1, <1>3, <2>2, <2>3 DEF PublicExports
<1> QED BY <1>2, <1>3

LEMMA ExportFilesStay ==
  ASSUME NEW a, NEW b, SameForSage(a, b)
  PROVE  /\ ExportFiles(a) = ExportFiles(b)
         /\ \A m \in ExportFiles(a) : m \in SageModules /\ a[m] # NoFile /\ a[m] = b[m]
<1>1. \A m \in ExportModules : m \in SageModules /\ m \in Modules
  BY FilesAssumption
<1>2. ExportFiles(a) = ExportFiles(b)
  BY <1>1, IndexedStays DEF ExportFiles
<1>3. \A m \in ExportFiles(a) : m \in SageModules /\ a[m] # NoFile
  BY <1>1 DEF ExportFiles, Indexed
<1> QED BY <1>2, <1>3 DEF SameForSage

LEMMA ImportRecordsStay ==
  ASSUME SageIsClosed, NEW a, NEW la, NEW b, NEW lb, Alike(a, la, b, lb)
  PROVE  ImportRecords(a, la) = ImportRecords(b, lb)
<1> DEFINE record(db, l, m, i) == [name |-> db[m].symbols[i].name,
                                   symbol |-> ResolveImport(db, l, db[m].symbols[i])]
           row(db, l, m) == [i \in ExplicitImports(db)[m] |-> record(db, l, m, i)]
<1>1. /\ ExportFiles(a) = ExportFiles(b)
      /\ \A m \in ExportFiles(a) : m \in SageModules /\ a[m] # NoFile /\ a[m] = b[m]
  BY ExportFilesStay DEF Alike
<1>2. ASSUME NEW m \in ExportFiles(a) PROVE row(a, la, m) = row(b, lb, m)
  <2> DEFINE imports == {i \in DOMAIN a[m].symbols : a[m].symbols[i].kind = "Import"}
  <2>1. m \in SageModules /\ m \in Modules /\ a[m] # NoFile /\ a[m] = b[m]
    BY <1>1, FilesAssumption
  <2>2. ExplicitImports(a)[m] = imports /\ ExplicitImports(b)[m] = imports
    BY <1>1, <2>1 DEF ExplicitImports
  <2>3. ASSUME NEW i \in imports PROVE record(a, la, m, i) = record(b, lb, m, i)
    <3>1. a[m].symbols[i] \in ToSet(a[m].symbols)
      BY DEF ToSet
    <3>2. a[m].symbols[i] \in SageRows(a)
      BY <2>1, <3>1, FileSymbolsAreRows DEF SageRows, Alike
    <3>3. Stays(a, a[m].symbols[i])
      BY <3>2, SageSymbolsStay DEF Alike
    <3>4. ResolveImport(a, la, a[m].symbols[i]) = ResolveImport(b, lb, a[m].symbols[i])
      BY <3>3, ResolveStays
    <3> QED BY <2>1, <3>4
  <2> HIDE DEF imports, record
  <2> QED BY <2>2, <2>3
<1>3. ImportRecords(a, la) = [m \in ExportFiles(a) |-> row(a, la, m)]
  BY Zenon DEF ImportRecords
<1>4. ImportRecords(b, lb) = [m \in ExportFiles(b) |-> row(b, lb, m)]
  BY Zenon DEF ImportRecords
<1> HIDE DEF row
<1> QED BY <1>1, <1>2, <1>3, <1>4

LEMMA StarEdgesStay ==
  ASSUME NEW a, NEW b, SameForSage(a, b)
  PROVE  StarEdges(a) = StarEdges(b)
<1>1. /\ ExportFiles(a) = ExportFiles(b)
      /\ \A m \in ExportFiles(a) : a[m] = b[m]
  BY ExportFilesStay, Zenon
<1> QED BY <1>1 DEF StarEdges

LEMMA SourceExportsStay ==
  ASSUME SageIsClosed, NEW a, NEW la, NEW b, NEW lb, Alike(a, la, b, lb)
  PROVE  SourceExports(a, la) = SourceExports(b, lb)
<1> DEFINE sources(db) == UNION {ToSet(StarEdges(db)[m]) : m \in ExportFiles(db)}
<1>1. /\ ExportFiles(a) = ExportFiles(b)
      /\ \A m \in ExportFiles(a) : m \in SageModules /\ a[m] # NoFile /\ a[m] = b[m]
  BY ExportFilesStay DEF Alike
<1>2. StarEdges(a) = StarEdges(b)
  BY StarEdgesStay DEF Alike
<1>3. sources(a) = sources(b)
  BY <1>1, <1>2
<1>4. ASSUME NEW source \in sources(a) PROVE source \in SageModules \/ source \notin Modules
  <2>1. PICK m \in ExportFiles(a) : source \in ToSet(StarEdges(a)[m])
    OBVIOUS
  <2>2. source \in ToSet(a[m].stars)
    BY <2>1 DEF StarEdges
  <2>3. m \in ExportModules /\ m \in Modules /\ a[m] \in Files[m] \ {NoFile}
    BY <1>1, FilesAssumption DEF ExportFiles, RowsOK, Alike
  <2> QED BY <2>2, <2>3 DEF SageIsClosed
<1>5. \A source \in sources(a) : PublicExports(a, la, source) = PublicExports(b, lb, source)
  BY <1>4, PublicExportsStay
<1>6. /\ SourceExports(a, la) = [source \in sources(a) |-> PublicExports(a, la, source)]
      /\ SourceExports(b, lb) = [source \in sources(b) |-> PublicExports(b, lb, source)]
  BY Zenon DEF SourceExports
<1> HIDE DEF sources
<1> QED BY <1>3, <1>5, <1>6

LEMMA FallbacksStay ==
  ASSUME SageIsClosed, NEW a, NEW la, NEW b, NEW lb, Alike(a, la, b, lb)
  PROVE  Fallbacks(a, la) = Fallbacks(b, lb)
<1>1. ASSUME NEW i \in DOMAIN StaticExports
      PROVE  BestDefinition(a, la, StaticExports[i].source_module, StaticExports[i].source_name)
             = BestDefinition(b, lb, StaticExports[i].source_module, StaticExports[i].source_name)
  <2> DEFINE q == <<StaticExports[i].source_module, StaticExports[i].source_name>>
  <2>1. StaticExports[i] \in ToSet(StaticExports)
    BY DEF ToSet
  <2>2. OnlySageAnswers(StaticExports[i].source_module) /\ q \in AskedOfSage(a)
    BY <2>1 DEF SageIsClosed, AskedOfSage
  <2>3. q[1] = StaticExports[i].source_module /\ q[2] = StaticExports[i].source_name
    OBVIOUS
  <2> HIDE DEF q
  <2>4. BestDefinition(a, la, q[1], q[2]) = BestDefinition(b, lb, q[1], q[2])
    BY <2>2, <2>3, BestDefinitionStays
  <2> QED BY <2>3, <2>4
<1> QED BY <1>1, Zenon DEF Fallbacks

\* Both loaders compute the same table of exports from rows that are alike.
LEMMA ExportTableStays ==
  ASSUME SageIsClosed, NEW a, NEW la, NEW b, NEW lb, Alike(a, la, b, lb)
  PROVE  ExportTable(a, la) = ExportTable(b, lb)
<1>1. /\ ImportRecords(a, la) = ImportRecords(b, lb) /\ StarEdges(a) = StarEdges(b)
      /\ SourceExports(a, la) = SourceExports(b, lb) /\ Fallbacks(a, la) = Fallbacks(b, lb)
  BY ImportRecordsStay, StarEdgesStay, SourceExportsStay, FallbacksStay DEF Alike
<1> QED BY <1>1 DEF ExportTable

-----------------------------------------------------------------------------
(* The table of methods.                                                   *)

WithOwner(S) == {s \in S : Owner(s) # NoSymbol}

LEMMA OwnersAreSage ==
  ASSUME NEW s, Owner(s) # NoSymbol
  PROVE  /\ s.module \in SageModules
         /\ s.class # NoClass \/ s.module \in DOMAIN ModuleOwner
         /\ Owner(s).priority \in Nat
<1>1. CASE s.class # NoClass /\ <<s.class, s.module>> \in DOMAIN ClassOwner
  <2>1. Owner(s) = ClassOwner[<<s.class, s.module>>]
    BY <1>1, Zenon DEF Owner
  <2>2. <<s.class, s.module>>[2] \in SageModules /\ ClassOwner[<<s.class, s.module>>].priority \in Nat
    BY <1>1, OwnersAssumption, Zenon
  <2> QED BY <1>1, <2>1, <2>2
<1>2. CASE ~(s.class # NoClass /\ <<s.class, s.module>> \in DOMAIN ClassOwner)
  <2>1. s.module \in DOMAIN ModuleOwner /\ Owner(s) = ModuleOwner[s.module]
    BY <1>2, Zenon DEF Owner
  <2> QED BY <2>1, OwnersAssumption
<1> QED BY <1>1, <1>2

LEMMA OwnedAre ==
  ASSUME NEW S
  PROVE  OwnedMethods(S) = {Method(Owner(s).type, s.name, Owner(s).priority, s) : s \in WithOwner(S)}
BY Zenon DEF OwnedMethods, WithOwner

LEMMA MemoryReadsRows ==
  ASSUME NEW db
  PROVE  Rows(db, "memory") = SymbolRows(db)
BY DEF Rows, ModuleRows, ReadBy, SymbolRows

\* Both loaders look for the methods of all rows.
LEMMA SourceMethodsAre ==
  ASSUME NEW db, NEW loader \in Loaders
  PROVE  SourceMethods(db, loader) = OwnedMethods(SageRead(db, loader)) \union AliasMethods(db, loader)
<1> DEFINE A == {s \in Rows(db, loader) : s.class # NoClass}
           B == {s \in Rows(db, loader) : s.module \in DOMAIN ModuleOwner}
           S == SageRead(db, loader)
<1>1. /\ WithOwner(Rows(db, loader)) = WithOwner(S)
      /\ WithOwner(S) = WithOwner(A) \union WithOwner(B)
  BY OwnersAreSage DEF WithOwner, SageRead
<1> HIDE DEF A, B, S
<1>2. /\ OwnedMethods(Rows(db, loader)) = OwnedMethods(S)
      /\ OwnedMethods(S) = OwnedMethods(A) \union OwnedMethods(B)
  BY <1>1, OwnedAre
<1>3. CASE loader = "memory"
  <2>1. SourceMethods(db, loader) = OwnedMethods(Rows(db, loader)) \union AliasMethods(db, loader)
    BY <1>3, MemoryReadsRows DEF SourceMethods, MethodsFromSymbols
  <2> QED BY <2>1, <1>2 DEF S
<1>4. CASE loader = "database"
  <2>1. SourceMethods(db, loader) = OwnedMethods(A) \union AliasMethods(db, loader) \union OwnedMethods(B)
    BY <1>4, Zenon DEF SourceMethods, MethodsFromConnection, A, B
  <2> QED BY <2>1, <1>2 DEF S
<1> QED BY <1>3, <1>4 DEF Loaders

\* Aliases of methods are in Sage.
LEMMA ClassAliasesAre ==
  ASSUME NEW db
  PROVE  ClassAliases(db) = {s \in SageRows(db) : s.kind = "Import" /\ <<s.class, s.module>> \in DOMAIN ClassOwner}
<1>1. ASSUME NEW s, <<s.class, s.module>> \in DOMAIN ClassOwner PROVE s.module \in SageModules
  <2>1. <<s.class, s.module>>[2] \in SageModules
    BY <1>1, OwnersAssumption, Zenon
  <2> QED BY <2>1
<1> QED BY <1>1 DEF ClassAliases, SageRows

LEMMA MatrixAliasesAre ==
  ASSUME SageIsClosed, NEW db, RowsOK(db)
  PROVE  /\ MatrixAliases(db) = {s \in SageRows(db) : s.kind = "Import" /\ s.class = MatrixConstructor}
         /\ \A s \in MatrixAliases(db) : OnlySageAnswers(s.module)
<1>1. ASSUME NEW s \in MatrixAliases(db)
      PROVE  s \in SageRows(db) /\ OnlySageAnswers(s.module)
  <2>1. s \in SymbolRows(db) /\ s.class = MatrixConstructor
    BY DEF MatrixAliases
  <2>2. /\ db[s.module] \in Files[s.module] \ {NoFile} /\ s \in ToSet(db[s.module].symbols)
        /\ s.module \in Modules /\ s.target = <<s.module, s.target[2]>> /\ s.target # NoTarget
    BY <2>1, RowsAreOfTheirModule DEF IsRow
  <2>3. s.module \in SageModules
    BY <2>1, <2>2 DEF SageIsClosed
  <2>4. OnlySageAnswers(s.target[1])
    BY <2>2, <2>3 DEF SageIsClosed
  <2>5. s.target[1] = s.module
    <3>1. <<s.module, s.target[2]>>[1] = s.module
      OBVIOUS
    <3> QED BY <2>2, <3>1, Zenon
  <2> QED BY <2>1, <2>3, <2>4, <2>5 DEF SageRows
<1> QED BY <1>1 DEF MatrixAliases, SageRows

\* The best target of an alias of a method is the same.
LEMMA ClassTargetsStay ==
  ASSUME NEW a, NEW la, NEW b, NEW lb, Alike(a, la, b, lb), NEW alias \in ClassAliases(a)
  PROVE  /\ ClassAliasTargets(a, la, alias) = ClassAliasTargets(b, lb, alias)
         /\ BestOf(ClassAliasTargets(a, la, alias), la) = BestOf(ClassAliasTargets(b, lb, alias), lb)
<1> DEFINE S == {s \in SageRead(a, la) : s.method /\ s.module = alias.module /\ s.class = alias.class
                                         /\ s.name = alias.target[2]}
<1>1. alias.module \in SageModules
  BY ClassAliasesAre DEF SageRows
<1>2. S = ClassAliasTargets(a, la, alias)
  BY <1>1 DEF ClassAliasTargets, SageRead
<1>3. S = {s \in SageRead(b, lb) : s.method /\ s.module = alias.module /\ s.class = alias.class
                                   /\ s.name = alias.target[2]}
  BY SageReadStays
<1>4. S = ClassAliasTargets(b, lb, alias)
  BY <1>1, <1>3 DEF ClassAliasTargets, SageRead
<1>5. S \in SUBSET SageRead(a, la) /\ \A s, t \in S : s.name = t.name
  OBVIOUS
<1> HIDE DEF S
<1>6. BestOf(S, la) = BestOf(S, lb)
  BY <1>5, BestStays
<1> QED BY <1>2, <1>4, <1>6

LEMMA MatrixTargetsAre ==
  ASSUME SageIsClosed, NEW db, RowsOK(db), NEW alias \in MatrixAliases(db)
  PROVE  /\ MatrixAliasTargets(db, "memory", alias)
            = {s \in SageRead(db, "memory") :
                 s.kind # "Import" /\ s.module = alias.module /\ s.name = alias.target[2]}
         /\ MatrixAliasTargets(db, "database", alias)
            = {s \in SageRead(db, "database") :
                 s.name = alias.target[2] /\ ImportTargetDefinitionMatches(s, alias.module, alias.target[2])}
<1>1. alias.module \in SageModules /\ OnlySageAnswers(alias.module)
  BY MatrixAliasesAre DEF SageRows
<1>2. MatrixAliasTargets(db, "memory", alias)
      = {s \in SymbolRows(db) : s.kind # "Import" /\ s.module = alias.module /\ s.name = alias.target[2]}
  BY DEF MatrixAliasTargets
<1>3. MatrixAliasTargets(db, "database", alias) = Definitions(db, "database", alias.module, alias.target[2])
  BY DEF MatrixAliasTargets
<1>4. Definitions(db, "database", alias.module, alias.target[2])
      = {s \in SageRead(db, "database") : IsNamed(s, "database", alias.target[2])
           /\ ImportTargetDefinitionMatches(s, alias.module, alias.target[2])}
  BY <1>1, DefinitionsAre, Zenon
<1>5. \A s : IsNamed(s, "database", alias.target[2]) <=> s.name = alias.target[2]
  BY DEF IsNamed
<1>6. MatrixAliasTargets(db, "memory", alias)
      = {s \in SageRead(db, "memory") :
           s.kind # "Import" /\ s.module = alias.module /\ s.name = alias.target[2]}
  BY <1>1, <1>2, MemoryReadsRows DEF SageRead
<1> QED BY <1>3, <1>4, <1>5, <1>6

\* Unless rows are ambiguous, memory and the database find the same.
LEMMA MatrixTargetsAgree ==
  ASSUME SageIsClosed, NEW db, RowsOK(db), Unambiguous(db), NEW alias \in MatrixAliases(db)
  PROVE  MatrixAliasTargets(db, "memory", alias) = MatrixAliasTargets(db, "database", alias)
<1> DEFINE name == alias.target[2]
<1>1. SageRead(db, "memory") = SageRows(db) /\ SageRead(db, "database") = SageRows(db)
  BY SageReadAsItIs
<1>2. ASSUME NEW s \in SageRows(db), s.kind # "Import", s.module = alias.module, s.name = name
      PROVE  ImportTargetDefinitionMatches(s, alias.module, name)
  BY <1>2 DEF ImportTargetDefinitionMatches, ModuleMatchesImport
<1>3. ASSUME NEW s \in SageRows(db), s.name = name, ImportTargetDefinitionMatches(s, alias.module, name)
      PROVE  s.kind # "Import" /\ s.module = alias.module
  <2>1. s.kind # "Import"
    BY <1>3 DEF ImportTargetDefinitionMatches
  <2>2. s.module = alias.module
    BY <1>3 DEF Unambiguous, AliasesAreOwn
  <2> QED BY <2>1, <2>2
<1> HIDE DEF name
<1>4. /\ MatrixAliasTargets(db, "memory", alias)
         = {s \in SageRows(db) : s.kind # "Import" /\ s.module = alias.module /\ s.name = name}
      /\ MatrixAliasTargets(db, "database", alias)
         = {s \in SageRows(db) : s.name = name /\ ImportTargetDefinitionMatches(s, alias.module, name)}
  BY <1>1, MatrixTargetsAre DEF name
<1> QED BY <1>2, <1>3, <1>4

LEMMA MatrixTargetsStay ==
  ASSUME SageIsClosed, NEW a, NEW la, NEW b, NEW lb, Alike(a, la, b, lb), NEW alias \in MatrixAliases(a)
  PROVE  /\ MatrixAliasTargets(a, la, alias) = MatrixAliasTargets(b, lb, alias)
         /\ BestOf(MatrixAliasTargets(a, la, alias), la) = BestOf(MatrixAliasTargets(b, lb, alias), lb)
<1> DEFINE S == MatrixAliasTargets(a, la, alias)
<1>1. RowsOK(a) /\ RowsOK(b) /\ SameForSage(a, b) /\ la \in Loaders /\ lb \in Loaders
  BY DEF Alike
<1>2. alias \in MatrixAliases(b)
  BY <1>1, MatrixAliasesAre, SageRowsStay
<1>3. ASSUME NEW l \in Loaders PROVE MatrixAliasTargets(a, l, alias) = MatrixAliasTargets(b, l, alias)
  <2>1. Alike(a, l, b, l)
    BY <1>1 DEF Alike
  <2>2. SageRead(a, l) = SageRead(b, l)
    BY <2>1, SageReadStays
  <2> DEFINE inMemory(R) == {s \in R : s.kind # "Import" /\ s.module = alias.module /\ s.name = alias.target[2]}
             inDatabase(R) == {s \in R : s.name = alias.target[2]
                                        /\ ImportTargetDefinitionMatches(s, alias.module, alias.target[2])}
  <2>a. /\ MatrixAliasTargets(a, "memory", alias) = inMemory(SageRead(a, "memory"))
        /\ MatrixAliasTargets(a, "database", alias) = inDatabase(SageRead(a, "database"))
    BY <1>1, MatrixTargetsAre
  <2>b. /\ MatrixAliasTargets(b, "memory", alias) = inMemory(SageRead(b, "memory"))
        /\ MatrixAliasTargets(b, "database", alias) = inDatabase(SageRead(b, "database"))
    BY <1>1, <1>2, MatrixTargetsAre
  <2> HIDE DEF inMemory, inDatabase
  <2>3. CASE l = "memory"
    BY <2>2, <2>3, <2>a, <2>b
  <2>4. CASE l = "database"
    BY <2>2, <2>4, <2>a, <2>b
  <2> QED BY <2>3, <2>4 DEF Loaders
<1>4. S = MatrixAliasTargets(b, lb, alias)
  <2>1. CASE la = lb
    BY <1>1, <1>3, <2>1
  <2>2. CASE Unambiguous(a) /\ Unambiguous(b)
    <3>1. /\ MatrixAliasTargets(a, "memory", alias) = MatrixAliasTargets(a, "database", alias)
          /\ MatrixAliasTargets(b, "memory", alias) = MatrixAliasTargets(b, "database", alias)
      BY <1>1, <1>2, <2>2, MatrixTargetsAgree
    <3> QED BY <1>1, <1>3, <3>1 DEF Loaders
  <2> QED BY <2>1, <2>2 DEF Alike
<1>5. S \in SUBSET SageRead(a, la) /\ \A s, t \in S : s.name = t.name
  <2>1. CASE la = "memory"
    BY <1>1, <2>1, MatrixTargetsAre
  <2>2. CASE la = "database"
    BY <1>1, <2>2, MatrixTargetsAre
  <2> QED BY <1>1, <2>1, <2>2 DEF Loaders
<1> HIDE DEF S
<1>6. BestOf(S, la) = BestOf(S, lb)
  BY <1>5, BestStays
<1> QED BY <1>4, <1>6 DEF S

LEMMA ClassAliasMethodsStay ==
  ASSUME NEW a, NEW la, NEW b, NEW lb, Alike(a, la, b, lb)
  PROVE  ClassAliasMethods(a, la) = ClassAliasMethods(b, lb)
<1> DEFINE having(db, l) == {s \in ClassAliases(db) : ClassAliasTargets(db, l, s) # {}}
           method(db, l, s) == Method(ClassOwner[<<s.class, s.module>>].type, s.name, 0,
                                      BestOf(ClassAliasTargets(db, l, s), l))
<1>1. ClassAliases(a) = ClassAliases(b)
  BY ClassAliasesAre, SageRowsStay DEF Alike
<1>2. \A s \in ClassAliases(a) :
        /\ ClassAliasTargets(a, la, s) = ClassAliasTargets(b, lb, s)
        /\ BestOf(ClassAliasTargets(a, la, s), la) = BestOf(ClassAliasTargets(b, lb, s), lb)
  BY ClassTargetsStay
<1>3. having(a, la) = having(b, lb)
  BY <1>1, <1>2
<1>4. \A s \in having(a, la) : method(a, la, s) = method(b, lb, s)
  BY <1>2
<1>5. /\ ClassAliasMethods(a, la) = {method(a, la, s) : s \in having(a, la)}
      /\ ClassAliasMethods(b, lb) = {method(b, lb, s) : s \in having(b, lb)}
  BY Zenon DEF ClassAliasMethods
<1> HIDE DEF having, method
<1> QED BY <1>3, <1>4, <1>5

LEMMA MatrixAliasMethodsStay ==
  ASSUME SageIsClosed, NEW a, NEW la, NEW b, NEW lb, Alike(a, la, b, lb)
  PROVE  MatrixAliasMethods(a, la) = MatrixAliasMethods(b, lb)
<1> DEFINE having(db, l) == {s \in MatrixAliases(db) : MatrixAliasTargets(db, l, s) # {}}
           method(db, l, s) == Method(MatrixConstructor, s.name, 0, BestOf(MatrixAliasTargets(db, l, s), l))
<1>1. MatrixAliases(a) = MatrixAliases(b)
  BY MatrixAliasesAre, SageRowsStay DEF Alike
<1>2. \A s \in MatrixAliases(a) :
        /\ MatrixAliasTargets(a, la, s) = MatrixAliasTargets(b, lb, s)
        /\ BestOf(MatrixAliasTargets(a, la, s), la) = BestOf(MatrixAliasTargets(b, lb, s), lb)
  BY MatrixTargetsStay
<1>3. having(a, la) = having(b, lb)
  BY <1>1, <1>2
<1>4. \A s \in having(a, la) : method(a, la, s) = method(b, lb, s)
  BY <1>2
<1>5. /\ MatrixAliasMethods(a, la) = {method(a, la, s) : s \in having(a, la)}
      /\ MatrixAliasMethods(b, lb) = {method(b, lb, s) : s \in having(b, lb)}
  BY Zenon DEF MatrixAliasMethods
<1> HIDE DEF having, method
<1> QED BY <1>3, <1>4, <1>5

LEMMA StaticRecordsStay ==
  ASSUME SageIsClosed, NEW a, NEW la, NEW b, NEW lb, Alike(a, la, b, lb)
  PROVE  StaticRecords(a, la) = StaticRecords(b, lb)
<1>1. ASSUME NEW t \in ToSet(StaticMethods)
      PROVE  BestDefinition(a, la, t.module, t.source_name) = BestDefinition(b, lb, t.module, t.source_name)
  <2> DEFINE q == <<t.module, t.source_name>>
  <2>1. OnlySageAnswers(t.module) /\ q \in AskedOfSage(a)
    BY DEF SageIsClosed, AskedOfSage
  <2>2. q[1] = t.module /\ q[2] = t.source_name
    OBVIOUS
  <2> HIDE DEF q
  <2>3. BestDefinition(a, la, q[1], q[2]) = BestDefinition(b, lb, q[1], q[2])
    BY <2>1, <2>2, BestDefinitionStays
  <2> QED BY <2>2, <2>3
<1> QED BY <1>1, Zenon DEF StaticRecords

\* Both loaders compute the same methods from rows that are alike.
LEMMA MethodTableStays ==
  ASSUME SageIsClosed, NEW a, NEW la, NEW b, NEW lb, Alike(a, la, b, lb)
  PROVE  MethodTable(a, la) = MethodTable(b, lb)
<1>1. SageRead(a, la) = SageRead(b, lb)
  BY SageReadStays
<1>2. AliasMethods(a, la) = AliasMethods(b, lb)
  BY ClassAliasMethodsStay, MatrixAliasMethodsStay DEF AliasMethods
<1>3. SourceMethods(a, la) = SourceMethods(b, lb)
  BY <1>1, <1>2, SourceMethodsAre DEF Alike
<1>4. StaticRecords(a, la) = StaticRecords(b, lb)
  BY StaticRecordsStay
<1> QED BY <1>3, <1>4 DEF MethodTable

-----------------------------------------------------------------------------
(* There is always one to choose.                                          *)

\* A method of a type with numbers for its rank.
Ranked(d) == d.priority \in Nat /\ ChoiceKey(d.record) \in Nat

LEMMA SomeIsBest ==
  ASSUME NEW S, S # {}, \A d \in S : Ranked(d)
  PROVE  \E d \in S : \A e \in S : ~Better(e, d)
<1> DEFINE priorities == {d.priority : d \in S}
<1>1. priorities \in SUBSET Nat /\ priorities # {}
  BY DEF Ranked
<1>2. PICK n \in priorities : \A k \in priorities : n <= k
  BY <1>1, NatLeast, Zenon
<1> DEFINE L == {d \in S : d.priority = n}
           keys == {ChoiceKey(d.record) : d \in L}
<1>3. keys \in SUBSET Nat /\ keys # {}
  BY <1>2 DEF Ranked
<1>4. PICK l \in keys : \A k \in keys : l <= k
  BY <1>3, NatLeast, Zenon
<1>5. PICK d \in L : ChoiceKey(d.record) = l
  BY <1>4
<1>6. ASSUME NEW e \in S PROVE ~Better(e, d)
  <2>1. /\ d.priority = n /\ n <= e.priority /\ n \in Nat /\ e.priority \in Nat
        /\ ChoiceKey(e.record) \in Nat /\ ChoiceKey(d.record) = l /\ l \in Nat
    BY <1>1, <1>2, <1>3, <1>4, <1>5 DEF Ranked
  <2>2. e.priority = n => l <= ChoiceKey(e.record)
    BY <1>4
  <2> QED BY <2>1, <2>2 DEF Better
<1> QED BY <1>5, <1>6

LEMMA MethodIs ==
  ASSUME NEW t, NEW m, NEW p, NEW r
  PROVE  Method(t, m, p, r).priority = p /\ Method(t, m, p, r).record = r
BY DEF Method

\* The best of an alias's targets has a number for its rank.
LEMMA TargetsAreRanked ==
  ASSUME NEW db, RowsOK(db), NEW loader, NEW S \in SUBSET Rows(db, loader), S # {}
  PROVE  ChoiceKey(BestOf(S, loader)) \in Nat
<1>1. \A s \in S : IsRow(s)
  BY RowsAreRows
<1>2. BestOf(S, loader) \in S
  BY <1>1, BestIsOne
<1> QED BY <1>1, <1>2, RanksAreNat

LEMMA MethodsAreRanked ==
  ASSUME SageIsClosed, NEW db, RowsOK(db), NEW loader \in Loaders, NEW d \in SourceMethods(db, loader)
  PROVE  Ranked(d)
<1>1. CASE d \in OwnedMethods(SageRead(db, loader))
  <2>1. PICK s \in WithOwner(SageRead(db, loader)) :
          d = Method(Owner(s).type, s.name, Owner(s).priority, s)
    BY <1>1, OwnedAre
  <2>2. d.priority = Owner(s).priority /\ d.record = s
    BY <2>1, MethodIs
  <2>3. IsRow(s) /\ Owner(s) # NoSymbol
    BY RowsAreRows DEF WithOwner, SageRead
  <2> QED BY <2>2, <2>3, OwnersAreSage, RanksAreNat DEF Ranked
<1>2. CASE d \in ClassAliasMethods(db, loader)
  <2>1. PICK s \in ClassAliases(db) :
          /\ ClassAliasTargets(db, loader, s) # {}
          /\ d = Method(ClassOwner[<<s.class, s.module>>].type, s.name, 0,
                        BestOf(ClassAliasTargets(db, loader, s), loader))
    BY <1>2, Zenon DEF ClassAliasMethods
  <2>2. d.priority = 0 /\ d.record = BestOf(ClassAliasTargets(db, loader, s), loader)
    BY <2>1, MethodIs
  <2>3. ClassAliasTargets(db, loader, s) \in SUBSET Rows(db, loader)
    BY DEF ClassAliasTargets
  <2> QED BY <2>1, <2>2, <2>3, TargetsAreRanked DEF Ranked
<1>3. CASE d \in MatrixAliasMethods(db, loader)
  <2>1. PICK s \in MatrixAliases(db) :
          /\ MatrixAliasTargets(db, loader, s) # {}
          /\ d = Method(MatrixConstructor, s.name, 0, BestOf(MatrixAliasTargets(db, loader, s), loader))
    BY <1>3, Zenon DEF MatrixAliasMethods
  <2>2. d.priority = 0 /\ d.record = BestOf(MatrixAliasTargets(db, loader, s), loader)
    BY <2>1, MethodIs
  <2>3. MatrixAliasTargets(db, loader, s) \in SUBSET Rows(db, loader)
    <3>1. CASE loader = "memory"
      BY <3>1, MatrixTargetsAre DEF SageRead
    <3>2. CASE loader = "database"
      BY <3>2, MatrixTargetsAre DEF SageRead
    <3> QED BY <3>1, <3>2 DEF Loaders
  <2> QED BY <2>1, <2>2, <2>3, TargetsAreRanked DEF Ranked
<1>4. d \in OwnedMethods(SageRead(db, loader)) \union AliasMethods(db, loader)
  BY SourceMethodsAre
<1> QED BY <1>1, <1>2, <1>3, <1>4 DEF AliasMethods

LEMMA ChoicesAreThere ==
  ASSUME NEW derived, \A d \in derived : Ranked(d), NEW records,
         NEW k \in DOMAIN MethodChoices(derived, records)
  PROVE  MethodChoices(derived, records)[k] # {}
<1> DEFINE keys == {<<d.type, d.member>> : d \in derived}
           of(q) == {d \in derived : <<d.type, d.member>> = q}
           best(q) == {d \in of(q) : \A e \in of(q) : ~Better(e, d)}
           static == {t \in DOMAIN records : <<t.type, t.member>> \notin keys /\ records[t] # NoSymbol}
           more == {<<t.type, t.member>> : t \in static}
           named(q) == {t \in static : <<t.type, t.member>> = q}
           choice(q) == IF q \in keys THEN {d.record : d \in best(q)} ELSE {records[t] : t \in named(q)}
<1>1. MethodChoices(derived, records) = [q \in keys \union more |-> choice(q)]
  BY Zenon DEF MethodChoices
<1>2. ASSUME NEW q \in keys PROVE {d.record : d \in best(q)} # {}
  <2>1. of(q) # {} /\ \A d \in of(q) : Ranked(d)
    OBVIOUS
  <2>2. best(q) # {}
    <3> HIDE DEF of
    <3>1. \E d \in of(q) : \A e \in of(q) : ~Better(e, d)
      BY <2>1, SomeIsBest, Zenon
    <3> QED BY <3>1
  <2> HIDE DEF best
  <2> QED BY <2>2
<1>3. ASSUME NEW q \in more PROVE {records[t] : t \in named(q)} # {}
  <2>1. named(q) # {}
    OBVIOUS
  <2> HIDE DEF named
  <2> QED BY <2>1
<1>4. \A q \in keys \union more : choice(q) # {}
  <2> HIDE DEF keys, more, best, named
  <2> QED BY <1>2, <1>3
<1> HIDE DEF keys, more, choice
<1> QED BY <1>1, <1>4

\* What a rebuild or a refresh puts into the table of methods.
LEMMA OneIsChosen ==
  ASSUME SageIsClosed, NEW db, RowsOK(db), NEW loader \in Loaders
  PROVE  IsChosen(OneOf(MethodTable(db, loader)), MethodTable(db, loader))
<1> DEFINE choices == MethodTable(db, loader)
<1>1. choices = MethodChoices(SourceMethods(db, loader), StaticRecords(db, loader))
  BY DEF MethodTable
<1>2. \A d \in SourceMethods(db, loader) : Ranked(d)
  BY MethodsAreRanked
<1> HIDE DEF choices
<1>3. \A k \in DOMAIN choices : choices[k] # {}
  BY <1>1, <1>2, ChoicesAreThere
<1>4. \A k \in DOMAIN choices : (CHOOSE s \in choices[k] : TRUE) \in choices[k]
  BY <1>3
<1>5. IsChosen(OneOf(choices), choices)
  BY <1>4, Zenon DEF OneOf, IsChosen
<1> QED BY <1>5 DEF choices

-----------------------------------------------------------------------------
(* The tables are those of the rows.                                       *)

TablesInv ==
  /\ RowsOK(disk)
  /\ RowsOK(symbolRows)
  /\ TablesAgree

\* The tables one of the loaders computes for the rows.
Computed(db, ex, me) ==
  \E loader \in Loaders : ex = ExportTable(db, loader) /\ IsChosen(me, MethodTable(db, loader))

\* Both loaders compute the same unless rows are ambiguous.
LEMMA BothComputeTheSame ==
  ASSUME SageIsClosed, NEW db, RowsOK(db), Unambiguous(db)
  PROVE  /\ ExportTable(db, "memory") = ExportTable(db, "database")
         /\ MethodTable(db, "memory") = MethodTable(db, "database")
<1>1. Alike(db, "memory", db, "database")
  BY DEF Alike, SameForSage, Loaders
<1> QED BY <1>1, ExportTableStays, MethodTableStays

LEMMA ComputedNow ==
  ASSUME SageIsClosed, NEW db, RowsOK(db), NEW loader \in Loaders, NEW ex, ex = ExportTable(db, loader),
         NEW me, me = OneOf(MethodTable(db, loader))
  PROVE  Computed(db, ex, me)
BY OneIsChosen DEF Computed

LEMMA TablesInvInit == SageIsClosed => (ExportsInit => TablesInv)
<1> SUFFICES ASSUME SageIsClosed, ExportsInit PROVE TablesInv
  OBVIOUS
<1>1. RowsOK(disk) /\ symbolRows = disk
  BY DEF ExportsInit, RowsOK
<1>2. RowsOK(symbolRows)
  BY <1>1
<1>3. /\ "memory" \in Loaders /\ exports = ExportTable(symbolRows, "memory")
      /\ methods = OneOf(MethodTable(symbolRows, "memory"))
  BY DEF ExportsInit, Loaders
<1>4. Computed(symbolRows, exports, methods)
  BY <1>2, <1>3, ComputedNow
<1>5. TablesAgree
  BY <1>2, <1>4, BothComputeTheSame, Zenon DEF Computed, TablesAgree, Loaders
<1> QED BY <1>1, <1>2, <1>5 DEF TablesInv

\* A step whose tables are computed, or are still those of the rows.
LEMMA TablesInvNext ==
  SageIsClosed => (TablesInv /\ [ExportsNext]_tables => RowsOK(disk)' /\ RowsOK(symbolRows)'
                                                          /\ Computed(symbolRows, exports, methods)')
<1> SUFFICES ASSUME SageIsClosed, TablesInv, [ExportsNext]_tables
             PROVE  RowsOK(disk)' /\ RowsOK(symbolRows)' /\ Computed(symbolRows, exports, methods)'
  OBVIOUS
<1> USE DEF TablesInv
<1>0. PICK loader \in Loaders :
        exports = ExportTable(symbolRows, loader) /\ IsChosen(methods, MethodTable(symbolRows, loader))
  BY Zenon DEF TablesAgree, Loaders
<1>1. CASE EditFile
  <2>1. UNCHANGED <<symbolRows, exports, methods>>
    BY <1>1 DEF EditFile
  <2>2. PICK m \in Modules : \E f \in Files[m] : disk' = [disk EXCEPT ![m] = f]
    BY <1>1 DEF EditFile
  <2>3. RowsOK(disk)'
    BY <2>2 DEF RowsOK
  <2> QED BY <1>0, <2>1, <2>3 DEF RowsOK, Computed
<1>2. CASE Rebuild
  <2>1. RowsOK(disk)' /\ RowsOK(symbolRows)' /\ RowsOK(symbolRows')
    BY <1>2 DEF Rebuild, RowsOK
  <2>2. /\ "memory" \in Loaders /\ exports' = ExportTable(symbolRows', "memory")
        /\ methods' = OneOf(MethodTable(symbolRows', "memory"))
    BY <1>2 DEF Rebuild, Loaders
  <2>3. Computed(symbolRows', exports', methods')
    BY <2>1, <2>2, ComputedNow
  <2> QED BY <2>1, <2>3
<1>3. CASE RefreshPaths
  <2>1. PICK changed \in SUBSET {m \in Modules : symbolRows[m] # disk[m]} :
          /\ symbolRows' = [m \in Modules |-> IF m \in changed THEN disk[m] ELSE symbolRows[m]]
          /\ IF NeedsRefresh(changed)
             THEN /\ exports' = ExportTable(symbolRows', "database")
                  /\ methods' = OneOf(MethodTable(symbolRows', "database"))
             ELSE UNCHANGED <<exports, methods>>
    BY <1>3 DEF RefreshPaths
  <2>2. RowsOK(disk)' /\ RowsOK(symbolRows)' /\ RowsOK(symbolRows')
    BY <1>3, <2>1 DEF RefreshPaths, RowsOK
  <2>3. CASE NeedsRefresh(changed)
    <3>1. /\ "database" \in Loaders /\ exports' = ExportTable(symbolRows', "database")
          /\ methods' = OneOf(MethodTable(symbolRows', "database"))
      BY <2>1, <2>3 DEF Loaders
    <3>2. Computed(symbolRows', exports', methods')
      BY <2>2, <3>1, ComputedNow
    <3> QED BY <2>2, <3>2
  <2>4. CASE ~NeedsRefresh(changed)
    <3>1. SameForSage(symbolRows, symbolRows')
      BY <2>1, <2>4, FilesAssumption DEF NeedsRefresh, SameForSage
    <3>2. Alike(symbolRows, loader, symbolRows', loader)
      BY <2>2, <3>1 DEF Alike
    <3>3. /\ ExportTable(symbolRows', loader) = ExportTable(symbolRows, loader)
          /\ MethodTable(symbolRows', loader) = MethodTable(symbolRows, loader)
      BY <3>2, ExportTableStays, MethodTableStays
    <3>4. UNCHANGED <<exports, methods>>
      BY <2>1, <2>4
    <3>5. Computed(symbolRows', exports', methods')
      BY <1>0, <3>3, <3>4 DEF Computed
    <3> QED BY <2>2, <3>5
  <2> QED BY <2>3, <2>4
<1>4. CASE UNCHANGED tables
  BY <1>0, <1>4 DEF tables, RowsOK, Computed
<1> QED BY <1>1, <1>2, <1>3, <1>4 DEF ExportsNext

\* The tables of exports and methods in the database are always those that a
\* rebuild from memory (refresh_materialized_caches_from_symbols) or a refresh
\* that recomputes them (refresh_materialized_caches) would put there for the
\* indexed rows, in any order of edits, rebuilds and refreshes: a refresh may
\* leave them alone when no file of Sage changed (persist_paths,
\* paths_need_materialized_cache_refresh).  The two put the same there unless
\* Sage's files are ambiguous.  Provided what Sage's modules and the built-in
\* maps name is not found outside Sage.
THEOREM TablesStayRight == SageIsClosed => (ExportsSpec => []TablesAgree)
<1> SUFFICES ASSUME SageIsClosed PROVE ExportsSpec => []TablesAgree
  OBVIOUS
<1>1. ExportsInit => TablesInv
  BY TablesInvInit
<1>2. TablesInv /\ [ExportsNext]_tables => TablesInv'
  <2> SUFFICES ASSUME TablesInv, [ExportsNext]_tables PROVE TablesInv'
    OBVIOUS
  <2>1. RowsOK(disk)' /\ RowsOK(symbolRows)' /\ Computed(symbolRows, exports, methods)'
    BY TablesInvNext
  <2>2. RowsOK(symbolRows') /\ Computed(symbolRows', exports', methods')
    BY <2>1 DEF RowsOK, Computed
  <2>3. Unambiguous(symbolRows') => /\ ExportTable(symbolRows', "memory") = ExportTable(symbolRows', "database")
                                    /\ MethodTable(symbolRows', "memory") = MethodTable(symbolRows', "database")
    BY <2>2, BothComputeTheSame
  <2>4. TablesAgree'
    BY <2>2, <2>3, Zenon DEF Computed, TablesAgree, Loaders
  <2> QED BY <2>1, <2>4 DEF TablesInv
<1>3. TablesInv => TablesAgree
  BY DEF TablesInv
<1> QED BY <1>1, <1>2, <1>3, PTL DEF ExportsSpec

-----------------------------------------------------------------------------
(* Scopes read from the indentation.                                       *)

\* A text of logical lines.
IsDocument(doc) == \E n \in Nat : DOMAIN doc = 1 .. n /\ \A i \in 1 .. n : doc[i].indent \in Nat

Defines(doc, i) == Kind(doc, i) \in {"def", "class"}
Entries(doc) == {ScopeEntry(doc, i) : i \in DOMAIN doc}

\* The stack lists the definitions at these lines, from the outermost inwards.
Lists(doc, stack, lines) ==
  /\ stack \in Seq(Entries(doc))
  /\ \A k, l \in 1 .. Len(stack) :
       k < l => stack[k].line < stack[l].line /\ stack[k].indent < stack[l].indent
  /\ \A k \in 1 .. Len(stack) : stack[k].line \in lines
  /\ \A j \in lines : \E k \in 1 .. Len(stack) : stack[k].line = j

\* The definitions whose suites may go on after line n.
OpenDefs(doc, n) ==
  {j \in 1 .. n : Defines(doc, j)
                  /\ \A k \in (j + 1) .. n : Code(doc, k) => doc[k].indent > doc[j].indent}

LEMMA MaxIs ==
  ASSUME NEW n \in Nat, NEW T \in SUBSET (0 .. n), T # {}
  PROVE  Max(T) \in T /\ \A x \in T : x <= Max(T)
<1> DEFINE U == {m \in 0 .. n : \A x \in T : x <= m}
<1>1. U \in SUBSET Nat /\ U # {}
  <2>1. n \in U
    OBVIOUS
  <2> QED BY <2>1
<1>2. PICK m \in U : \A u \in U : m <= u
  BY <1>1, NatLeast
<1>3. m \in T
  <2> SUFFICES ASSUME m \notin T PROVE FALSE
    OBVIOUS
  <2>1. \A x \in T : x < m
    BY <1>2
  <2>2. m - 1 \in U
    <3>1. PICK x \in T : TRUE
      OBVIOUS
    <3>2. m \in 0 .. n /\ x \in 0 .. n /\ x < m
      BY <2>1, <3>1
    <3>3. m - 1 \in 0 .. n /\ \A y \in T : y <= m - 1
      BY <2>1, <3>2
    <3> QED BY <3>3
  <2>3. m <= m - 1
    BY <1>2, <2>2
  <2>4. m \in Int
    BY <1>2
  <2> QED BY <2>3, <2>4
<1>4. \E x \in T : \A y \in T : x >= y
  BY <1>2, <1>3
<1>5. Max(T) \in T /\ \A y \in T : Max(T) >= y
  BY <1>4, Zenon DEF Max
<1> QED BY <1>5

\* An entry tells its line, and with it the rest.
LEMMA EntryIs ==
  ASSUME NEW doc, IsDocument(doc), NEW e \in Entries(doc)
  PROVE  /\ e.line \in DOMAIN doc /\ e.line \in Nat /\ e.indent \in Nat
         /\ e.kind = Kind(doc, e.line) /\ e.indent = doc[e.line].indent
         /\ e = ScopeEntry(doc, e.line)
<1>1. PICK n \in Nat : DOMAIN doc = 1 .. n /\ \A i \in 1 .. n : doc[i].indent \in Nat
  BY DEF IsDocument
<1>2. PICK i \in DOMAIN doc : e = ScopeEntry(doc, i)
  BY DEF Entries
<1>3. e.line = i /\ e.kind = Kind(doc, i) /\ e.indent = doc[i].indent
  BY <1>2 DEF ScopeEntry
<1> QED BY <1>1, <1>2, <1>3

\* What is left after popping are the definitions indented less.
LEMMA KeptLists ==
  ASSUME NEW doc, IsDocument(doc), NEW S, NEW A, Lists(doc, S, A), NEW indent \in Nat
  PROVE  Lists(doc, Kept(S, indent), {j \in A : doc[j].indent < indent})
<1> DEFINE T == {0} \union {k \in DOMAIN S : S[k].indent < indent}
           n == Max(T)
           K == Kept(S, indent)
<1>1. S \in Seq(Entries(doc)) /\ Len(S) \in Nat /\ DOMAIN S = 1 .. Len(S)
  BY LenProperties DEF Lists
<1>2. \A k \in 1 .. Len(S) : /\ S[k] \in Entries(doc) /\ S[k].line \in Nat /\ S[k].indent \in Nat
                             /\ S[k].indent = doc[S[k].line].indent
  BY <1>1, EntryIs, ElementOfSeq
<1>3. n \in T /\ (\A x \in T : x <= n) /\ n \in 0 .. Len(S)
  <2>1. T \in SUBSET (0 .. Len(S)) /\ T # {}
    BY <1>1
  <2> HIDE DEF T
  <2> QED BY <1>1, <2>1, MaxIs
<1> HIDE DEF n
<1>4. K = SubSeq(S, 1, n)
  BY DEF K, Kept, n
<1> HIDE DEF K
<1>5. K \in Seq(Entries(doc)) /\ Len(K) = n /\ \A k \in 1 .. n : K[k] = S[k]
  BY <1>1, <1>2, <1>3, <1>4, SubSeqProperties
<1>6. ASSUME NEW k \in 1 .. Len(S) PROVE S[k].indent < indent <=> k <= n
  <2>1. CASE S[k].indent < indent
    BY <2>1, <1>1, <1>3, <1>6
  <2>2. CASE k <= n
    <3>1. n \in DOMAIN S /\ S[n].indent < indent
      BY <2>2, <1>3, <1>6
    <3>2. k = n \/ S[k].indent < S[n].indent
      BY <2>2, <1>1, <1>3, <1>6 DEF Lists
    <3>3. S[k].indent \in Nat /\ S[n].indent \in Nat
      BY <3>1, <1>1, <1>2, <1>6
    <3>4. S[k].indent < indent
      BY <3>1, <3>2, <3>3
    <3> QED BY <3>4, <2>2
  <2> QED BY <2>1, <2>2
<1>7. \A k, l \in 1 .. Len(K) :
        k < l => K[k].line < K[l].line /\ K[k].indent < K[l].indent
  BY <1>1, <1>3, <1>5 DEF Lists
<1>8. ASSUME NEW k \in 1 .. Len(K) PROVE K[k].line \in {j \in A : doc[j].indent < indent}
  <2>1. k \in 1 .. Len(S) /\ K[k] = S[k] /\ k <= n
    BY <1>1, <1>3, <1>5, <1>8
  <2> QED BY <2>1, <1>2, <1>6 DEF Lists
<1>9. ASSUME NEW j \in A, doc[j].indent < indent PROVE \E k \in 1 .. Len(K) : K[k].line = j
  <2>1. PICK k \in 1 .. Len(S) : S[k].line = j
    BY DEF Lists
  <2>2. k <= n
    BY <2>1, <1>2, <1>6, <1>9
  <2> QED BY <2>1, <2>2, <1>1, <1>3, <1>5
<1> QED BY <1>5, <1>7, <1>8, <1>9 DEF Lists, K

\* A header is entered after the definitions around it.
LEMMA AppendLists ==
  ASSUME NEW doc, IsDocument(doc), NEW S, NEW A, Lists(doc, S, A), NEW i \in DOMAIN doc,
         \A j \in A : j < i /\ doc[j].indent < doc[i].indent
  PROVE  Lists(doc, Append(S, ScopeEntry(doc, i)), A \union {i})
<1> DEFINE e == ScopeEntry(doc, i)
           T == Append(S, e)
<1>1. S \in Seq(Entries(doc)) /\ Len(S) \in Nat /\ DOMAIN S = 1 .. Len(S)
  BY LenProperties DEF Lists
<1>2. e \in Entries(doc) /\ e.line = i /\ e.indent = doc[i].indent
  BY DEF Entries, ScopeEntry
<1>3. \A k \in 1 .. Len(S) : /\ S[k].line \in Nat /\ S[k].indent \in Nat /\ S[k].line \in A
                             /\ S[k].indent = doc[S[k].line].indent
  BY <1>1, EntryIs, ElementOfSeq DEF Lists
<1> HIDE DEF e
<1>4. /\ T \in Seq(Entries(doc)) /\ Len(T) = Len(S) + 1 /\ T[Len(S) + 1] = e
      /\ \A k \in 1 .. Len(S) : T[k] = S[k]
  BY <1>1, <1>2
<1> HIDE DEF T
<1>5. \A k, l \in 1 .. Len(T) :
        k < l => T[k].line < T[l].line /\ T[k].indent < T[l].indent
  <2> SUFFICES ASSUME NEW k \in 1 .. Len(T), NEW l \in 1 .. Len(T), k < l
               PROVE  T[k].line < T[l].line /\ T[k].indent < T[l].indent
    OBVIOUS
  <2>1. k \in 1 .. Len(S) /\ T[k] = S[k]
    BY <1>1, <1>4
  <2>2. CASE l = Len(S) + 1
    BY <2>1, <2>2, <1>2, <1>3, <1>4
  <2>3. CASE l # Len(S) + 1
    <3>1. l \in 1 .. Len(S) /\ T[l] = S[l]
      BY <2>3, <1>1, <1>4
    <3> QED BY <2>1, <3>1 DEF Lists
  <2> QED BY <2>2, <2>3
<1>6. \A k \in 1 .. Len(T) : T[k].line \in A \union {i}
  BY <1>1, <1>2, <1>3, <1>4
<1>7. ASSUME NEW j \in A \union {i} PROVE \E k \in 1 .. Len(T) : T[k].line = j
  <2>1. CASE j = i
    BY <2>1, <1>1, <1>2, <1>4
  <2>2. CASE j # i
    <3>1. PICK k \in 1 .. Len(S) : S[k].line = j
      BY <2>2, <1>7 DEF Lists
    <3> QED BY <3>1, <1>1, <1>4
  <2> QED BY <2>1, <2>2
<1> QED BY <1>4, <1>5, <1>6, <1>7 DEF Lists, T, e

\* One line read: what it leaves open are the definitions around it.
LEMMA StillOpenLists ==
  ASSUME NEW doc, IsDocument(doc), NEW i \in DOMAIN doc, NEW S, Lists(doc, S, OpenDefs(doc, i - 1))
  PROVE  Lists(doc, StillOpen(doc, S, i), Around(doc, i))
<1>1. PICK n \in Nat : DOMAIN doc = 1 .. n /\ \A j \in 1 .. n : doc[j].indent \in Nat
  BY DEF IsDocument
<1>2. i \in 1 .. n /\ i - 1 \in Nat
  BY <1>1
<1>3. CASE Code(doc, i)
  <2>1. Around(doc, i) = {j \in OpenDefs(doc, i - 1) : doc[j].indent < doc[i].indent}
    <3>1. ASSUME NEW j \in Around(doc, i)
          PROVE  j \in OpenDefs(doc, i - 1) /\ doc[j].indent < doc[i].indent
      BY <1>1, <1>2, <1>3, <3>1 DEF Around, Encloses, OpenDefs, Defines
    <3>2. ASSUME NEW j \in OpenDefs(doc, i - 1), doc[j].indent < doc[i].indent
          PROVE  j \in Around(doc, i)
      BY <1>1, <1>2, <1>3, <3>2 DEF Around, Encloses, OpenDefs, Defines, Headers
    <3> QED BY <3>1, <3>2
  <2> QED BY <2>1, <1>1, <1>2, <1>3, KeptLists DEF StillOpen
<1>4. CASE ~Code(doc, i)
  <2>1. Around(doc, i) = OpenDefs(doc, i - 1)
    <3>1. ASSUME NEW j \in Around(doc, i) PROVE j \in OpenDefs(doc, i - 1)
      BY <1>1, <1>2, <1>4, <3>1 DEF Around, Encloses, OpenDefs, Defines
    <3>2. ASSUME NEW j \in OpenDefs(doc, i - 1) PROVE j \in Around(doc, i)
      BY <1>1, <1>2, <1>4, <3>2 DEF Around, Encloses, OpenDefs, Defines, Headers
    <3> QED BY <3>1, <3>2
  <2> QED BY <2>1, <1>4 DEF StillOpen
<1> QED BY <1>3, <1>4

LEMMA OpenWithLists ==
  ASSUME NEW doc, IsDocument(doc), NEW i \in DOMAIN doc, NEW S, Lists(doc, S, OpenDefs(doc, i - 1))
  PROVE  Lists(doc, OpenWith(doc, S, i), OpenDefs(doc, i))
<1>1. PICK n \in Nat : DOMAIN doc = 1 .. n /\ \A j \in 1 .. n : doc[j].indent \in Nat
  BY DEF IsDocument
<1>2. i \in 1 .. n
  BY <1>1
<1>3. Lists(doc, StillOpen(doc, S, i), Around(doc, i))
  BY StillOpenLists
<1>4. CASE Defines(doc, i)
  <2>1. Code(doc, i)
    BY <1>4 DEF Defines, Code, Kind
  <2>2. OpenDefs(doc, i) = Around(doc, i) \union {i}
    <3>1. ASSUME NEW j \in Around(doc, i) PROVE j \in OpenDefs(doc, i)
      BY <1>1, <1>2, <3>1 DEF Around, Encloses, OpenDefs, Defines
    <3>2. i \in OpenDefs(doc, i)
      BY <1>2, <1>4 DEF OpenDefs
    <3>3. ASSUME NEW j \in OpenDefs(doc, i), j # i PROVE j \in Around(doc, i)
      BY <1>1, <1>2, <3>3 DEF Around, Encloses, OpenDefs, Defines, Headers
    <3> QED BY <3>1, <3>2, <3>3
  <2>3. \A j \in Around(doc, i) : j < i /\ doc[j].indent < doc[i].indent
    BY <1>1, <1>2, <2>1 DEF Around, Encloses
  <2>4. Lists(doc, Append(StillOpen(doc, S, i), ScopeEntry(doc, i)), Around(doc, i) \union {i})
    BY <1>3, <2>3, AppendLists
  <2> QED BY <2>2, <2>4, <1>4 DEF OpenWith, Defines
<1>5. CASE ~Defines(doc, i)
  <2>1. OpenDefs(doc, i) = Around(doc, i)
    <3>1. ASSUME NEW j \in Around(doc, i) PROVE j \in OpenDefs(doc, i)
      BY <1>1, <1>2, <3>1 DEF Around, Encloses, OpenDefs, Defines
    <3>2. ASSUME NEW j \in OpenDefs(doc, i) PROVE j \in Around(doc, i)
      BY <1>1, <1>2, <1>5, <3>2 DEF Around, Encloses, OpenDefs, Defines, Headers
    <3> QED BY <3>1, <3>2
  <2> QED BY <2>1, <1>3, <1>5 DEF OpenWith, Defines
<1> QED BY <1>4, <1>5

\* The stack after each of the first n lines.
IsReading(doc, n, open) ==
  open = [i \in 0 .. n |-> IF i = 0 THEN <<>> ELSE OpenWith(doc, open[i - 1], i)]

LEMMA ReadingGrows ==
  ASSUME NEW doc, NEW n \in Nat, n # 0, NEW g, IsReading(doc, n - 1, g)
  PROVE  \E f : IsReading(doc, n, f)
<1> DEFINE f == [i \in 0 .. n |-> IF i = 0 THEN <<>> ELSE OpenWith(doc, g[i - 1], i)]
<1>1. \A i \in 0 .. n : f[i] = IF i = 0 THEN <<>> ELSE OpenWith(doc, g[i - 1], i)
  OBVIOUS
<1>2. ASSUME NEW j \in 0 .. n - 1
      PROVE  g[j] = IF j = 0 THEN <<>> ELSE OpenWith(doc, g[j - 1], j)
  BY <1>2, Zenon DEF IsReading
<1>3. ASSUME NEW j \in 0 .. n - 1 PROVE f[j] = g[j]
  <2>1. j \in 0 .. n
    OBVIOUS
  <2> QED BY <2>1, <1>1, <1>2, Zenon
<1>4. ASSUME NEW i \in 0 .. n, i # 0 PROVE f[i - 1] = g[i - 1]
  <2>1. i - 1 \in 0 .. n - 1
    BY <1>4
  <2> QED BY <2>1, <1>3
<1>5. f = [i \in 0 .. n |-> IF i = 0 THEN <<>> ELSE OpenWith(doc, f[i - 1], i)]
  <2> HIDE DEF f
  <2>1. ASSUME NEW i \in 0 .. n
        PROVE  f[i] = IF i = 0 THEN <<>> ELSE OpenWith(doc, f[i - 1], i)
    BY <1>1, <1>4
  <2>2. f = [i \in 0 .. n |-> f[i]]
    BY DEF f
  <2> QED BY <2>1, <2>2
<1> QED BY <1>5 DEF IsReading

LEMMA ReadingExists ==
  ASSUME NEW doc, NEW n \in Nat
  PROVE  \E f : IsReading(doc, n, f)
<1> DEFINE T == {k \in Nat : ~ \E f : IsReading(doc, k, f)}
<1>1. SUFFICES ASSUME T # {} PROVE FALSE
  OBVIOUS
<1>2. PICK k \in T : \A l \in T : k <= l
  BY <1>1, NatLeast
<1>3. k \in Nat /\ ~ \E f : IsReading(doc, k, f)
  BY <1>2
<1>4. CASE k = 0
  <2> DEFINE f == [i \in 0 .. 0 |-> <<>>]
  <2>1. f = [i \in 0 .. 0 |-> IF i = 0 THEN <<>> ELSE OpenWith(doc, f[i - 1], i)]
    OBVIOUS
  <2>2. IsReading(doc, 0, f)
    BY <2>1, Zenon DEF IsReading
  <2> QED BY <2>2, <1>3, <1>4, Zenon
<1>5. CASE k # 0
  <2>1. k - 1 \in Nat /\ ~(k <= k - 1)
    BY <1>3, <1>5
  <2>2. k - 1 \notin T
    BY <1>2, <2>1, Zenon
  <2>3. PICK g : IsReading(doc, k - 1, g)
    BY <2>1, <2>2, Zenon
  <2> QED BY <2>3, <1>3, <1>5, ReadingGrows, Zenon
<1> QED BY <1>4, <1>5

\* Reading a text leaves the definitions on the stack whose suites may go on.
LEMMA OpenAfterLists ==
  ASSUME NEW doc, IsDocument(doc), NEW n \in Nat, n = 0 \/ n \in DOMAIN doc
  PROVE  Lists(doc, OpenAfter(doc, n), OpenDefs(doc, n))
<1> DEFINE open == CHOOSE f : IsReading(doc, n, f)
<1>1. IsReading(doc, n, open)
  BY ReadingExists
<1>2. OpenAfter(doc, n) = open[n]
  BY Zenon DEF OpenAfter, IsReading
<1> HIDE DEF open
<1>3. \A i \in 0 .. n : open[i] = IF i = 0 THEN <<>> ELSE OpenWith(doc, open[i - 1], i)
  BY <1>1, Zenon DEF IsReading
<1>4. PICK len \in Nat : DOMAIN doc = 1 .. len
  BY DEF IsDocument
<1> DEFINE T == {i \in 0 .. n : ~ Lists(doc, open[i], OpenDefs(doc, i))}
<1>5. T = {}
  <2> SUFFICES ASSUME T # {} PROVE FALSE
    OBVIOUS
  <2>1. T \in SUBSET Nat
    OBVIOUS
  <2>2. PICK i \in T : \A j \in T : i <= j
    BY <2>1, NatLeast
  <2>3. CASE i = 0
    <3>1. open[0] = <<>>
      BY <1>3
    <3>2. OpenDefs(doc, 0) = {}
      BY DEF OpenDefs
    <3>3. Lists(doc, <<>>, {})
      BY DEF Lists
    <3> QED BY <2>2, <2>3, <3>1, <3>2, <3>3
  <2>4. CASE i # 0
    <3>1. i \in DOMAIN doc /\ i - 1 \in 0 .. n /\ ~(i <= i - 1) /\ i \in 0 .. n
      BY <1>4, <2>2, <2>4
    <3>2. Lists(doc, open[i - 1], OpenDefs(doc, i - 1))
      BY <2>2, <3>1
    <3>3. Lists(doc, OpenWith(doc, open[i - 1], i), OpenDefs(doc, i))
      BY <3>1, <3>2, OpenWithLists
    <3> QED BY <1>3, <2>2, <2>4, <3>1, <3>3
  <2> QED BY <2>3, <2>4
<1> QED BY <1>2, <1>5

-----------------------------------------------------------------------------
(* Scopes by the line that opens them.                                     *)

\* A scope and those around it.
Chain(doc, m) == IF m = 0 THEN {} ELSE Around(doc, m) \union {m}

IsScope(doc, S, m) ==
  /\ m = 0 \/ (m \in DOMAIN doc /\ Defines(doc, m))
  /\ Lists(doc, S, Chain(doc, m))

\* What is around a definition is what is around its body's lines, further out.
LEMMA AroundNests ==
  ASSUME NEW doc, IsDocument(doc), NEW i \in DOMAIN doc, NEW h \in Around(doc, i)
  PROVE  /\ h \in DOMAIN doc /\ Defines(doc, h) /\ h < i
         /\ Around(doc, h) = {j \in Around(doc, i) : j < h}
<1>1. PICK n \in Nat : DOMAIN doc = 1 .. n /\ \A j \in 1 .. n : doc[j].indent \in Nat
  BY DEF IsDocument
<1>2. /\ h \in 1 .. n /\ i \in 1 .. n /\ h < i /\ Defines(doc, h) /\ Code(doc, h)
      /\ \A k \in (h + 1) .. i : Code(doc, k) => doc[k].indent > doc[h].indent
  BY <1>1 DEF Around, Encloses, Defines, Code, Kind
<1>3. ASSUME NEW j \in Around(doc, h) PROVE j \in Around(doc, i) /\ j < h
  <2>1. /\ j \in 1 .. (h - 1) /\ Kind(doc, j) \in {"def", "class"} /\ Kind(doc, j) \in Headers
        /\ \A k \in (j + 1) .. h : Code(doc, k) => doc[k].indent > doc[j].indent
    BY <1>3 DEF Around, Encloses
  <2>2. doc[h].indent > doc[j].indent
    BY <1>2, <2>1
  <2>3. ASSUME NEW k \in (j + 1) .. i, Code(doc, k) PROVE doc[k].indent > doc[j].indent
    <3>1. CASE k <= h
      BY <1>2, <2>1, <2>3, <3>1
    <3>2. CASE ~(k <= h)
      BY <1>1, <1>2, <2>1, <2>2, <2>3, <3>2
    <3> QED BY <3>1, <3>2
  <2> QED BY <1>2, <2>1, <2>3 DEF Around, Encloses
<1>4. ASSUME NEW j \in Around(doc, i), j < h PROVE j \in Around(doc, h)
  BY <1>2, <1>4 DEF Around, Encloses
<1> QED BY <1>1, <1>2, <1>3, <1>4

\* A line's own scope is the innermost one around it.
LEMMA OwnScopeIs ==
  ASSUME NEW doc, IsDocument(doc), NEW i \in DOMAIN doc
  PROVE  /\ OwnScope(doc, i) \in {0} \union Around(doc, i)
         /\ \A h \in Around(doc, i) : h <= OwnScope(doc, i)
         /\ OwnScope(doc, i) < i /\ OwnScope(doc, i) \in Nat
         /\ Around(doc, i) = Chain(doc, OwnScope(doc, i))
<1>1. PICK n \in Nat : DOMAIN doc = 1 .. n
  BY DEF IsDocument
<1>2. i \in 1 .. n
  BY <1>1
<1> DEFINE T == {0} \union Around(doc, i)
<1>3. T \in SUBSET (0 .. n) /\ T # {} /\ \A h \in T : h < i
  BY <1>2 DEF Around
<1>4. Max(T) \in T /\ \A h \in T : h <= Max(T)
  <2> HIDE DEF T
  <2> QED BY <1>3, MaxIs
<1>5. /\ OwnScope(doc, i) \in {0} \union Around(doc, i)
      /\ \A h \in Around(doc, i) : h <= OwnScope(doc, i)
      /\ OwnScope(doc, i) < i /\ OwnScope(doc, i) \in Nat
  BY <1>3, <1>4 DEF OwnScope
<1>6. CASE OwnScope(doc, i) = 0
  <2>1. Around(doc, i) = {}
    BY <1>2, <1>5, <1>6 DEF Around
  <2> QED BY <1>5, <1>6, <2>1 DEF Chain
<1>7. CASE OwnScope(doc, i) # 0
  <2>1. OwnScope(doc, i) \in Around(doc, i)
    BY <1>5, <1>7
  <2>2. Around(doc, OwnScope(doc, i)) = {j \in Around(doc, i) : j < OwnScope(doc, i)}
    BY <2>1, AroundNests
  <2>3. \A h \in Around(doc, i) : h \in Nat
    BY <1>2 DEF Around
  <2> QED BY <1>5, <1>7, <2>1, <2>2, <2>3 DEF Chain
<1> QED BY <1>5, <1>6, <1>7

\* The scope the source reads for a line is the line's own.
LEMMA LineScope ==
  ASSUME NEW doc, IsDocument(doc), NEW i \in DOMAIN doc
  PROVE  IsScope(doc, DefinitionScope(doc, i), OwnScope(doc, i))
<1>1. PICK n \in Nat : DOMAIN doc = 1 .. n
  BY DEF IsDocument
<1>2. i \in 1 .. n
  BY <1>1
<1>3. Lists(doc, OpenAfter(doc, i - 1), OpenDefs(doc, i - 1))
  BY <1>1, <1>2, OpenAfterLists
<1>4. Lists(doc, DefinitionScope(doc, i), Around(doc, i))
  BY <1>3, StillOpenLists DEF DefinitionScope
<1>5. \/ OwnScope(doc, i) = 0
      \/ OwnScope(doc, i) \in DOMAIN doc /\ Defines(doc, OwnScope(doc, i))
  BY OwnScopeIs, AroundNests
<1> QED BY <1>4, <1>5, OwnScopeIs DEF IsScope

\* The scope of a parameter is that of the function it is written at.
LEMMA ParameterScope ==
  ASSUME NEW doc, IsDocument(doc), NEW f \in DOMAIN doc, Kind(doc, f) = "def"
  PROVE  IsScope(doc, Append(DefinitionScope(doc, f), ScopeEntry(doc, f)), f)
<1>1. PICK n \in Nat : DOMAIN doc = 1 .. n
  BY DEF IsDocument
<1>2. f \in 1 .. n
  BY <1>1
<1>3. Lists(doc, DefinitionScope(doc, f), Around(doc, f))
  BY LineScope, OwnScopeIs DEF IsScope
<1>4. ASSUME NEW j \in Around(doc, f) PROVE j < f /\ doc[j].indent < doc[f].indent
  <2>1. Code(doc, f)
    BY DEF Code, Kind
  <2> QED BY <1>2, <1>4, <2>1 DEF Around, Encloses
<1>5. Lists(doc, Append(DefinitionScope(doc, f), ScopeEntry(doc, f)), Around(doc, f) \union {f})
  BY <1>3, <1>4, AppendLists
<1> QED BY <1>2, <1>5 DEF IsScope, Chain, Defines


\* A scope's stack ends in the line that opens it.
LEMMA ScopeTop ==
  ASSUME NEW doc, IsDocument(doc), NEW S, NEW m, IsScope(doc, S, m)
  PROVE  /\ S \in Seq(Entries(doc)) /\ Len(S) \in Nat /\ m \in Nat
         /\ m = 0 <=> Len(S) = 0
         /\ Len(S) > 0 => S[Len(S)].line = m /\ S[Len(S)].kind = Kind(doc, m)
<1>1. PICK n \in Nat : DOMAIN doc = 1 .. n
  BY DEF IsDocument
<1>2. S \in Seq(Entries(doc)) /\ Len(S) \in Nat /\ m \in Nat
  BY <1>1, LenProperties DEF IsScope, Lists
<1>3. /\ \A k \in 1 .. Len(S) : S[k].line \in Chain(doc, m)
      /\ \A j \in Chain(doc, m) : \E k \in 1 .. Len(S) : S[k].line = j
      /\ \A k, l \in 1 .. Len(S) : k < l => S[k].line < S[l].line
  BY DEF IsScope, Lists
<1>4. CASE m = 0
  <2>1. Chain(doc, m) = {}
    BY <1>4 DEF Chain
  <2>2. Len(S) = 0
    BY <1>2, <1>3, <2>1
  <2> QED BY <1>2, <1>4, <2>2
<1>5. CASE m # 0
  <2>1. m \in Chain(doc, m) /\ \A j \in Chain(doc, m) : j <= m /\ j \in Nat
    BY <1>1, <1>2, <1>5 DEF Chain, Around
  <2>2. PICK k \in 1 .. Len(S) : S[k].line = m
    BY <1>3, <2>1
  <2>3. Len(S) \in 1 .. Len(S)
    BY <1>2, <2>2
  <2>4. S[Len(S)].line <= m /\ S[Len(S)].line \in Nat
    BY <1>3, <2>1, <2>3
  <2>5. k = Len(S)
    <3> SUFFICES ASSUME k # Len(S) PROVE FALSE
      OBVIOUS
    <3>1. k < Len(S)
      BY <1>2, <2>2
    <3>2. S[k].line < S[Len(S)].line
      BY <1>3, <2>3, <3>1
    <3> QED BY <2>2, <2>4, <3>2, <1>2
  <2>6. S[Len(S)] \in Entries(doc)
    BY <1>2, <2>3, ElementOfSeq
  <2>7. S[Len(S)].kind = Kind(doc, m)
    BY <2>2, <2>5, <2>6, EntryIs
  <2> QED BY <1>2, <1>5, <2>2, <2>3, <2>5, <2>7
<1> QED BY <1>4, <1>5

\* Prefixes, entry by entry.
LEMMA PrefixIs ==
  ASSUME NEW E, NEW S \in Seq(E), NEW T \in Seq(E)
  PROVE  IsPrefix(S, T) <=> /\ Len(S) <= Len(T)
                            /\ \A k \in 1 .. Len(S) : S[k] = T[k]
<1>1. Len(S) \in Nat /\ Len(T) \in Nat
  BY LenProperties
<1>2. SubSeq(S, 1, Len(S)) \in Seq(E) /\ Len(SubSeq(S, 1, Len(S))) = Len(S)
      /\ \A k \in 1 .. Len(S) : SubSeq(S, 1, Len(S))[k] = S[k]
  <2>1. \A k \in 1 .. Len(S) : S[k] \in E
    BY ElementOfSeq
  <2> QED BY <1>1, <2>1, SubSeqProperties
<1>3. ASSUME Len(S) <= Len(T)
      PROVE  SubSeq(T, 1, Len(S)) \in Seq(E) /\ Len(SubSeq(T, 1, Len(S))) = Len(S)
             /\ \A k \in 1 .. Len(S) : SubSeq(T, 1, Len(S))[k] = T[k]
  <2>1. \A k \in 1 .. Len(S) : T[k] \in E
    BY <1>1, <1>3, ElementOfSeq
  <2> QED BY <1>1, <2>1, SubSeqProperties
<1>4. CASE ~(Len(S) <= Len(T))
  BY <1>4 DEF IsPrefix
<1>5. CASE Len(S) <= Len(T)
  <2> DEFINE s == SubSeq(S, 1, Len(S))
             u == SubSeq(T, 1, Len(S))
  <2>1. /\ s \in Seq(E) /\ Len(s) = Len(S) /\ \A k \in 1 .. Len(S) : s[k] = S[k]
        /\ u \in Seq(E) /\ Len(u) = Len(S) /\ \A k \in 1 .. Len(S) : u[k] = T[k]
    BY <1>2, <1>3, <1>5
  <2>2. IsPrefix(S, T) <=> s = u
    BY <1>5 DEF IsPrefix
  <2> HIDE DEF s, u
  <2>3. CASE s = u
    BY <1>5, <2>1, <2>2, <2>3
  <2>4. CASE \A k \in 1 .. Len(S) : S[k] = T[k]
    <3>1. \A k \in 1 .. Len(s) : s[k] = u[k]
      BY <2>1, <2>4
    <3>2. s = u
      BY <2>1, <3>1, SeqEqual
    <3> QED BY <1>5, <2>2, <2>4, <3>2
  <2> QED BY <1>5, <2>2, <2>3, <2>4
<1> QED BY <1>4, <1>5

\* A stack that lists the outer definitions of another is a prefix of it.
LEMMA OuterIsPrefix ==
  ASSUME NEW doc, IsDocument(doc), NEW S, NEW A, Lists(doc, S, A), NEW T, NEW B, Lists(doc, T, B),
         A \subseteq B, \A h \in A, j \in B : j < h => j \in A
  PROVE  IsPrefix(S, T)
<1>1. /\ S \in Seq(Entries(doc)) /\ Len(S) \in Nat
      /\ T \in Seq(Entries(doc)) /\ Len(T) \in Nat
  BY LenProperties DEF Lists
<1>2. /\ \A k \in 1 .. Len(S) : S[k].line \in Nat /\ S[k] = ScopeEntry(doc, S[k].line)
      /\ \A k \in 1 .. Len(T) : T[k].line \in Nat /\ T[k] = ScopeEntry(doc, T[k].line)
  BY <1>1, EntryIs, ElementOfSeq
<1>3. /\ \A k, l \in 1 .. Len(S) : k < l => S[k].line < S[l].line
      /\ \A k, l \in 1 .. Len(T) : k < l => T[k].line < T[l].line
      /\ \A k \in 1 .. Len(S) : S[k].line \in A
      /\ \A k \in 1 .. Len(T) : T[k].line \in B
      /\ \A j \in A : \E k \in 1 .. Len(S) : S[k].line = j
      /\ \A j \in B : \E k \in 1 .. Len(T) : T[k].line = j
  BY DEF Lists
<1> DEFINE Bad == {k \in 1 .. Len(S) : ~(k <= Len(T) /\ S[k].line = T[k].line)}
<1>4. Bad = {}
  <2> SUFFICES ASSUME Bad # {} PROVE FALSE
    OBVIOUS
  <2>1. Bad \in SUBSET Nat
    BY <1>1
  <2>2. PICK k \in Bad : \A l \in Bad : k <= l
    BY <2>1, NatLeast
  <2>3. k \in 1 .. Len(S) /\ ~(k <= Len(T) /\ S[k].line = T[k].line)
    BY <2>2
  <2>4. ASSUME NEW l \in 1 .. Len(S), l < k
        PROVE  l \in 1 .. Len(T) /\ S[l].line = T[l].line /\ S[l].line < S[k].line
    <3>1. l \notin Bad
      BY <2>2, <2>3, <2>4, <1>1
    <3>2. S[l].line < S[k].line
      BY <1>3, <2>3, <2>4
    <3> QED BY <3>1, <3>2, <2>4, <1>1
  <2> HIDE DEF Bad
  <2>5. PICK l \in 1 .. Len(T) : T[l].line = S[k].line
    BY <1>3, <2>3
  <2>6. ~(l < k)
    <3> SUFFICES ASSUME l < k PROVE FALSE
      OBVIOUS
    <3>1. l \in 1 .. Len(S)
      BY <1>1, <2>3, <2>5
    <3>2. S[l].line = T[l].line /\ S[l].line < S[k].line
      BY <2>4, <3>1
    <3> QED BY <1>2, <2>3, <2>5, <3>1, <3>2
  <2>7. ~(k < l)
    <3> SUFFICES ASSUME k < l PROVE FALSE
      OBVIOUS
    <3>1. k \in 1 .. Len(T)
      BY <1>1, <2>3, <2>5
    <3>2. T[k].line < S[k].line
      BY <1>3, <2>5, <3>1
    <3>3. T[k].line \in A
      BY <1>3, <2>3, <3>1, <3>2
    <3>4. PICK j \in 1 .. Len(S) : S[j].line = T[k].line
      BY <1>3, <3>3
    <3>5. j < k
      <4> SUFFICES ASSUME ~(j < k) PROVE FALSE
        OBVIOUS
      <4>1. j = k \/ S[k].line < S[j].line
        BY <1>1, <1>3, <2>3, <3>4
      <4>2. S[k].line \in Nat /\ S[j].line \in Nat
        BY <1>2, <2>3, <3>4
      <4> QED BY <3>2, <3>4, <4>1, <4>2
    <3>6. j \in 1 .. Len(T) /\ T[j].line = T[k].line
      BY <2>4, <3>4, <3>5
    <3>7. T[j].line < T[k].line
      BY <1>3, <3>1, <3>5, <3>6
    <3> QED BY <1>2, <3>1, <3>6, <3>7
  <2>8. k = l
    BY <1>1, <2>3, <2>5, <2>6, <2>7
  <2> QED BY <2>3, <2>5, <2>8, <1>1
<1>5. Len(S) <= Len(T)
  <2>1. CASE Len(S) = 0
    BY <2>1, <1>1
  <2>2. CASE Len(S) # 0
    <3>1. Len(S) \in 1 .. Len(S)
      BY <1>1, <2>2
    <3> QED BY <3>1, <1>4
  <2> QED BY <2>1, <2>2
<1>6. ASSUME NEW k \in 1 .. Len(S) PROVE S[k] = T[k]
  <2>1. k \in 1 .. Len(T) /\ S[k].line = T[k].line
    BY <1>1, <1>4, <1>5
  <2> QED BY <2>1, <1>2
<1> QED BY <1>1, <1>5, <1>6, PrefixIs


-----------------------------------------------------------------------------
(* What VisibleFrom sees.                                                  *)

\* The scopes visible from a line are those Python searches for it.
LEMMA VisibleIff ==
  ASSUME NEW doc, IsDocument(doc), NEW t \in DOMAIN doc, NEW S, NEW m, IsScope(doc, S, m)
  PROVE  VisibleFrom(S, DefinitionScope(doc, t)) <=> m \in Searched(doc, t)
<1> DEFINE here == DefinitionScope(doc, t)
           own == OwnScope(doc, t)
<1>1. IsScope(doc, here, own)
  BY LineScope
<1>2. /\ own \in {0} \union Around(doc, t) /\ own \in Nat
      /\ \A h \in Around(doc, t) : h <= own
      /\ Around(doc, t) = Chain(doc, own)
  BY OwnScopeIs
<1> HIDE DEF here, own
<1>3. /\ S \in Seq(Entries(doc)) /\ Len(S) \in Nat /\ m \in Nat
      /\ m = 0 <=> Len(S) = 0
      /\ Len(S) > 0 => S[Len(S)].line = m /\ S[Len(S)].kind = Kind(doc, m)
  BY ScopeTop
<1>4. /\ here \in Seq(Entries(doc)) /\ Len(here) \in Nat
      /\ own = 0 <=> Len(here) = 0
      /\ Len(here) > 0 => here[Len(here)].line = own
  BY <1>1, ScopeTop
<1>5. Lists(doc, here, Around(doc, t)) /\ Lists(doc, S, Chain(doc, m))
  BY <1>1, <1>2 DEF IsScope
<1>6. Searched(doc, t) = {0, own} \union {f \in Around(doc, t) : Kind(doc, f) = "def"}
  BY DEF Searched, own
<1>7. VisibleFrom(S, here) <=> /\ IsPrefix(S, here)
                               /\ Len(S) = 0 \/ Len(S) = Len(here) \/ S[Len(S)].kind = "def"
  BY DEF VisibleFrom, Last
<1>8. ASSUME VisibleFrom(S, here) PROVE m \in Searched(doc, t)
  <2>1. Len(S) <= Len(here) /\ \A k \in 1 .. Len(S) : S[k] = here[k]
    BY <1>3, <1>4, <1>7, <1>8, PrefixIs
  <2>2. CASE Len(S) = 0
    BY <2>2, <1>3, <1>6
  <2>3. CASE Len(S) # 0 /\ Len(S) = Len(here)
    <3>1. S[Len(S)] = here[Len(here)]
      BY <2>1, <2>3, <1>3
    <3> QED BY <3>1, <2>3, <1>3, <1>4, <1>6
  <2>4. CASE Len(S) # 0 /\ S[Len(S)].kind = "def"
    <3>1. Len(S) \in 1 .. Len(here) /\ S[Len(S)] = here[Len(S)]
      BY <2>1, <2>4, <1>3, <1>4
    <3>2. m \in Around(doc, t)
      BY <3>1, <2>4, <1>3, <1>5 DEF Lists
    <3> QED BY <3>2, <2>4, <1>3, <1>6
  <2> QED BY <2>2, <2>3, <2>4, <1>7, <1>8
<1>9. ASSUME m \in Around(doc, t) \/ m = 0
      PROVE  IsPrefix(S, here) /\ (m = own => Len(S) = Len(here))
  <2>1. /\ Chain(doc, m) \subseteq Around(doc, t)
        /\ \A h \in Chain(doc, m), j \in Around(doc, t) : j < h => j \in Chain(doc, m)
    <3>1. CASE m = 0
      BY <3>1 DEF Chain
    <3>2. CASE m # 0
      <4>1. m \in Around(doc, t) /\ Around(doc, m) = {j \in Around(doc, t) : j < m}
        BY <3>2, <1>9, AroundNests
      <4>2. \A j \in Around(doc, t) : j \in Nat
        BY <1>5, OwnScopeIs, AroundNests DEF IsDocument
      <4>3. Chain(doc, m) = {j \in Around(doc, t) : j < m} \union {m}
        BY <3>2, <4>1 DEF Chain
      <4>4. ASSUME NEW h \in Chain(doc, m), NEW j \in Around(doc, t), j < h PROVE j < m
        BY <4>2, <4>3, <4>4, <1>3
      <4> QED BY <4>1, <4>3, <4>4
    <3> QED BY <3>1, <3>2
  <2>2. IsPrefix(S, here)
    BY <2>1, <1>5, OuterIsPrefix
  <2>3. ASSUME m = own PROVE Len(S) = Len(here)
    <3>1. Lists(doc, S, Around(doc, t))
      BY <2>3, <1>2, <1>5
    <3>2. IsPrefix(here, S)
      BY <3>1, <1>5, OuterIsPrefix
    <3> QED BY <2>2, <3>2, <1>3, <1>4 DEF IsPrefix
  <2> QED BY <2>2, <2>3
<1>10. ASSUME m \in Searched(doc, t) PROVE VisibleFrom(S, here)
  <2>1. CASE m = 0
    BY <2>1, <1>3, <1>7, <1>9
  <2>2. CASE m = own
    BY <2>2, <1>2, <1>7, <1>9
  <2>3. CASE m \in Around(doc, t) /\ Kind(doc, m) = "def" /\ m # 0
    BY <2>3, <1>3, <1>7, <1>9
  <2> QED BY <2>1, <2>2, <2>3, <1>6, <1>10
<1> QED BY <1>8, <1>10 DEF here

\* Of two scopes visible from one line the longer is the inner one.
LEMMA VisibleOrder ==
  ASSUME NEW doc, IsDocument(doc), NEW t \in DOMAIN doc,
         NEW S, NEW m, IsScope(doc, S, m), VisibleFrom(S, DefinitionScope(doc, t)),
         NEW T, NEW j, IsScope(doc, T, j), VisibleFrom(T, DefinitionScope(doc, t))
  PROVE  /\ Len(S) < Len(T) => m < j
         /\ Len(S) = Len(T) => m = j /\ S = T
<1> DEFINE here == DefinitionScope(doc, t)
<1>1. IsScope(doc, here, OwnScope(doc, t)) /\ IsPrefix(S, here) /\ IsPrefix(T, here)
  BY LineScope DEF VisibleFrom
<1> HIDE DEF here
<1>2. /\ S \in Seq(Entries(doc)) /\ Len(S) \in Nat /\ m \in Nat
      /\ m = 0 <=> Len(S) = 0
      /\ Len(S) > 0 => S[Len(S)].line = m
      /\ T \in Seq(Entries(doc)) /\ Len(T) \in Nat /\ j \in Nat
      /\ j = 0 <=> Len(T) = 0
      /\ Len(T) > 0 => T[Len(T)].line = j
      /\ here \in Seq(Entries(doc)) /\ Len(here) \in Nat
  BY <1>1, ScopeTop
<1>3. /\ Len(S) <= Len(here) /\ \A k \in 1 .. Len(S) : S[k] = here[k]
      /\ Len(T) <= Len(here) /\ \A k \in 1 .. Len(T) : T[k] = here[k]
  BY <1>1, <1>2, PrefixIs
<1>4. ASSUME Len(S) < Len(T) PROVE m < j
  <2>1. CASE Len(S) = 0
    BY <1>2, <1>4, <2>1
  <2>2. CASE Len(S) # 0
    <3>1. Len(S) \in 1 .. Len(T) /\ Len(T) \in 1 .. Len(T) /\ S[Len(S)] = T[Len(S)]
      BY <1>2, <1>3, <1>4, <2>2
    <3>2. T[Len(S)].line < T[Len(T)].line
      BY <1>4, <3>1 DEF IsScope, Lists
    <3> QED BY <3>1, <3>2, <1>2, <2>2
  <2> QED BY <2>1, <2>2
<1>5. ASSUME Len(S) = Len(T) PROVE m = j /\ S = T
  <2>1. \A k \in 1 .. Len(S) : S[k] = T[k]
    BY <1>3, <1>5
  <2>2. S = T
    BY <1>2, <1>5, <2>1, SeqEqual
  <2> QED BY <1>2, <2>2
<1> QED BY <1>4, <1>5

-----------------------------------------------------------------------------
(* The candidates.                                                         *)

LEMMA SymbolsAre ==
  ASSUME NEW doc, NEW s \in Symbols(doc)
  PROVE  s.line \in DOMAIN doc /\ s.import \in BOOLEAN
<1>1. ASSUME NEW kinds, NEW named, NEW import \in BOOLEAN,
             NEW r \in Captures(doc, kinds, named, import)
      PROVE  r.line \in DOMAIN doc /\ r.import \in BOOLEAN
  BY <1>1 DEF Captures
<1>2. \/ s \in Declarations(doc) \/ s \in Imports(doc)
      \/ s \in Generators(doc) \/ s \in Assignments(doc)
  BY DEF Symbols
<1>3. CASE s \in Declarations(doc)
  BY <1>1, <1>3 DEF Declarations
<1>4. CASE s \in Imports(doc)
  BY <1>1, <1>4 DEF Imports
<1>5. CASE s \in Generators(doc)
  BY <1>1, <1>5 DEF Generators
<1>6. CASE s \in Assignments(doc)
  <2>1. s \in Captures(doc, {"assign"}, OwnName(doc), FALSE)
    BY <1>6 DEF Assignments
  <2> QED BY <1>1, <2>1
<1> QED BY <1>2, <1>3, <1>4, <1>5, <1>6

\* A binding the source weighs for a name used at line t.
IsCandidate(doc, t, c) ==
  /\ c.line \in DOMAIN doc /\ c.line <= t /\ c.parameter \in BOOLEAN
  /\ IsScope(doc, c.scope, ScopeOf(doc, c))
  /\ c.parameter => Kind(doc, c.line) = "def"
  /\ (c.parameter /\ c.line # t) => c.line \in Around(doc, t)

LEMMA SymbolIsCandidate ==
  ASSUME NEW doc, IsDocument(doc), NEW t \in DOMAIN doc, NEW n, NEW i \in DOMAIN doc, i <= t
  PROVE  IsCandidate(doc, t, [n |-> n, line |-> i, scope |-> DefinitionScope(doc, i), parameter |-> FALSE])
<1> DEFINE c == [n |-> n, line |-> i, scope |-> DefinitionScope(doc, i), parameter |-> FALSE]
<1>1. ScopeOf(doc, c) = OwnScope(doc, i)
  BY DEF ScopeOf
<1>2. IsScope(doc, DefinitionScope(doc, i), OwnScope(doc, i))
  BY LineScope
<1> QED BY <1>1, <1>2 DEF IsCandidate

LEMMA ParameterIsCandidate ==
  ASSUME NEW doc, IsDocument(doc), NEW t \in DOMAIN doc, NEW p \in Parameters(doc, t)
  PROVE  IsCandidate(doc, t, p) /\ p.parameter
<1> DEFINE around == {s.line : s \in {r \in ToSet(DefinitionScope(doc, t)) : r.kind = "def"}}
           functions == around \union {i \in {t} : Kind(doc, i) = "def"}
           Scope(f) == Append(DefinitionScope(doc, f), ScopeEntry(doc, f))
<1>1. PICK f \in functions :
        \E n \in doc[f].stmt.ns : p = [n |-> n, line |-> f, scope |-> Scope(f), parameter |-> TRUE]
  BY DEF Parameters
<1>2. PICK len \in Nat : DOMAIN doc = 1 .. len
  BY DEF IsDocument
<1>3. Lists(doc, DefinitionScope(doc, t), Around(doc, t))
  BY LineScope, OwnScopeIs DEF IsScope
<1>4. /\ f \in DOMAIN doc /\ f <= t /\ Kind(doc, f) = "def"
      /\ f # t => f \in Around(doc, t)
  <2>1. CASE f \in around
    <3>1. PICK s \in ToSet(DefinitionScope(doc, t)) : s.kind = "def" /\ f = s.line
      BY <2>1
    <3>2. PICK k \in 1 .. Len(DefinitionScope(doc, t)) : s = DefinitionScope(doc, t)[k]
      BY <1>3, <3>1, LenProperties DEF ToSet, Lists
    <3>3. s \in Entries(doc) /\ f \in Around(doc, t)
      BY <1>3, <3>1, <3>2, ElementOfSeq DEF Lists
    <3>4. Kind(doc, f) = "def" /\ f \in DOMAIN doc
      BY <3>1, <3>3, EntryIs
    <3>5. f <= t
      BY <1>2, <3>3 DEF Around
    <3> QED BY <3>3, <3>4, <3>5
  <2>2. CASE f = t /\ Kind(doc, t) = "def"
    BY <2>2, <1>2
  <2> QED BY <2>1, <2>2, <1>1
<1>5. IsScope(doc, Scope(f), f)
  BY <1>4, ParameterScope
<1>6. p.line = f /\ p.scope = Scope(f) /\ p.parameter = TRUE
  BY <1>1
<1>7. ScopeOf(doc, p) = f
  BY <1>6 DEF ScopeOf
<1> QED BY <1>4, <1>5, <1>6, <1>7 DEF IsCandidate

LEMMA CandidatesAre ==
  ASSUME NEW doc, IsDocument(doc), NEW n, NEW t \in DOMAIN doc,
         NEW c \in LocalCandidates(doc, n, t) \union ImportCandidates(doc, n, t)
  PROVE  IsCandidate(doc, t, c) /\ (c \in ImportCandidates(doc, n, t) => ~c.parameter)
<1>1. ASSUME NEW s \in Symbols(doc), s.line <= t,
             c = [n |-> n, line |-> s.line, scope |-> DefinitionScope(doc, s.line), parameter |-> FALSE]
      PROVE  IsCandidate(doc, t, c)
  BY <1>1, SymbolsAre, SymbolIsCandidate
<1>2. CASE c \in ImportCandidates(doc, n, t)
  BY <1>1, <1>2 DEF ImportCandidates
<1>3. CASE c \in LocalCandidates(doc, n, t) /\ c \notin ImportCandidates(doc, n, t)
  <2>1. CASE c \in Parameters(doc, t)
    BY <1>3, <2>1, ParameterIsCandidate
  <2>2. CASE c \notin Parameters(doc, t)
    BY <1>1, <1>3, <2>2 DEF LocalCandidates
  <2> QED BY <1>3, <2>1, <2>2
<1> QED BY <1>2, <1>3


\* A candidate at a line before t is visible where its scope is searched; one at
\* t is visible or a parameter of the function t defines.
LEMMA CandidateVisible ==
  ASSUME NEW doc, IsDocument(doc), NEW t \in DOMAIN doc, NEW c, IsCandidate(doc, t, c)
  PROVE  /\ VisibleFrom(c.scope, DefinitionScope(doc, t)) <=> ScopeOf(doc, c) \in Searched(doc, t)
         /\ (c.line = t /\ ~c.parameter) => VisibleFrom(c.scope, DefinitionScope(doc, t))
<1>1. VisibleFrom(c.scope, DefinitionScope(doc, t)) <=> ScopeOf(doc, c) \in Searched(doc, t)
  BY VisibleIff DEF IsCandidate
<1>2. ASSUME c.line = t, ~c.parameter PROVE ScopeOf(doc, c) \in Searched(doc, t)
  BY <1>2 DEF ScopeOf, Searched
<1> QED BY <1>1, <1>2

\* How long the scope of a candidate the source chooses from can be.
LEMMA CandidateLength ==
  ASSUME NEW doc, IsDocument(doc), NEW t \in DOMAIN doc, NEW c, IsCandidate(doc, t, c),
         c.line = t \/ VisibleFrom(c.scope, DefinitionScope(doc, t))
  PROVE  Len(c.scope) \in 0 .. Len(DefinitionScope(doc, t)) + 1
<1> DEFINE here == DefinitionScope(doc, t)
<1>1. Len(c.scope) \in Nat /\ here \in Seq(Entries(doc)) /\ Len(here) \in Nat
  <2>1. IsScope(doc, here, OwnScope(doc, t))
    BY LineScope
  <2> HIDE DEF here
  <2>2. Len(here) \in Nat /\ here \in Seq(Entries(doc))
    BY <2>1, ScopeTop
  <2>3. Len(c.scope) \in Nat
    BY ScopeTop DEF IsCandidate
  <2> QED BY <2>2, <2>3
<1>2. CASE VisibleFrom(c.scope, here)
  BY <1>1, <1>2 DEF VisibleFrom, IsPrefix
<1>3. CASE c.line = t /\ c.parameter
  <2>1. /\ IsScope(doc, c.scope, t) /\ IsScope(doc, here, OwnScope(doc, t))
        /\ Around(doc, t) = Chain(doc, OwnScope(doc, t))
    BY <1>3, LineScope, OwnScopeIs DEF IsCandidate, ScopeOf
  <2>2. IsScope(doc, Append(here, ScopeEntry(doc, t)), t)
    BY <1>3, ParameterScope DEF IsCandidate
  <2>3. IsPrefix(c.scope, Append(here, ScopeEntry(doc, t)))
    BY <2>1, <2>2, OuterIsPrefix DEF IsScope
  <2>4. Len(Append(here, ScopeEntry(doc, t))) = Len(here) + 1
    <3>1. ScopeEntry(doc, t) \in Entries(doc)
      BY DEF Entries
    <3> HIDE DEF here
    <3> QED BY <1>1, <3>1, AppendProperties
  <2> QED BY <1>1, <2>3, <2>4 DEF IsPrefix
<1>4. CASE c.line = t /\ ~c.parameter
  <2>1. VisibleFrom(c.scope, here)
    BY <1>4, CandidateVisible
  <2> QED BY <1>2, <2>1
<1> QED BY <1>2, <1>3, <1>4 DEF IsCandidate

\* Of candidates that are not too deep the best is preferred to every other.
LEMMA BestIs ==
  ASSUME NEW N \in Nat, NEW C, C # {},
         \A c \in C : Len(c.scope) \in 0 .. N /\ c.line \in 0 .. N /\ c.parameter \in BOOLEAN
  PROVE  Best(C) \in C /\ \A d \in C : Preferred(Best(C), d)
<1> DEFINE lens == {Len(c.scope) : c \in C}
<1>1. Max(lens) \in lens /\ \A l \in lens : l <= Max(lens)
  <2>1. lens \in SUBSET (0 .. N) /\ lens # {}
    OBVIOUS
  <2> HIDE DEF lens
  <2> QED BY <2>1, MaxIs
<1>2. PICK top \in C : Len(top.scope) = Max(lens)
  BY <1>1
<1>3. \A d \in C : Len(d.scope) <= Len(top.scope)
  BY <1>1, <1>2
<1> DEFINE deep == {c \in C : Len(c.scope) = Len(top.scope)}
           chosen == {c \in deep : c.parameter \/ \A d \in deep : ~d.parameter}
           lines == {c.line : c \in chosen}
<1>4. chosen # {}
  <2>1. top \in deep
    BY <1>2
  <2>2. CASE \E d \in deep : d.parameter
    BY <2>2
  <2>3. CASE \A d \in deep : ~d.parameter
    BY <2>1, <2>3
  <2> QED BY <2>2, <2>3
<1>5. Max(lines) \in lines /\ \A l \in lines : l <= Max(lines)
  <2>1. lines \in SUBSET (0 .. N) /\ lines # {}
    BY <1>4
  <2> HIDE DEF lines
  <2> QED BY <2>1, MaxIs
<1>6. PICK c \in chosen : c.line = Max(lines)
  BY <1>5
<1>7. ASSUME NEW d \in C PROVE Preferred(c, d)
  <2>1. /\ c \in C /\ Len(c.scope) = Len(top.scope) /\ c.line \in 0 .. N
        /\ Len(d.scope) \in 0 .. N /\ Len(c.scope) \in 0 .. N /\ d.line \in 0 .. N
        /\ c.parameter \in BOOLEAN /\ d.parameter \in BOOLEAN
    BY <1>6
  <2>2. CASE Len(d.scope) # Len(top.scope)
    <3>1. Len(c.scope) > Len(d.scope)
      BY <1>3, <2>1, <2>2
    <3> QED BY <3>1 DEF Preferred
  <2>3. CASE Len(d.scope) = Len(top.scope) /\ d.parameter # c.parameter
    <3>1. d \in deep
      BY <2>3
    <3>2. c.parameter /\ ~d.parameter
      BY <1>6, <2>1, <2>3, <3>1
    <3> QED BY <2>1, <2>3, <3>2 DEF Preferred
  <2>4. CASE Len(d.scope) = Len(top.scope) /\ d.parameter = c.parameter
    <3>1. d \in chosen
      BY <1>6, <2>4
    <3>2. c.line >= d.line
      BY <1>5, <1>6, <2>1, <3>1
    <3> QED BY <2>1, <2>4, <3>2 DEF Preferred
  <2> QED BY <2>2, <2>3, <2>4
<1>8. \E b \in C : \A d \in C : Preferred(b, d)
  BY <1>6, <1>7
<1> QED BY <1>8, Zenon DEF Best

\* The candidates the source chooses the best of.
InSight(doc, t, C) == {c \in C : c.line = t \/ VisibleFrom(c.scope, DefinitionScope(doc, t))}

\* What it chooses, and what it prefers it to.
LEMMA BestInSight ==
  ASSUME NEW doc, IsDocument(doc), NEW n, NEW t \in DOMAIN doc,
         NEW C \in {LocalCandidates(doc, n, t), ImportCandidates(doc, n, t)},
         InSight(doc, t, C) # {}
  PROVE  /\ Best(InSight(doc, t, C)) \in InSight(doc, t, C)
         /\ \A d \in InSight(doc, t, C) : Preferred(Best(InSight(doc, t, C)), d)
<1> DEFINE D == InSight(doc, t, C)
<1>1. PICK len \in Nat : DOMAIN doc = 1 .. len
  BY DEF IsDocument
<1>2. Len(DefinitionScope(doc, t)) \in Nat
  BY LineScope, ScopeTop
<1> DEFINE N == len + Len(DefinitionScope(doc, t)) + 1
<1>3. N \in Nat
  BY <1>1, <1>2
<1>4. ASSUME NEW c \in D
      PROVE  Len(c.scope) \in 0 .. N /\ c.line \in 0 .. N /\ c.parameter \in BOOLEAN
  <2>1. IsCandidate(doc, t, c) /\ (c.line = t \/ VisibleFrom(c.scope, DefinitionScope(doc, t)))
    BY <1>4, CandidatesAre DEF InSight
  <2>2. Len(c.scope) \in 0 .. Len(DefinitionScope(doc, t)) + 1
    BY <2>1, CandidateLength
  <2>3. c.line \in 1 .. len /\ c.parameter \in BOOLEAN
    BY <1>1, <2>1 DEF IsCandidate
  <2> QED BY <1>1, <1>2, <2>2, <2>3
<1> HIDE DEF D, N
<1>5. D # {}
  BY DEF D
<1>6. Best(D) \in D /\ \A d \in D : Preferred(Best(D), d)
  BY <1>3, <1>4, <1>5, BestIs
<1> QED BY <1>6 DEF D


\* What Python could find is among the candidates in sight.
LEMMA ReachableIsCandidate ==
  ASSUME NEW doc, IsDocument(doc), NEW n, NEW t \in DOMAIN doc, NEW b \in Reachable(doc, n, t)
  PROVE  \E c \in LocalCandidates(doc, n, t) \union ImportCandidates(doc, n, t) :
           /\ c.line = b.line /\ c.parameter = b.parameter
           /\ ScopeOf(doc, c) = ScopeOf(doc, b)
           /\ VisibleFrom(c.scope, DefinitionScope(doc, t))
<1>1. b \in Bindings(doc, n, t) /\ ScopeOf(doc, b) \in Searched(doc, t)
  BY DEF Reachable
<1>2. ASSUME NEW c \in LocalCandidates(doc, n, t) \union ImportCandidates(doc, n, t),
             c.line = b.line, c.parameter = b.parameter
      PROVE  ScopeOf(doc, c) = ScopeOf(doc, b) /\ VisibleFrom(c.scope, DefinitionScope(doc, t))
  <2>1. ScopeOf(doc, c) = ScopeOf(doc, b)
    BY <1>2 DEF ScopeOf
  <2>2. IsCandidate(doc, t, c)
    BY CandidatesAre
  <2> QED BY <2>1, <2>2, <1>1, CandidateVisible
<1>3. CASE \E s \in Symbols(doc) : /\ s.n = n /\ s.line <= t
                                   /\ b = [n |-> n, line |-> s.line, parameter |-> FALSE]
  <2>1. PICK s \in Symbols(doc) : /\ s.n = n /\ s.line <= t
                                  /\ b = [n |-> n, line |-> s.line, parameter |-> FALSE]
    BY <1>3
  <2> DEFINE c == [n |-> n, line |-> s.line, scope |-> DefinitionScope(doc, s.line), parameter |-> FALSE]
  <2>2. c.line = b.line /\ c.parameter = b.parameter
    BY <2>1
  <2>3. CASE s.import
    <3>1. c \in ImportCandidates(doc, n, t)
      BY <2>1, <2>3 DEF ImportCandidates
    <3> QED BY <3>1, <2>2, <1>2
  <2>4. CASE ~s.import
    <3>1. c \in LocalCandidates(doc, n, t)
      BY <2>1, <2>4 DEF LocalCandidates
    <3> QED BY <3>1, <2>2, <1>2
  <2> QED BY <2>3, <2>4
<1>4. CASE \E f \in DOMAIN doc : /\ Kind(doc, f) = "def" /\ n \in doc[f].stmt.ns
                                 /\ b = [n |-> n, line |-> f, parameter |-> TRUE]
  <2>1. PICK f \in DOMAIN doc : /\ Kind(doc, f) = "def" /\ n \in doc[f].stmt.ns
                                /\ b = [n |-> n, line |-> f, parameter |-> TRUE]
    BY <1>4
  <2>2. f \in Around(doc, t)
    <3>1. PICK len \in Nat : DOMAIN doc = 1 .. len
      BY DEF IsDocument
    <3>2. f \in Searched(doc, t) /\ f # 0
      BY <1>1, <2>1, <3>1 DEF ScopeOf
    <3> QED BY <3>2, OwnScopeIs DEF Searched
  <2>3. Lists(doc, DefinitionScope(doc, t), Around(doc, t))
    BY LineScope, OwnScopeIs DEF IsScope
  <2>4. PICK k \in 1 .. Len(DefinitionScope(doc, t)) : DefinitionScope(doc, t)[k].line = f
    BY <2>2, <2>3 DEF Lists
  <2>5. DefinitionScope(doc, t)[k] \in ToSet(DefinitionScope(doc, t))
    BY <2>3, <2>4, LenProperties DEF ToSet, Lists
  <2>6. DefinitionScope(doc, t)[k].kind = "def"
    <3>1. DefinitionScope(doc, t)[k] \in Entries(doc)
      BY <2>3, <2>4, ElementOfSeq DEF Lists
    <3> QED BY <3>1, <2>1, <2>4, EntryIs
  <2> DEFINE c == [n |-> n, line |-> f, scope |-> Append(DefinitionScope(doc, f), ScopeEntry(doc, f)),
                   parameter |-> TRUE]
  <2>7. c \in Parameters(doc, t)
    <3> DEFINE around == {s.line : s \in {r \in ToSet(DefinitionScope(doc, t)) : r.kind = "def"}}
               functions == around \union {i \in {t} : Kind(doc, i) = "def"}
               Scope(j) == Append(DefinitionScope(doc, j), ScopeEntry(doc, j))
               From(j) == {[n |-> p, line |-> j, scope |-> Scope(j), parameter |-> TRUE] :
                             p \in doc[j].stmt.ns}
    <3>1. f \in around
      BY <2>4, <2>5, <2>6
    <3>2. c \in From(f)
      BY <2>1
    <3>3. Parameters(doc, t) = UNION {From(j) : j \in functions}
      BY DEF Parameters
    <3> HIDE DEF around, From, c
    <3> QED BY <3>1, <3>2, <3>3
  <2>8. c \in LocalCandidates(doc, n, t)
    BY <2>7 DEF LocalCandidates
  <2>9. c.line = b.line /\ c.parameter = b.parameter
    BY <2>1
  <2> QED BY <2>8, <2>9, <1>2
<1> QED BY <1>1, <1>3, <1>4 DEF Bindings

\* What the source finds is a binding of the name.
LEMMA CandidateIsBinding ==
  ASSUME NEW doc, IsDocument(doc), NEW n, NEW t \in DOMAIN doc,
         NEW c \in LocalCandidates(doc, n, t) \union ImportCandidates(doc, n, t)
  PROVE  [n |-> n, line |-> c.line, parameter |-> c.parameter] \in Bindings(doc, n, t)
<1>1. ASSUME NEW s \in Symbols(doc), s.n = n, s.line <= t, c.line = s.line, c.parameter = FALSE
      PROVE  [n |-> n, line |-> c.line, parameter |-> c.parameter] \in Bindings(doc, n, t)
  BY <1>1 DEF Bindings
<1>2. CASE c \in ImportCandidates(doc, n, t)
  <2>1. PICK s \in Symbols(doc) :
          /\ s.n = n /\ s.line <= t
          /\ c = [n |-> n, line |-> s.line, scope |-> DefinitionScope(doc, s.line), parameter |-> FALSE]
    BY <1>2 DEF ImportCandidates
  <2>2. c.line = s.line /\ c.parameter = FALSE
    BY <2>1
  <2> QED BY <1>1, <2>1, <2>2
<1>3. CASE c \in Parameters(doc, t) /\ c.n = n
  <2>1. Kind(doc, c.line) = "def" /\ c.line \in DOMAIN doc /\ c.parameter = TRUE
    BY <1>3, ParameterIsCandidate DEF IsCandidate
  <2>2. n \in doc[c.line].stmt.ns
    BY <1>3 DEF Parameters
  <2> QED BY <2>1, <2>2 DEF Bindings
<1>4. CASE c \in LocalCandidates(doc, n, t) /\ ~(c \in Parameters(doc, t) /\ c.n = n)
  <2>1. PICK s \in Symbols(doc) :
          /\ s.n = n /\ s.line <= t
          /\ c = [n |-> n, line |-> s.line, scope |-> DefinitionScope(doc, s.line), parameter |-> FALSE]
    BY <1>4 DEF LocalCandidates
  <2>2. c.line = s.line /\ c.parameter = FALSE
    BY <2>1
  <2> QED BY <1>1, <2>1, <2>2
<1> QED BY <1>2, <1>3, <1>4 DEF LocalCandidates

\* A visible binding below an import lies in the import's scope or further in.
LEMMA BelowIsNotOutside ==
  ASSUME NEW doc, IsDocument(doc), NEW t \in DOMAIN doc,
         NEW c, IsCandidate(doc, t, c),
         NEW d, IsCandidate(doc, t, d), ~d.parameter, d.line <= c.line,
         ScopeOf(doc, d) \in Searched(doc, t)
  PROVE  ScopeOf(doc, d) <= ScopeOf(doc, c)
<1>1. PICK len \in Nat : DOMAIN doc = 1 .. len
  BY DEF IsDocument
<1>2. c.line \in 1 .. len /\ d.line \in 1 .. len /\ c.line <= t /\ t \in 1 .. len
  BY <1>1 DEF IsCandidate
<1> DEFINE g == OwnScope(doc, d.line)
<1>3. g \in Nat /\ g < d.line /\ ScopeOf(doc, d) = g
  BY <1>1, <1>2, OwnScopeIs DEF ScopeOf
<1>4. ScopeOf(doc, c) \in Nat
  BY ScopeTop DEF IsCandidate
<1>5. CASE g = 0
  BY <1>3, <1>4, <1>5
<1>6. CASE g # 0 /\ c.parameter
  BY <1>2, <1>3, <1>6 DEF ScopeOf
<1>7. CASE g # 0 /\ ~c.parameter
  <2>1. g \in Around(doc, t)
    BY <1>3, <1>7, OwnScopeIs DEF Searched
  <2>2. g \in Around(doc, c.line)
    BY <1>2, <1>3, <2>1 DEF Around, Encloses
  <2>3. g <= OwnScope(doc, c.line)
    BY <1>1, <1>2, <2>2, OwnScopeIs
  <2> QED BY <2>3, <1>3, <1>7 DEF ScopeOf
<1> QED BY <1>5, <1>6, <1>7 DEF IsCandidate

\* Preference between visible bindings, by their scopes.
LEMMA PreferredIsInner ==
  ASSUME NEW doc, IsDocument(doc), NEW t \in DOMAIN doc,
         NEW c, IsCandidate(doc, t, c), VisibleFrom(c.scope, DefinitionScope(doc, t)),
         NEW d, IsCandidate(doc, t, d), VisibleFrom(d.scope, DefinitionScope(doc, t)),
         Preferred(c, d)
  PROVE  \/ ScopeOf(doc, d) < ScopeOf(doc, c)
         \/ ScopeOf(doc, d) = ScopeOf(doc, c) /\ (c.parameter \/ (~d.parameter /\ d.line <= c.line))
<1>1. /\ Len(d.scope) < Len(c.scope) => ScopeOf(doc, d) < ScopeOf(doc, c)
      /\ Len(d.scope) = Len(c.scope) => ScopeOf(doc, d) = ScopeOf(doc, c)
  BY VisibleOrder DEF IsCandidate
<1>2. Len(c.scope) \in Nat /\ Len(d.scope) \in Nat
  BY ScopeTop DEF IsCandidate
<1>3. c.line \in Nat /\ d.line \in Nat /\ c.parameter \in BOOLEAN /\ d.parameter \in BOOLEAN
  BY DEF IsCandidate, IsDocument
<1> QED BY <1>1, <1>2, <1>3 DEF Preferred


-----------------------------------------------------------------------------
(* The binding found.                                                      *)

\* An import is given up only for a binding in sight that hides it.
LEMMA ShadowerIsInSight ==
  ASSUME NEW doc, IsDocument(doc), NEW t \in DOMAIN doc,
         NEW d, IsCandidate(doc, t, d), VisibleFrom(d.scope, DefinitionScope(doc, t)),
         NEW c, IsCandidate(doc, t, c), Shadows(c, d, DefinitionScope(doc, t))
  PROVE  /\ VisibleFrom(c.scope, DefinitionScope(doc, t))
         /\ \/ ScopeOf(doc, d) < ScopeOf(doc, c)
            \/ ScopeOf(doc, d) = ScopeOf(doc, c) /\ d.line < c.line
<1>1. /\ VisibleFrom(c.scope, DefinitionScope(doc, t))
      /\ Len(c.scope) > Len(d.scope) \/ (c.scope = d.scope /\ d.line < c.line)
  BY DEF Shadows
<1>2. Len(c.scope) \in Nat /\ Len(d.scope) \in Nat
  BY ScopeTop DEF IsCandidate
<1>3. /\ Len(d.scope) < Len(c.scope) => ScopeOf(doc, d) < ScopeOf(doc, c)
      /\ Len(d.scope) = Len(c.scope) => ScopeOf(doc, d) = ScopeOf(doc, c)
  BY <1>1, VisibleOrder DEF IsCandidate
<1> QED BY <1>1, <1>2, <1>3

\* A visible import that no visible binding hides is innermost among all.
LEMMA UnhiddenIsInnermost ==
  ASSUME NEW doc, IsDocument(doc), NEW t \in DOMAIN doc,
         NEW d, IsCandidate(doc, t, d), ~d.parameter, VisibleFrom(d.scope, DefinitionScope(doc, t)),
         NEW c, IsCandidate(doc, t, c), VisibleFrom(c.scope, DefinitionScope(doc, t)),
         ~Shadows(c, d, DefinitionScope(doc, t))
  PROVE  \/ ScopeOf(doc, c) < ScopeOf(doc, d)
         \/ ScopeOf(doc, c) = ScopeOf(doc, d) /\ c.line <= d.line
<1>1. Len(c.scope) \in Nat /\ Len(d.scope) \in Nat
  BY ScopeTop DEF IsCandidate
<1>2. /\ Len(c.scope) < Len(d.scope) => ScopeOf(doc, c) < ScopeOf(doc, d)
      /\ Len(c.scope) = Len(d.scope) => ScopeOf(doc, c) = ScopeOf(doc, d) /\ c.scope = d.scope
  BY VisibleOrder DEF IsCandidate
<1>3. c.line \in Nat /\ d.line \in Nat
  BY DEF IsCandidate, IsDocument
<1>4. ~(Len(c.scope) > Len(d.scope)) /\ ~(c.scope = d.scope /\ d.line < c.line)
  BY DEF Shadows
<1> QED BY <1>1, <1>2, <1>3, <1>4

\* The parameter of a function defined at line t is inside all that is searched.
LEMMA OwnParameterIsInnermost ==
  ASSUME NEW doc, IsDocument(doc), NEW n, NEW t \in DOMAIN doc, NEW b \in Reachable(doc, n, t)
  PROVE  ScopeOf(doc, b) < t
<1>1. PICK len \in Nat : DOMAIN doc = 1 .. len
  BY DEF IsDocument
<1>2. ScopeOf(doc, b) \in {0} \union Around(doc, t)
  BY OwnScopeIs DEF Reachable, Searched
<1> QED BY <1>1, <1>2 DEF Around

\* Theorem: whatever the text, at whatever line, the local binding that
\* active_local_binding_at answers for a name is one of the innermost scope Python
\* looks in: none of a sibling function, of a class around the function or of a
\* suite that has ended, none that a deeper scope or a later line overwrites; and
\* it answers none only where there is none (ARCHITECTURE.md: sibling lexical
\* scopes and overwritten bindings do not create high-confidence navigation).
THEOREM InnermostBindingFound ==
  ASSUME NEW doc, IsDocument(doc), NEW n, NEW t \in DOMAIN doc,
         None \notin LocalCandidates(doc, n, t) \union ImportCandidates(doc, n, t)
  PROVE  IsInnermost(doc, n, t, ActiveBinding(doc, n, t))
<1> DEFINE here == DefinitionScope(doc, t)
           locals == LocalCandidates(doc, n, t)
           imports == ImportCandidates(doc, n, t)
           shadow == LocalShadow(doc, n, t)
           first == Best(InSight(doc, t, imports))
           import == LocalImport(doc, n, t)
           found == ActiveBinding(doc, n, t)
<1>1. /\ shadow = Best(InSight(doc, t, locals))
      /\ import = Unshadowed(first, locals, here)
  BY DEF LocalShadow, LocalImport, InSight
<1>2. found = IF import # None /\ (shadow = None \/ import.line > shadow.line) THEN import ELSE shadow
  BY DEF ActiveBinding, Nearer
<1>3. \A c \in locals \union imports : IsCandidate(doc, t, c)
  BY CandidatesAre
<1>4. \A c \in imports : ~c.parameter
  BY CandidatesAre
<1>5. PICK len \in Nat : DOMAIN doc = 1 .. len
  BY DEF IsDocument
<1>6. \A c \in locals \union imports : c.line \in 1 .. len /\ c.line <= t /\ c.parameter \in BOOLEAN
  BY <1>3, <1>5 DEF IsCandidate
<1> HIDE DEF shadow, first, import, found
\* What each of the two searches answers.
<1>7. \/ InSight(doc, t, locals) = {} /\ shadow = None
      \/ /\ shadow \in locals /\ shadow \in InSight(doc, t, locals) /\ shadow # None
         /\ \A d \in InSight(doc, t, locals) : Preferred(shadow, d)
  <2>1. CASE InSight(doc, t, locals) = {}
    BY <1>1, <2>1 DEF Best
  <2>2. CASE InSight(doc, t, locals) # {}
    <3>1. /\ shadow \in InSight(doc, t, locals)
          /\ \A d \in InSight(doc, t, locals) : Preferred(shadow, d)
      BY <1>1, <2>2, BestInSight
    <3>2. shadow \in locals
      BY <3>1 DEF InSight
    <3> QED BY <3>1, <3>2
  <2> QED BY <2>1, <2>2
<1>8. \/ InSight(doc, t, imports) = {} /\ first = None
      \/ /\ first \in imports /\ VisibleFrom(first.scope, here) /\ first # None
         /\ \A d \in InSight(doc, t, imports) : Preferred(first, d)
  <2>1. CASE InSight(doc, t, imports) = {}
    BY <2>1 DEF Best, first
  <2>2. CASE InSight(doc, t, imports) # {}
    <3>1. first \in InSight(doc, t, imports) /\ \A d \in InSight(doc, t, imports) : Preferred(first, d)
      BY <2>2, BestInSight DEF first
    <3>2. first \in imports /\ (first.line = t \/ VisibleFrom(first.scope, here))
      BY <3>1 DEF InSight
    <3>3. VisibleFrom(first.scope, here)
      BY <1>3, <1>4, <3>2, CandidateVisible
    <3> QED BY <3>1, <3>2, <3>3
  <2> QED BY <2>1, <2>2
<1>9. \/ import = first /\ (first = None \/ \A c \in locals : ~Shadows(c, first, here))
      \/ import = None /\ first # None /\ \E c \in locals : Shadows(c, first, here)
  BY <1>1 DEF Unshadowed
\* What Python could find, as a candidate in sight.
<1>10. ASSUME NEW b \in Reachable(doc, n, t)
       PROVE  \E c \in locals \union imports :
                /\ c.line = b.line /\ c.parameter = b.parameter
                /\ ScopeOf(doc, c) = ScopeOf(doc, b)
                /\ VisibleFrom(c.scope, here)
                /\ c \in locals => c \in InSight(doc, t, locals)
                /\ c \in imports => c \in InSight(doc, t, imports)
  <2>1. PICK c \in locals \union imports :
          /\ c.line = b.line /\ c.parameter = b.parameter
          /\ ScopeOf(doc, c) = ScopeOf(doc, b)
          /\ VisibleFrom(c.scope, here)
    BY ReachableIsCandidate
  <2> QED BY <2>1 DEF InSight
<1>11. \A c \in locals \union imports :
         [n |-> n, line |-> c.line, parameter |-> c.parameter] \in Bindings(doc, n, t)
  BY CandidateIsBinding
<1>12. \A c \in locals \union imports :
         VisibleFrom(c.scope, here) => ScopeOf(doc, c) \in Searched(doc, t)
  BY <1>3, CandidateVisible
<1> HIDE DEF here, locals, imports
<1>13. CASE found = None
  <2>1. shadow = None /\ import = None
    BY <1>2, <1>13
  <2>2. first = None
    <3> SUFFICES ASSUME first # None PROVE FALSE
      OBVIOUS
    <3>1. PICK c \in locals : Shadows(c, first, here)
      BY <1>9, <2>1
    <3>2. c \in InSight(doc, t, locals)
      BY <3>1 DEF Shadows, InSight, here
    <3> QED BY <3>2, <1>7, <2>1
  <2>3. InSight(doc, t, locals) = {} /\ InSight(doc, t, imports) = {}
    BY <1>7, <1>8, <2>1, <2>2
  <2>4. Reachable(doc, n, t) = {}
    BY <1>10, <2>3
  <2> QED BY <2>4, <1>13 DEF IsInnermost, found
<1>14. CASE found # None /\ found = import
  <2>1. /\ import = first /\ first \in imports /\ VisibleFrom(first.scope, here)
        /\ \A d \in InSight(doc, t, imports) : Preferred(first, d)
        /\ \A c \in locals : ~Shadows(c, first, here)
    BY <1>8, <1>9, <1>14
  <2>2. IsCandidate(doc, t, first) /\ ~first.parameter /\ ScopeOf(doc, first) \in Searched(doc, t)
    BY <1>3, <1>4, <1>12, <2>1
  <2>3. ASSUME NEW b \in Reachable(doc, n, t)
        PROVE  \/ ScopeOf(doc, b) < ScopeOf(doc, first)
               \/ ScopeOf(doc, b) = ScopeOf(doc, first) /\ b.line <= first.line
    <3>1. PICK c \in locals \union imports :
            /\ c.line = b.line /\ c.parameter = b.parameter
            /\ ScopeOf(doc, c) = ScopeOf(doc, b)
            /\ VisibleFrom(c.scope, here)
            /\ c \in locals => c \in InSight(doc, t, locals)
            /\ c \in imports => c \in InSight(doc, t, imports)
      BY <1>10
    <3>2. CASE c \in locals
      <4>1. \/ ScopeOf(doc, c) < ScopeOf(doc, first)
            \/ ScopeOf(doc, c) = ScopeOf(doc, first) /\ c.line <= first.line
        BY <1>3, <2>1, <2>2, <3>1, <3>2, UnhiddenIsInnermost DEF here
      <4> QED BY <3>1, <4>1
    <3>3. CASE c \in imports
      <4>1. Preferred(first, c)
        BY <2>1, <3>1, <3>3
      <4>2. \/ ScopeOf(doc, c) < ScopeOf(doc, first)
            \/ ScopeOf(doc, c) = ScopeOf(doc, first) /\ c.line <= first.line
        BY <1>3, <2>1, <2>2, <3>1, <4>1, PreferredIsInner DEF here
      <4> QED BY <3>1, <4>2
    <3> QED BY <3>2, <3>3
  <2>4. [n |-> n, line |-> first.line, parameter |-> first.parameter] \in Bindings(doc, n, t)
    BY <1>11, <2>1
  <2> QED BY <2>1, <2>2, <2>3, <2>4, <1>14 DEF IsInnermost, found
<1>15. CASE found # None /\ found = shadow /\ shadow # None /\ ~VisibleFrom(shadow.scope, here)
  <2>1. shadow \in locals /\ shadow \in InSight(doc, t, locals)
    BY <1>7, <1>15
  <2>2. shadow.line = t
    BY <1>15, <2>1 DEF InSight, here
  <2>3. shadow.parameter
    BY <1>3, <1>15, <2>1, <2>2, CandidateVisible DEF here
  <2>4. ScopeOf(doc, shadow) = t
    BY <2>2, <2>3 DEF ScopeOf
  <2>5. [n |-> n, line |-> shadow.line, parameter |-> shadow.parameter] \in Bindings(doc, n, t)
    BY <1>11, <2>1
  <2>6. \A b \in Reachable(doc, n, t) : ScopeOf(doc, b) < t
    BY OwnParameterIsInnermost
  <2> QED BY <1>15, <2>2, <2>4, <2>5, <2>6 DEF IsInnermost, found
<1>16. CASE /\ found # None /\ found = shadow /\ found # import
            /\ shadow # None /\ VisibleFrom(shadow.scope, here)
  <2>1. /\ shadow \in locals /\ \A d \in InSight(doc, t, locals) : Preferred(shadow, d)
        /\ IsCandidate(doc, t, shadow) /\ ScopeOf(doc, shadow) \in Searched(doc, t)
    BY <1>3, <1>7, <1>12, <1>16
  <2> DEFINE Inside(s, line) == \/ s < ScopeOf(doc, shadow)
                                \/ s = ScopeOf(doc, shadow) /\ (shadow.parameter \/ line <= shadow.line)
  <2>2. ASSUME NEW c \in locals, VisibleFrom(c.scope, here) PROVE Inside(ScopeOf(doc, c), c.line)
    <3>1. Preferred(shadow, c)
      BY <2>1, <2>2 DEF InSight, here
    <3> QED BY <1>3, <1>16, <2>1, <2>2, <3>1, PreferredIsInner DEF here
  <2>3. ASSUME first # None PROVE Inside(ScopeOf(doc, first), first.line)
    <3>1. /\ first \in imports /\ IsCandidate(doc, t, first) /\ ~first.parameter
          /\ VisibleFrom(first.scope, here) /\ ScopeOf(doc, first) \in Searched(doc, t)
      BY <1>3, <1>4, <1>8, <1>12, <2>3
    <3>2. CASE \E c \in locals : Shadows(c, first, here)
      <4>1. PICK c \in locals : Shadows(c, first, here)
        BY <3>2
      <4>2. /\ VisibleFrom(c.scope, here)
            /\ \/ ScopeOf(doc, first) < ScopeOf(doc, c)
               \/ ScopeOf(doc, first) = ScopeOf(doc, c) /\ first.line < c.line
        BY <1>3, <3>1, <4>1, ShadowerIsInSight DEF here
      <4>3. Inside(ScopeOf(doc, c), c.line)
        BY <2>2, <4>2
      <4>4. /\ ScopeOf(doc, c) \in Nat /\ ScopeOf(doc, first) \in Nat /\ ScopeOf(doc, shadow) \in Nat
            /\ c.line \in Nat /\ first.line \in Nat /\ shadow.line \in Nat
        BY <1>3, <1>6, <2>1, <3>1, ScopeTop DEF IsCandidate
      <4> QED BY <4>2, <4>3, <4>4
    <3>3. CASE ~ \E c \in locals : Shadows(c, first, here)
      <4>1. import = first
        BY <1>9, <3>3
      <4>2. first.line <= shadow.line
        BY <1>2, <1>6, <1>16, <2>1, <2>3, <3>1, <4>1
      <4>3. ScopeOf(doc, first) <= ScopeOf(doc, shadow)
        BY <2>1, <3>1, <4>2, BelowIsNotOutside
      <4>4. ScopeOf(doc, first) \in Nat /\ ScopeOf(doc, shadow) \in Nat
        BY <2>1, <3>1, ScopeTop DEF IsCandidate
      <4> QED BY <4>2, <4>3, <4>4
    <3> QED BY <3>2, <3>3
  <2>4. ASSUME NEW b \in Reachable(doc, n, t) PROVE Inside(ScopeOf(doc, b), b.line)
    <3>1. PICK c \in locals \union imports :
            /\ c.line = b.line /\ c.parameter = b.parameter
            /\ ScopeOf(doc, c) = ScopeOf(doc, b)
            /\ VisibleFrom(c.scope, here)
            /\ c \in locals => c \in InSight(doc, t, locals)
            /\ c \in imports => c \in InSight(doc, t, imports)
      BY <1>10
    <3>2. CASE c \in locals
      BY <2>2, <3>1, <3>2
    <3>3. CASE c \in imports
      <4>1. first # None /\ first \in imports /\ VisibleFrom(first.scope, here) /\ Preferred(first, c)
        BY <1>8, <3>1, <3>3
      <4>2. \/ ScopeOf(doc, c) < ScopeOf(doc, first)
            \/ ScopeOf(doc, c) = ScopeOf(doc, first) /\ c.line <= first.line
        BY <1>3, <1>4, <3>1, <4>1, PreferredIsInner DEF here
      <4>3. Inside(ScopeOf(doc, first), first.line)
        BY <2>3, <4>1
      <4>4. /\ ScopeOf(doc, c) \in Nat /\ ScopeOf(doc, first) \in Nat /\ ScopeOf(doc, shadow) \in Nat
            /\ c.line \in Nat /\ first.line \in Nat /\ shadow.line \in Nat
        BY <1>3, <1>6, <2>1, <4>1, ScopeTop DEF IsCandidate
      <4>5. Inside(ScopeOf(doc, c), c.line)
        BY <4>2, <4>3, <4>4
      <4> QED BY <3>1, <4>5
    <3> QED BY <3>2, <3>3
  <2>5. [n |-> n, line |-> shadow.line, parameter |-> shadow.parameter] \in Bindings(doc, n, t)
    BY <1>11, <2>1
  <2> QED BY <1>16, <2>1, <2>4, <2>5 DEF IsInnermost, found
<1> QED BY <1>2, <1>13, <1>14, <1>15, <1>16 DEF found

\* None, which stands for "no binding", is not a binding.
NoneIsNoBinding ==
  \A n, line, scope, parameter :
    None # [n |-> n, line |-> line, scope |-> scope, parameter |-> parameter]

LEMMA NoneIsNoCandidate ==
  ASSUME NoneIsNoBinding, NEW doc, NEW n, NEW t
  PROVE  None \notin LocalCandidates(doc, n, t) \union ImportCandidates(doc, n, t)
<1>1. None \notin ImportCandidates(doc, n, t)
  BY DEF NoneIsNoBinding, ImportCandidates
<1>2. \A p \in Parameters(doc, t) : p # None
  BY DEF NoneIsNoBinding, Parameters
<1>3. None \notin LocalCandidates(doc, n, t)
  BY <1>2 DEF NoneIsNoBinding, LocalCandidates
<1> QED BY <1>1, <1>3

Statements == UNION {Vocabularies[v] : v \in DOMAIN Vocabularies}
DocumentTypeOK ==
  /\ vocabulary \in DOMAIN Vocabularies
  /\ document \in Seq([indent : 0 .. MaxIndent, stmt : Statements])

LEMMA DocumentTyped == InferenceSpec => []DocumentTypeOK
<1>1. InferenceInit => DocumentTypeOK
  BY DEF InferenceInit, DocumentTypeOK
<1>2. DocumentTypeOK /\ [InferenceNext]_inference => DocumentTypeOK'
  <2> SUFFICES ASSUME DocumentTypeOK, [InferenceNext]_inference PROVE DocumentTypeOK'
    OBVIOUS
  <2>1. CASE UNCHANGED inference
    BY <2>1 DEF DocumentTypeOK, inference
  <2>2. ASSUME NEW stmt \in Vocabularies[vocabulary], NEW indent \in 0 .. MaxIndent, Type(stmt, indent)
        PROVE  DocumentTypeOK'
    <3>1. stmt \in Statements
      BY DEF DocumentTypeOK, Statements
    <3>2. [indent |-> indent, stmt |-> stmt] \in [indent : 0 .. MaxIndent, stmt : Statements]
      BY <3>1
    <3>3. document' = Append(document, [indent |-> indent, stmt |-> stmt]) /\ vocabulary' = vocabulary
      BY <2>2 DEF Type
    <3> QED BY <3>2, <3>3 DEF DocumentTypeOK
  <2> QED BY <2>1, <2>2 DEF InferenceNext
<1> QED BY <1>1, <1>2, PTL DEF InferenceSpec

\* Theorem: while a text is typed, in whatever statements, the local binding a name is
\* resolved to on its last line is one of the innermost scope that Python looks in
\* (InnermostBindingFound, for the texts that MemberInference types).
THEOREM BindingsAreInnermost ==
  ASSUME NoneIsNoBinding
  PROVE  InferenceSpec => []BindingIsInnermost
<1>1. DocumentTypeOK => BindingIsInnermost
  <2> SUFFICES ASSUME DocumentTypeOK, NEW n \in Asked
               PROVE  IsInnermost(document, n, Len(document), ActiveBinding(document, n, Len(document)))
    BY DEF BindingIsInnermost
  <2> DEFINE Line == [indent : 0 .. MaxIndent, stmt : Statements]
  <2>1. document \in Seq(Line) /\ document # <<>>
    BY DEF DocumentTypeOK, Asked
  <2> HIDE DEF Line
  <2>2. Len(document) \in Nat /\ DOMAIN document = 1 .. Len(document) /\ Len(document) # 0
    BY <2>1, LenProperties, EmptySeq
  <2>3. \A i \in 1 .. Len(document) : document[i].indent \in Nat
    <3>1. \A line \in Line : line.indent \in Nat
      BY InferenceAssumption DEF Line
    <3> QED BY <3>1, <2>1, ElementOfSeq
  <2>4. IsDocument(document)
    BY <2>2, <2>3 DEF IsDocument
  <2>5. None \notin LocalCandidates(document, n, Len(document)) \union
                    ImportCandidates(document, n, Len(document))
    BY NoneIsNoCandidate
  <2>6. Len(document) \in DOMAIN document
    BY <2>2
  <2> QED BY <2>4, <2>5, <2>6, InnermostBindingFound
<1> QED BY <1>1, DocumentTyped, PTL
===============================================================================
