--------------------------- MODULE IndexCacheProofs ---------------------------
(***************************************************************************)
(* Theorems about CacheMetadata, for any files, roots, databases of other  *)
(* workspaces and numbers of incidents and restarts                        *)
(* (crates/sage-index/src/cache_metadata.rs, workspace_lifecycle.rs): the  *)
(* counts kept by differences stay those of the rows, so that no refresh   *)
(* rebuilds for nothing, and a database that lost rows is found out; and   *)
(* about IndexCacheMaintenance, for any databases, sizes and ages          *)
(* (packages/extension-core/src/indexCacheMaintenance.ts): what pruning    *)
(* leaves.  Both add up rows or bytes.                                     *)
(***************************************************************************)
EXTENDS CacheMetadata, IndexCacheMaintenance, FiniteSetTheorems, WellFoundedInduction, TLAPS

-----------------------------------------------------------------------------
(* Sums.                                                                   *)

LEMMA NatLeast ==
  ASSUME NEW T \in SUBSET Nat, T # {}
  PROVE  \E n \in T : \A m \in T : n <= m
<1> DEFINE R == OpToRel(<, Nat)
<1>1. \A m, n \in Nat : m < n => <<m, n>> \in R
  BY DEF OpToRel
<1>2. IsWellFoundedOn(R, Nat)
  BY NatLessThanWellFounded, Zenon
<1> HIDE DEF R
<1>3. PICK n \in T : \A m \in T : ~(<<m, n>> \in R)
  BY <1>2, WFMin
<1>4. \A m \in T : n <= m
  <2> SUFFICES ASSUME NEW m \in T PROVE n <= m
    OBVIOUS
  <2>1. ~(m < n)
    BY <1>1, <1>3
  <2> QED BY <2>1
<1> QED BY <1>4

LEMMA UnitsOf ==
  ASSUME NEW S, NEW n, NEW u
  PROVE  u \in Units(S, n) <=> \E x \in S : \E k \in 1..n[x] : u = <<x, k>>
<1>1. u \in Units(S, n) <=> \E x \in S : u \in {x} \X (1..n[x])
  BY Zenon DEF Units
<1>2. \A x \in S : u \in {x} \X (1..n[x]) <=> \E k \in 1..n[x] : u = <<x, k>>
  OBVIOUS
<1> QED BY <1>1, <1>2

LEMMA UnitsFinite ==
  ASSUME NEW S, IsFiniteSet(S), NEW n \in [S -> Nat]
  PROVE  IsFiniteSet(Units(S, n)) /\ Total(S, n) \in Nat
<1> DEFINE Row == [x \in S |-> {x} \X (1..n[x])]
           T == {{x} \X (1..n[x]) : x \in S}
<1>1. Row \in Surjection(S, T)
  BY DEF Surjection
<1>2. IsFiniteSet(T)
  BY <1>1, FS_Surjection
<1>3. \A t \in T : IsFiniteSet(t)
  <2> SUFFICES ASSUME NEW x \in S PROVE IsFiniteSet({x} \X (1..n[x]))
    OBVIOUS
  <2>1. IsFiniteSet({x})
    BY FS_Singleton
  <2>2. 1 \in Int /\ n[x] \in Int
    OBVIOUS
  <2>3. IsFiniteSet(1..n[x])
    BY <2>2, FS_Interval
  <2> QED BY <2>1, <2>3, FS_Product
<1>4. IsFiniteSet(UNION T)
  BY <1>2, <1>3, FS_UNION
<1> QED BY <1>4, FS_CardinalityType DEF Units, Total

\* A sum over two disjoint sets.
LEMMA UnitsSplit ==
  ASSUME NEW S, IsFiniteSet(S), NEW n \in [S -> Nat], NEW A \in SUBSET S
  PROVE  Total(S, n) = Total(A, [x \in A |-> n[x]])
                                    + Total(S \ A, [x \in S \ A |-> n[x]])
<1> DEFINE U == Units(A, [x \in A |-> n[x]])
           V == Units(S \ A, [x \in S \ A |-> n[x]])
<1>1. IsFiniteSet(A) /\ IsFiniteSet(S \ A)
  BY FS_Subset
<1>2. IsFiniteSet(U) /\ IsFiniteSet(V)
  BY <1>1, UnitsFinite
<1>3. \A u : u \in U <=> \E x \in A : \E k \in 1..n[x] : u = <<x, k>>
  BY UnitsOf
<1>4. \A u : u \in V <=> \E x \in S \ A : \E k \in 1..n[x] : u = <<x, k>>
  BY UnitsOf
<1>5. \A u : u \in Units(S, n) <=> \E x \in S : \E k \in 1..n[x] : u = <<x, k>>
  BY UnitsOf
<1> HIDE DEF U, V
<1>6. Units(S, n) = U \cup V
  BY <1>3, <1>4, <1>5
<1>7. U \cap V = {}
  BY <1>3, <1>4
<1>8. Cardinality(U \cap V) = 0
  BY <1>7, FS_EmptySet
<1>9. Cardinality(U) \in Nat /\ Cardinality(V) \in Nat
  BY <1>2, FS_CardinalityType
<1>10. Cardinality(U \cup V) = Cardinality(U) + Cardinality(V) - Cardinality(U \cap V)
  BY <1>2, FS_Union
<1>11. Cardinality(U \cup V) = Cardinality(U) + Cardinality(V)
  BY <1>8, <1>9, <1>10
<1> QED BY <1>6, <1>11 DEF Total, U, V

\* Summands that are not larger, and strictly smaller somewhere.
LEMMA UnitsGrow ==
  ASSUME NEW S, IsFiniteSet(S), NEW m \in [S -> Nat], NEW n \in [S -> Nat],
         \A x \in S : m[x] <= n[x]
  PROVE  /\ Total(S, m) <= Total(S, n)
         /\ Total(S, m) = Total(S, n) => m = n
<1>1. IsFiniteSet(Units(S, n)) /\ Units(S, m) \subseteq Units(S, n)
  BY UnitsFinite, UnitsOf
<1>2. ASSUME Units(S, m) = Units(S, n) PROVE m = n
  <2> SUFFICES ASSUME NEW x \in S, m[x] # n[x] PROVE FALSE
    OBVIOUS
  <2>1. n[x] \in 1..n[x] /\ n[x] \notin 1..m[x]
    OBVIOUS
  <2>2. <<x, n[x]>> \in Units(S, n)
    BY <2>1, UnitsOf
  <2>3. <<x, n[x]>> \notin Units(S, m)
    BY <2>1, UnitsOf
  <2> QED BY <1>2, <2>2, <2>3
<1> QED BY <1>1, <1>2, FS_Subset DEF Total

-----------------------------------------------------------------------------
(* Pruning the directory of databases.                                     *)

\* Entries of the directory.
Entries(files) == \E D \in SUBSET Digests : files \in [D -> File]

LEMMA EntriesType ==
  ASSUME NEW files, Entries(files)
  PROVE  /\ DOMAIN files \in SUBSET Digests /\ IsFiniteSet(DOMAIN files)
         /\ \A d \in DOMAIN files : files[d] \in File /\ files[d].size \in Nat /\ files[d].age \in Nat
         /\ files \in [DOMAIN files -> File]
<1>1. PICK D \in SUBSET Digests : files \in [D -> File]
  BY DEF Entries
<1>2. DOMAIN files = D /\ IsFiniteSet(D)
  BY <1>1, MaintenanceAssumption, FS_Subset
<1>3. \A e \in File : e.size \in Nat /\ e.age \in Nat
  <2> SUFFICES ASSUME NEW e \in File PROVE e.size \in Nat /\ e.age \in Nat
    OBVIOUS
  <2>1. e.size \in Sizes /\ e.age \in 0..MaxAge
    BY DEF File
  <2>2. Sizes \subseteq Nat /\ 0..MaxAge \subseteq Nat
    BY MaintenanceAssumption
  <2> QED BY <2>1, <2>2
<1>4. \A d \in D : files[d] \in File
  BY <1>1
<1> QED BY <1>1, <1>2, <1>3, <1>4

LEMMA BytesType ==
  ASSUME NEW files, Entries(files), NEW S \in SUBSET DOMAIN files
  PROVE  BytesOf(files, S) \in Nat
<1>1. IsFiniteSet(S) /\ [d \in S |-> files[d].size] \in [S -> Nat]
  BY EntriesType, FS_Subset
<1> QED BY <1>1, UnitsFinite DEF BytesOf

LEMMA BytesSplit ==
  ASSUME NEW files, Entries(files), NEW S \in SUBSET DOMAIN files, NEW A \in SUBSET S
  PROVE  BytesOf(files, S) = BytesOf(files, A) + BytesOf(files, S \ A)
<1> DEFINE n == [d \in S |-> files[d].size]
<1>1. IsFiniteSet(S) /\ n \in [S -> Nat]
  BY EntriesType, FS_Subset
<1>2. /\ [d \in A |-> files[d].size] = [d \in A |-> n[d]]
      /\ [d \in S \ A |-> files[d].size] = [d \in S \ A |-> n[d]]
  OBVIOUS
<1>3. BytesOf(files, S) = Total(S, n)
  BY DEF BytesOf
<1> HIDE DEF n
<1>4. Total(S, n) = Total(A, [d \in A |-> n[d]]) + Total(S \ A, [d \in S \ A |-> n[d]])
  BY <1>1, UnitsSplit, Zenon
<1> QED BY <1>2, <1>3, <1>4 DEF BytesOf

LEMMA BytesLeft ==
  ASSUME NEW files, Entries(files), NEW gone \in SUBSET DOMAIN files
  PROVE  /\ Entries(Restrict(files, DOMAIN files \ gone))
         /\ DOMAIN Restrict(files, DOMAIN files \ gone) = DOMAIN files \ gone
         /\ Bytes(Restrict(files, DOMAIN files \ gone)) = Bytes(files) - BytesOf(files, gone)
<1> DEFINE left == DOMAIN files \ gone
           rest == Restrict(files, left)
<1>1. DOMAIN rest = left /\ \A d \in left : rest[d] = files[d]
  BY DEF Restrict
<1>2. rest \in [left -> File] /\ left \in SUBSET Digests
  BY EntriesType DEF Restrict
<1>3. Entries(rest)
  BY <1>2 DEF Entries
<1>4. BytesOf(rest, left) = BytesOf(files, left)
  <2>1. [d \in left |-> rest[d].size] = [d \in left |-> files[d].size]
    BY <1>1
  <2> HIDE DEF rest, left
  <2> QED BY <2>1 DEF BytesOf
<1>5. Bytes(files) = BytesOf(files, gone) + BytesOf(files, left)
  BY BytesSplit DEF Bytes
<1>6. Bytes(files) \in Nat /\ BytesOf(files, gone) \in Nat /\ BytesOf(files, left) \in Nat
  BY BytesType DEF Bytes
<1> HIDE DEF rest
<1>7. Bytes(rest) = BytesOf(files, left)
  BY <1>1, <1>4 DEF Bytes
<1> QED BY <1>1, <1>3, <1>5, <1>6, <1>7 DEF rest

\* The order in which they are looked at has each entry once.
LEMMA OrderRight ==
  ASSUME NEW files, Entries(files), NEW order \in OldestFirst(files)
  PROVE  LET N == Cardinality(DOMAIN files) IN
         /\ N \in Nat /\ DOMAIN order = 1..N
         /\ \A n \in 1..N : order[n] \in DOMAIN files
         /\ \A m, n \in 1..N : m # n => order[m] # order[n]
         /\ \A d \in DOMAIN files : \E n \in 1..N : order[n] = d
         /\ \A m, n \in 1..N : m < n => files[order[m]].age >= files[order[n]].age
<1> DEFINE N == Cardinality(DOMAIN files)
<1>1. IsFiniteSet(DOMAIN files) /\ N \in Nat
  BY EntriesType, FS_CardinalityType
<1>2. /\ order \in [1..N -> DOMAIN files]
      /\ \A m, n \in 1..N : m # n => order[m] # order[n]
      /\ \A m, n \in DOMAIN order : m < n => files[order[m]].age >= files[order[n]].age
  BY DEF OldestFirst, SetToSeqs
<1>3. IsFiniteSet(1..N) /\ Cardinality(1..N) = N
  <2>1. 1 \in Int /\ N \in Int
    BY <1>1
  <2>2. Cardinality(1..N) = IF 1 > N THEN 0 ELSE N - 1 + 1
    BY <2>1, FS_Interval
  <2> QED BY <1>1, <2>1, <2>2, FS_Interval
<1>4. order \in Injection(1..N, DOMAIN files)
  BY <1>2 DEF Injection, IsInjective
<1>5. order \in Surjection(1..N, DOMAIN files)
  BY <1>1, <1>3, <1>4, FS_Injection
<1>6. \A d \in DOMAIN files : \E n \in 1..N : order[n] = d
  BY <1>5 DEF Surjection
<1> QED BY <1>1, <1>2, <1>6

\* Nothing goes while the total fits.
LEMMA PrunesWhenFull ==
  ASSUME NEW files, Entries(files), NEW order, NEW mayGo \in SUBSET DOMAIN files,
         NEW total \in Int, NEW d \in PruneToCap(order, files, mayGo, total)
  PROVE  total > MaxTotalBytes
<1> DEFINE Older(k) == {order[m] : m \in 1..(k - 1)} \cap mayGo
<1>1. PICK k \in DOMAIN order : total - BytesOf(files, Older(k)) > MaxTotalBytes
  BY DEF PruneToCap
<1>2. Older(k) \in SUBSET DOMAIN files
  OBVIOUS
<1> HIDE DEF Older
<1>3. BytesOf(files, Older(k)) \in Nat
  BY <1>2, BytesType
<1> QED BY <1>1, <1>3, MaintenanceAssumption

\* Either the total fits in the end, or all that may go has gone.
LEMMA PrunesToCap ==
  ASSUME NEW files, Entries(files), NEW order \in OldestFirst(files),
         NEW mayGo \in SUBSET DOMAIN files, NEW total \in Int
  PROVE  LET gone == PruneToCap(order, files, mayGo, total) IN
         /\ gone \in SUBSET mayGo
         /\ gone = mayGo \/ total - BytesOf(files, gone) <= MaxTotalBytes
<1> DEFINE N == Cardinality(DOMAIN files)
           Older(n) == {order[m] : m \in 1..(n - 1)} \cap mayGo
           Goes(n) == order[n] \in mayGo /\ total - BytesOf(files, Older(n)) > MaxTotalBytes
           gone == PruneToCap(order, files, mayGo, total)
           Stays == {n \in 1..N : order[n] \in mayGo /\ ~Goes(n)}
<1>1. /\ N \in Nat /\ DOMAIN order = 1..N
      /\ \A n \in 1..N : order[n] \in DOMAIN files
      /\ \A m, n \in 1..N : m # n => order[m] # order[n]
      /\ \A d \in DOMAIN files : \E n \in 1..N : order[n] = d
  BY OrderRight
<1>2. gone = {order[n] : n \in {k \in 1..N : Goes(k)}}
  BY <1>1 DEF PruneToCap
<1> HIDE DEF N, gone
<1>3. gone \in SUBSET mayGo
  BY <1>2
<1>4. ASSUME Stays = {} PROVE gone = mayGo
  <2>1. ASSUME NEW d \in mayGo PROVE d \in gone
    <3>1. PICK n \in 1..N : order[n] = d
      BY <1>1
    <3>2. ~(order[n] \in mayGo /\ ~Goes(n))
      <4> HIDE DEF Goes
      <4> QED BY <1>4
    <3>3. Goes(n)
      BY <3>1, <3>2
    <3> HIDE DEF Goes
    <3> QED BY <1>2, <3>1, <3>3
  <2> QED BY <1>3, <2>1
<1>5. ASSUME Stays # {} PROVE total - BytesOf(files, gone) <= MaxTotalBytes
  <2>1. Stays \in SUBSET Nat
    BY <1>1
  <2>2. PICK n \in Stays : \A m \in Stays : n <= m
    <3> HIDE DEF Stays
    <3> QED BY <1>5, <2>1, NatLeast
  <2>3. n \in 1..N /\ order[n] \in mayGo /\ ~Goes(n)
    OBVIOUS
  <2>4. \A m \in 1..(n - 1) : order[m] \in mayGo => Goes(m)
    <3> SUFFICES ASSUME NEW m \in 1..(n - 1), order[m] \in mayGo, ~Goes(m) PROVE FALSE
      BY Zenon
    <3>1. m \in 1..N
      BY <1>1, <2>3
    <3>2. m \in Stays
      BY <3>1
    <3> QED BY <2>2, <2>3, <3>2
  <2>5. Older(n) \subseteq gone
    <3> HIDE DEF Goes
    <3> QED BY <1>1, <1>2, <2>3, <2>4
  <2>6. total - BytesOf(files, Older(n)) <= MaxTotalBytes
    <3>1. Older(n) \in SUBSET DOMAIN files
      OBVIOUS
    <3> HIDE DEF Older
    <3>2. BytesOf(files, Older(n)) \in Nat
      BY <3>1, BytesType
    <3> QED BY <2>3, <3>2, MaintenanceAssumption
  <2> HIDE DEF Older
  <2>7. /\ BytesOf(files, gone) = BytesOf(files, Older(n)) + BytesOf(files, gone \ Older(n))
        /\ BytesOf(files, Older(n)) \in Nat /\ BytesOf(files, gone \ Older(n)) \in Nat
        /\ BytesOf(files, gone) \in Nat
    BY <1>3, <2>5, BytesSplit, BytesType
  <2> QED BY <1>3, <2>6, <2>7, MaintenanceAssumption
<1> QED BY <1>3, <1>4, <1>5 DEF gone

EntriesFound == Entries(databases) /\ Entries(orphans)

\* The bytes of two disjoint sets of entries.
LEMMA BytesBoth ==
  ASSUME NEW files, Entries(files), NEW A \in SUBSET DOMAIN files, NEW B \in SUBSET DOMAIN files,
         A \cap B = {}
  PROVE  BytesOf(files, A \cup B) = BytesOf(files, A) + BytesOf(files, B)
<1>1. (A \cup B) \ A = B
  OBVIOUS
<1>2. A \cup B \in SUBSET DOMAIN files /\ A \in SUBSET (A \cup B)
  OBVIOUS
<1> QED BY <1>1, <1>2, BytesSplit

NewestOf(files, order) ==
  {order[k] : k \in {n \in DOMAIN order :
     n + KeepLatestDatabases > Cardinality(DOMAIN files)}}

\* The newest databases are as many as are to be kept, if there are more.
LEMMA NewestKept ==
  ASSUME NEW files, Entries(files), NEW order \in OldestFirst(files)
  PROVE  LET newest == NewestOf(files, order) IN
         /\ newest \in SUBSET DOMAIN files
         /\ Cardinality(newest) <= KeepLatestDatabases
         /\ \A d \in DOMAIN files \ newest :
              /\ Cardinality(newest) = KeepLatestDatabases
              /\ \A x \in newest : files[x].age <= files[d].age
<1> DEFINE N == Cardinality(DOMAIN files)
           L == N - KeepLatestDatabases
           late == (L + 1)..N
           pos == [k \in late |-> order[k]]
           newest == NewestOf(files, order)
<1>1. /\ N \in Nat /\ DOMAIN order = 1..N
      /\ \A n \in 1..N : order[n] \in DOMAIN files
      /\ \A m, n \in 1..N : m # n => order[m] # order[n]
      /\ \A x \in DOMAIN files : \E n \in 1..N : order[n] = x
      /\ \A m, n \in 1..N : m < n => files[order[m]].age >= files[order[n]].age
  BY OrderRight
<1>2. KeepLatestDatabases \in Nat
  BY MaintenanceAssumption
<1> HIDE DEF N, newest
<1>3. newest = {order[k] : k \in {n \in 1..N : n + KeepLatestDatabases > N}}
  BY <1>1 DEF N, newest, NewestOf
<1>4. newest \in SUBSET DOMAIN files
  BY <1>1, <1>3
<1>5. ASSUME L \in Nat PROVE Cardinality(newest) = KeepLatestDatabases
  <2>1. L <= N
    BY <1>1, <1>2
  <2>2. {m \in 1..N : m + KeepLatestDatabases > N} = late
    BY <1>1, <1>2, <1>5, <2>1
  <2>3. newest = {order[k] : k \in late}
    BY <1>3, <2>2
  <2>4. pos \in Surjection(late, newest)
    BY <2>3 DEF Surjection
  <2>5. pos \in Injection(late, newest)
    <3>1. pos \in [late -> newest]
      BY <2>3
    <3>2. \A k, m \in late : k # m => pos[k] # pos[m]
      BY <1>1, <1>5
    <3> HIDE DEF pos
    <3> QED BY <3>1, <3>2 DEF Injection, IsInjective
  <2>6. IsFiniteSet(late) /\ Cardinality(late) = KeepLatestDatabases
    <3>1. L + 1 \in Int /\ N \in Int
      BY <1>1, <1>5
    <3>2. /\ IsFiniteSet(late)
          /\ Cardinality(late) = IF L + 1 > N THEN 0 ELSE N - (L + 1) + 1
      BY <3>1, FS_Interval
    <3> QED BY <1>1, <1>2, <1>5, <2>1, <3>2
  <2> HIDE DEF pos
  <2> QED BY <2>4, <2>5, <2>6, FS_Surjection
<1>6. Cardinality(newest) <= KeepLatestDatabases
  <2>1. CASE L \in Nat
    BY <1>2, <1>5, <2>1
  <2>2. CASE L \notin Nat
    <3>1. N < KeepLatestDatabases
      BY <1>1, <1>2, <2>2
    <3>2. Cardinality(newest) \in Nat /\ Cardinality(newest) <= N
      BY <1>4, EntriesType, FS_Subset, FS_CardinalityType DEF N
    <3> QED BY <1>1, <1>2, <3>1, <3>2
  <2> QED BY <2>1, <2>2
<1>7. ASSUME NEW d \in DOMAIN files \ newest
      PROVE  /\ Cardinality(newest) = KeepLatestDatabases
             /\ \A x \in newest : files[x].age <= files[d].age
  <2>1. PICK n \in 1..N : order[n] = d
    BY <1>1
  <2>2. ~(n + KeepLatestDatabases > N)
    BY <1>3, <2>1
  <2>3. n <= L /\ L \in Nat
    BY <1>1, <1>2, <2>1, <2>2
  <2>4. ASSUME NEW x \in newest PROVE files[x].age <= files[d].age
    <3>1. PICK k \in 1..N : k + KeepLatestDatabases > N /\ x = order[k]
      BY <1>3
    <3>2. n < k
      BY <1>1, <1>2, <2>2, <3>1
    <3>3. files[order[n]].age >= files[order[k]].age
      BY <1>1, <3>1, <3>2
    <3>4. files[x].age \in Nat /\ files[d].age \in Nat
      BY <1>4, EntriesType
    <3> QED BY <2>1, <3>1, <3>3, <3>4
  <2> QED BY <1>5, <2>3, <2>4
<1> QED BY <1>4, <1>6, <1>7 DEF newest

LEMMA MaintainedRight ==
  ASSUME EntriesFound, Maintain
  PROVE  EntriesFound' /\ CapRespected'
<1>1. PICK dbOrder \in OldestFirst(databases), orphanOrder \in OldestFirst(orphans) :
        /\ before' = [databases |-> databases, orphans |-> orphans]
        /\ databases' = Restrict(databases,
             DOMAIN databases \ Prunable(dbOrder, orphanOrder).databases)
        /\ orphans' = Restrict(orphans, DOMAIN orphans \ Prunable(dbOrder, orphanOrder).orphans)
        /\ keep' = keep
  BY DEF Maintain
<1> DEFINE newest == NewestOf(databases, dbOrder)
           free   == DOMAIN databases \ (keep \cup newest)
           tooOld == {d \in free : databases[d].age >= MaxAgeDays}
           after  == Bytes(databases) + Bytes(orphans) - BytesOf(databases, tooOld)
           young  == {d \in free \ tooOld : databases[d].age >= SizePruneMinAgeDays}
           capped == PruneToCap(dbOrder, databases, young, after)
           stale  == {d \in DOMAIN orphans : orphans[d].age >= OrphanMaxAgeDays}
           now    == after - BytesOf(databases, capped) - BytesOf(orphans, stale)
           fresh  == {d \in DOMAIN orphans \ stale : orphans[d].age >= SizePruneMinAgeDays}
           rest   == PruneToCap(orphanOrder, orphans, fresh, now)
           gone   == tooOld \cup capped
           lost   == stale \cup rest
<1>2. Prunable(dbOrder, orphanOrder) = [databases |-> gone, orphans |-> lost]
  BY DEF Prunable, OrphansToCap, NewestOf
<1>3. /\ Entries(databases) /\ Entries(orphans)
      /\ \A d \in DOMAIN databases : databases[d].age \in Nat
      /\ \A d \in DOMAIN orphans : orphans[d].age \in Nat
  BY EntriesType DEF EntriesFound
<1>4. /\ tooOld \in SUBSET DOMAIN databases /\ young \in SUBSET DOMAIN databases
      /\ tooOld \cap young = {} /\ tooOld \in SUBSET free /\ young \in SUBSET free
      /\ stale \in SUBSET DOMAIN orphans /\ fresh \in SUBSET DOMAIN orphans
      /\ stale \cap fresh = {}
  OBVIOUS
<1>6. \A d \in DOMAIN databases : d \notin free => d \in keep \/ d \in newest
  OBVIOUS
<1>7. free \cap keep = {} /\ free \cap newest = {} /\ free \in SUBSET DOMAIN databases
  OBVIOUS
<1>8. \A d \in free : d \notin tooOld /\ databases[d].age >= SizePruneMinAgeDays => d \in young
  OBVIOUS
<1>9. \A d \in DOMAIN orphans :
        d \notin stale /\ orphans[d].age >= SizePruneMinAgeDays => d \in fresh
  OBVIOUS
<1>10. /\ newest \in SUBSET DOMAIN databases
       /\ Cardinality(newest) <= KeepLatestDatabases
       /\ \A d \in DOMAIN databases \ newest :
            /\ Cardinality(newest) = KeepLatestDatabases
            /\ \A x \in newest : databases[x].age <= databases[d].age
  BY <1>3, NewestKept
<1> HIDE DEF newest, free, tooOld, young, stale, fresh
<1>11. /\ after \in Int /\ BytesOf(databases, tooOld) \in Nat /\ BytesOf(orphans, stale) \in Nat
       /\ Bytes(databases) \in Nat /\ Bytes(orphans) \in Nat
  BY <1>3, <1>4, BytesType DEF Bytes
<1>12. /\ capped \in SUBSET young
       /\ capped = young \/ after - BytesOf(databases, capped) <= MaxTotalBytes
  <2> HIDE DEF after
  <2> QED BY <1>3, <1>4, <1>11, PrunesToCap
<1>13. BytesOf(databases, capped) \in Nat
  BY <1>3, <1>4, <1>12, BytesType
<1>14. now \in Int
  BY <1>11, <1>13
<1>15. /\ rest \in SUBSET fresh
       /\ rest = fresh \/ now - BytesOf(orphans, rest) <= MaxTotalBytes
  <2> HIDE DEF now
  <2> QED BY <1>3, <1>4, <1>14, PrunesToCap
<1>16. BytesOf(orphans, rest) \in Nat
  BY <1>3, <1>4, <1>15, BytesType
<1> HIDE DEF capped, rest
<1>17. /\ BytesOf(databases, gone) = BytesOf(databases, tooOld) + BytesOf(databases, capped)
       /\ gone \in SUBSET DOMAIN databases /\ gone \in SUBSET free
  <2>1. tooOld \cap capped = {} /\ capped \in SUBSET DOMAIN databases
    BY <1>4, <1>12
  <2> QED BY <1>3, <1>4, <1>12, <2>1, BytesBoth
<1>18. /\ BytesOf(orphans, lost) = BytesOf(orphans, stale) + BytesOf(orphans, rest)
       /\ lost \in SUBSET DOMAIN orphans
  <2>1. stale \cap rest = {} /\ rest \in SUBSET DOMAIN orphans
    BY <1>4, <1>15
  <2> QED BY <1>3, <1>4, <1>15, <2>1, BytesBoth
<1>19. \A d \in DOMAIN databases \ gone : d \in free => d \notin tooOld /\ d \notin capped
  OBVIOUS
<1>20. \A d \in DOMAIN orphans \ lost : d \notin stale /\ d \notin rest
  OBVIOUS
<1>21. databases' = Restrict(databases, DOMAIN databases \ gone)
       /\ orphans' = Restrict(orphans, DOMAIN orphans \ lost)
  BY <1>1, <1>2
<1> HIDE DEF gone, lost
<1>22. /\ Entries(databases') /\ Entries(orphans')
       /\ DOMAIN databases' = DOMAIN databases \ gone
       /\ DOMAIN orphans' = DOMAIN orphans \ lost
       /\ Bytes(databases') = Bytes(databases) - BytesOf(databases, gone)
       /\ Bytes(orphans') = Bytes(orphans) - BytesOf(orphans, lost)
  BY <1>3, <1>17, <1>18, <1>21, BytesLeft
<1>23. /\ \A d \in DOMAIN databases' : databases'[d] = databases[d]
       /\ \A d \in DOMAIN orphans' : orphans'[d] = orphans[d]
  BY <1>21, <1>22 DEF Restrict
<1>24. Bytes(databases') + Bytes(orphans') = now - BytesOf(orphans, rest)
  BY <1>11, <1>13, <1>16, <1>17, <1>18, <1>22
<1>25. ASSUME Bytes(databases') + Bytes(orphans') > MaxTotalBytes
       PROVE  /\ Cardinality({d \in DOMAIN databases' \ keep' : databases'[d].age >= SizePruneMinAgeDays})
                   <= KeepLatestDatabases
              /\ \A d \in DOMAIN orphans' : orphans'[d].age < SizePruneMinAgeDays
  <2>1. capped = young /\ rest = fresh
    <3>1. rest = fresh
      BY <1>15, <1>24, <1>25, <1>14, <1>16, MaintenanceAssumption
    <3>2. after - BytesOf(databases, capped) > MaxTotalBytes
      BY <1>11, <1>13, <1>16, <1>24, <1>25, MaintenanceAssumption
    <3> QED BY <1>11, <1>12, <1>13, <3>1, <3>2, MaintenanceAssumption
  <2>2. \A d \in DOMAIN databases' \ keep :
          databases'[d].age >= SizePruneMinAgeDays => d \in newest
    <3> SUFFICES ASSUME NEW d \in DOMAIN databases \ gone, d \notin keep,
                        databases[d].age >= SizePruneMinAgeDays
                 PROVE  d \in newest
      BY <1>22, <1>23
    <3>1. d \notin free
      BY <1>8, <1>19, <2>1
    <3> QED BY <1>6, <3>1
  <2>3. \A d \in DOMAIN orphans' : orphans'[d].age < SizePruneMinAgeDays
    <3> SUFFICES ASSUME NEW d \in DOMAIN orphans \ lost PROVE orphans[d].age < SizePruneMinAgeDays
      BY <1>22, <1>23
    <3>1. ~(orphans[d].age >= SizePruneMinAgeDays)
      BY <1>9, <1>20, <2>1
    <3> QED BY <1>3, <3>1, MaintenanceAssumption
  <2> DEFINE left == {d \in DOMAIN databases' \ keep' : databases'[d].age >= SizePruneMinAgeDays}
  <2>4. left \in SUBSET newest
    BY <1>1, <2>2
  <2>5. Cardinality(left) <= KeepLatestDatabases
    <3> HIDE DEF left
    <3>1. IsFiniteSet(newest)
      BY <1>3, <1>10, EntriesType, FS_Subset
    <3>2. Cardinality(left) <= Cardinality(newest) /\ Cardinality(left) \in Nat
          /\ Cardinality(newest) \in Nat
      BY <2>4, <3>1, FS_Subset, FS_CardinalityType
    <3> QED BY <1>10, <3>2, MaintenanceAssumption
  <2> QED BY <2>3, <2>5
<1>26. \/ Bytes(databases') + Bytes(orphans') <= MaxTotalBytes
       \/ /\ Cardinality({d \in DOMAIN databases' \ keep' : databases'[d].age >= SizePruneMinAgeDays})
               <= KeepLatestDatabases
          /\ \A d \in DOMAIN orphans' : orphans'[d].age < SizePruneMinAgeDays
  BY <1>11, <1>14, <1>16, <1>24, <1>25, MaintenanceAssumption
<1>27. /\ before'.databases = databases /\ before'.orphans = orphans
       /\ DOMAIN before'.databases \ DOMAIN databases' = gone
  BY <1>1, <1>17, <1>22
<1>28. gone \cap keep' = {}
  BY <1>1, <1>7, <1>17
<1>29. ASSUME NEW d \in gone
       PROVE  Cardinality({x \in DOMAIN databases' : databases'[x].age <= databases[d].age})
                >= KeepLatestDatabases
  <2> DEFINE older == {x \in DOMAIN databases' : databases'[x].age <= databases[d].age}
  <2>1. d \in DOMAIN databases \ newest
    BY <1>7, <1>17
  <2>2. newest \in SUBSET older
    BY <1>7, <1>10, <1>17, <1>22, <1>23, <2>1
  <2>3. IsFiniteSet(older)
    BY <1>22, EntriesType, FS_Subset
  <2> HIDE DEF older
  <2>4. Cardinality(newest) <= Cardinality(older) /\ Cardinality(older) \in Nat
    BY <2>2, <2>3, FS_Subset, FS_CardinalityType
  <2>5. Cardinality(newest) = KeepLatestDatabases
    BY <1>10, <2>1
  <2> QED BY <2>4, <2>5, MaintenanceAssumption DEF older
<1>30. ASSUME NEW d \in gone
       PROVE  \/ databases[d].age >= MaxAgeDays
              \/ /\ databases[d].age >= SizePruneMinAgeDays
                 /\ Bytes(databases) + Bytes(orphans) > MaxTotalBytes
  <2>1. CASE d \in tooOld
    BY <2>1 DEF tooOld
  <2>2. CASE d \in capped
    <3>1. databases[d].age >= SizePruneMinAgeDays
      BY <1>12, <2>2 DEF young
    <3>2. after > MaxTotalBytes
      <4> HIDE DEF after
      <4> QED BY <1>3, <1>4, <1>11, <2>2, PrunesWhenFull DEF capped
    <3> QED BY <1>11, <3>1, <3>2, MaintenanceAssumption
  <2> QED BY <2>1, <2>2 DEF gone
<1>31. CapRespected'
  BY <1>26, <1>27, <1>28, <1>29, <1>30, Zenon DEF CapRespected
<1> QED BY <1>22, <1>31 DEF EntriesFound

LEMMA EntriesOf == \A files : files \in SomeFiles <=> Entries(files)
BY DEF SomeFiles, Entries

(* After a maintenance the directory fits the cap or nothing but kept,     *)
(* newest and young files is left; it took none of those, and nothing      *)
(* below the age limit while everything fitted: what markPrunableEntries   *)
(* subtracts as it marks is what there is to subtract.                     *)
THEOREM CapIsRespected == MaintenanceSpec => []CapRespected
<1>1. MaintenanceInit => EntriesFound /\ CapRespected
  BY EntriesOf DEF MaintenanceInit, EntriesFound, CapRespected
<1>2. EntriesFound /\ CapRespected /\ [MaintenanceNext]_maintenanceVars
        => (EntriesFound /\ CapRespected)'
  <2> SUFFICES ASSUME EntriesFound, CapRespected, [MaintenanceNext]_maintenanceVars
               PROVE  EntriesFound' /\ CapRespected'
    OBVIOUS
  <2>1. CASE Maintain
    BY <2>1, MaintainedRight
  <2>2. ASSUME NEW d \in Digests, ServerWrites(d) PROVE EntriesFound' /\ CapRespected'
    <3>1. PICK size \in Sizes : databases' = [x \in DOMAIN databases \cup {d} |->
            IF x = d THEN [age |-> 0, size |-> size] ELSE databases[x]]
      BY <2>2 DEF ServerWrites
    <3>2. [age |-> 0, size |-> size] \in File
      BY MaintenanceAssumption DEF File
    <3>3. databases' \in [DOMAIN databases \cup {d} -> File]
      BY <3>1, <3>2, EntriesType DEF EntriesFound
    <3>4. Entries(databases')
      BY <3>3, EntriesType DEF EntriesFound, Entries
    <3>5. Entries(orphans')
      <4>1. DOMAIN orphans \ {d} = DOMAIN orphans \ (DOMAIN orphans \cap {d})
        OBVIOUS
      <4>2. orphans' = Restrict(orphans, DOMAIN orphans \ (DOMAIN orphans \cap {d}))
        BY <2>2, <4>1 DEF ServerWrites
      <4> QED BY <4>2, BytesLeft DEF EntriesFound
    <3> QED BY <2>2, <3>4, <3>5 DEF ServerWrites, EntriesFound, CapRespected
  <2>3. CASE UNCHANGED maintenanceVars
    BY <2>3 DEF maintenanceVars, EntriesFound, CapRespected
  <2> QED BY <2>1, <2>2, <2>3 DEF MaintenanceNext
<1> QED BY <1>1, <1>2, PTL DEF MaintenanceSpec

-----------------------------------------------------------------------------
(* What the theorems ask of a session.                                     *)

\* Empty docstrings are rows that a refresh does not count (run refresh_rebuilds).
NoBlanks == \A f \in SourceFiles : \A c \in Contents[f] : c # Missing => c.blank = 0

\* A root that may be copied from a peer shares no file with another root.
Apart == \A r \in SourceRoots \ Editable : \A o \in SourceRoots \ {r} : Under[r] \cap Under[o] = {}

\* The rows are those of files below the roots.
AllBelow == \A f \in SourceFiles : \E r \in SourceRoots : f \in Under[r]

Counts == [files : Nat, docs : Nat]

LEMMA AddUpType ==
  ASSUME NEW S, IsFiniteSet(S), NEW c \in [S -> Counts]
  PROVE  AddUp(S, c) \in Counts
<1> DEFINE fs == [x \in S |-> c[x].files]
           ds == [x \in S |-> c[x].docs]
<1>1. fs \in [S -> Nat] /\ ds \in [S -> Nat]
  BY DEF Counts
<1> HIDE DEF fs, ds
<1>2. Total(S, fs) \in Nat /\ Total(S, ds) \in Nat
  BY <1>1, UnitsFinite
<1> QED BY <1>2 DEF AddUp, Counts, fs, ds

LEMMA AddUpSplit ==
  ASSUME NEW S, IsFiniteSet(S), NEW c \in [S -> Counts], NEW A \in SUBSET S
  PROVE  AddUp(S, c) = Plus(AddUp(A, [x \in A |-> c[x]]), AddUp(S \ A, [x \in S \ A |-> c[x]]))
<1> DEFINE fs == [x \in S |-> c[x].files]
           ds == [x \in S |-> c[x].docs]
           R == S \ A
           a == [x \in A |-> c[x]]
           r == [x \in R |-> c[x]]
<1>1. fs \in [S -> Nat] /\ ds \in [S -> Nat]
  BY DEF Counts
<1>2. /\ [x \in A |-> fs[x]] = [x \in A |-> a[x].files]
      /\ [x \in A |-> ds[x]] = [x \in A |-> a[x].docs]
      /\ [x \in R |-> fs[x]] = [x \in R |-> r[x].files]
      /\ [x \in R |-> ds[x]] = [x \in R |-> r[x].docs]
  OBVIOUS
<1>3. Total(S, fs) = Total(A, [x \in A |-> fs[x]])
                                  + Total(R, [x \in R |-> fs[x]])
  <2> HIDE DEF fs
  <2> QED BY <1>1, UnitsSplit, Zenon
<1>4. Total(S, ds) = Total(A, [x \in A |-> ds[x]])
                                  + Total(R, [x \in R |-> ds[x]])
  <2> HIDE DEF ds
  <2> QED BY <1>1, UnitsSplit, Zenon
<1>5. Total(S, fs) = Total(A, [x \in A |-> a[x].files])
                                  + Total(R, [x \in R |-> r[x].files])
  BY <1>2, <1>3
<1>6. Total(S, ds) = Total(A, [x \in A |-> a[x].docs])
                                  + Total(R, [x \in R |-> r[x].docs])
  BY <1>2, <1>4
<1> HIDE DEF a, r
<1>7. AddUp(S, c) = Plus(AddUp(A, a), AddUp(R, r))
  BY <1>5, <1>6 DEF AddUp, Plus
<1> QED BY <1>7 DEF a, r

LEMMA AddUpGrow ==
  ASSUME NEW S, IsFiniteSet(S), NEW c \in [S -> Counts], NEW d \in [S -> Counts],
         \A x \in S : c[x].files <= d[x].files /\ c[x].docs <= d[x].docs,
         AddUp(S, c) = AddUp(S, d)
  PROVE  c = d
<1> DEFINE fs(e) == [x \in S |-> e[x].files]
           ds(e) == [x \in S |-> e[x].docs]
<1>1. /\ fs(c) \in [S -> Nat] /\ ds(c) \in [S -> Nat]
      /\ fs(d) \in [S -> Nat] /\ ds(d) \in [S -> Nat]
  BY DEF Counts
<1>2. \A x \in S : fs(c)[x] <= fs(d)[x] /\ ds(c)[x] <= ds(d)[x]
  OBVIOUS
<1>3. /\ \A x \in S : fs(c)[x] = c[x].files /\ fs(d)[x] = d[x].files
      /\ \A x \in S : ds(c)[x] = c[x].docs /\ ds(d)[x] = d[x].docs
  OBVIOUS
<1>4. /\ Total(S, fs(c)) = Total(S, fs(d))
      /\ Total(S, ds(c)) = Total(S, ds(d))
  BY DEF AddUp
<1> HIDE DEF fs, ds
<1>5. fs(c) = fs(d) /\ ds(c) = ds(d)
  BY <1>1, <1>2, <1>4, UnitsGrow
<1>6. \A x \in S : c[x].files = d[x].files /\ c[x].docs = d[x].docs
  BY <1>3, <1>5
<1>7. \A x \in S : c[x] = d[x]
  BY <1>6 DEF Counts
<1> QED BY <1>7

LEMMA AddUpLess ==
  ASSUME NEW S, IsFiniteSet(S), NEW c \in [S -> Counts], NEW d \in [S -> Counts],
         \A x \in S : c[x].files <= d[x].files /\ c[x].docs <= d[x].docs
  PROVE  AddUp(S, c).files <= AddUp(S, d).files /\ AddUp(S, c).docs <= AddUp(S, d).docs
<1> DEFINE fs(e) == [x \in S |-> e[x].files]
           ds(e) == [x \in S |-> e[x].docs]
<1>1. /\ fs(c) \in [S -> Nat] /\ ds(c) \in [S -> Nat]
      /\ fs(d) \in [S -> Nat] /\ ds(d) \in [S -> Nat]
  BY DEF Counts
<1>2. \A x \in S : fs(c)[x] <= fs(d)[x] /\ ds(c)[x] <= ds(d)[x]
  OBVIOUS
<1>3. /\ AddUp(S, c).files = Total(S, fs(c))
      /\ AddUp(S, d).files = Total(S, fs(d))
      /\ AddUp(S, c).docs = Total(S, ds(c))
      /\ AddUp(S, d).docs = Total(S, ds(d))
  BY DEF AddUp
<1> HIDE DEF fs, ds
<1> QED BY <1>1, <1>2, <1>3, UnitsGrow

LEMMA AddUpNothing ==
  ASSUME NEW S, IsFiniteSet(S), NEW c \in [S -> Counts]
  PROVE  /\ (\A x \in S : c[x] = Nothing) => AddUp(S, c) = Nothing
         /\ AddUp(S, c).files = 0 => \A x \in S : c[x].files = 0
<1> DEFINE fs == [x \in S |-> c[x].files]
           ds == [x \in S |-> c[x].docs]
<1>1. fs \in [S -> Nat] /\ ds \in [S -> Nat]
  BY DEF Counts
<1>2. /\ \A x \in S : fs[x] = c[x].files /\ ds[x] = c[x].docs
      /\ AddUp(S, c) = [files |-> Total(S, fs), docs |-> Total(S, ds)]
  BY DEF AddUp
<1> HIDE DEF fs, ds
<1>3. IsFiniteSet(Units(S, fs)) /\ IsFiniteSet(Units(S, ds))
  BY <1>1, UnitsFinite
<1>4. ASSUME \A x \in S : c[x] = Nothing PROVE AddUp(S, c) = Nothing
  <2>1. \A x \in S : fs[x] = 0 /\ ds[x] = 0
    BY <1>2, <1>4 DEF Nothing
  <2>2. Units(S, fs) = {}
    <3>1. \A u \in Units(S, fs) : FALSE
      BY <2>1, UnitsOf
    <3> QED BY <3>1
  <2>3. Units(S, ds) = {}
    <3>1. \A u \in Units(S, ds) : FALSE
      BY <2>1, UnitsOf
    <3> QED BY <3>1
  <2> QED BY <1>2, <2>2, <2>3, FS_EmptySet DEF Nothing, Total
<1>5. ASSUME AddUp(S, c).files = 0, NEW x \in S PROVE c[x].files = 0
  <2>1. Units(S, fs) = {}
    BY <1>2, <1>3, <1>5, FS_EmptySet DEF Total
  <2>2. ASSUME fs[x] # 0 PROVE FALSE
    <3>1. 1 \in 1..fs[x]
      BY <1>1, <2>2
    <3>2. <<x, 1>> \in Units(S, fs)
      BY <3>1, UnitsOf
    <3> QED BY <2>1, <3>2
  <2> QED BY <1>2, <2>2
<1> QED BY <1>4, <1>5

-----------------------------------------------------------------------------
(* Rows counted.                                                           *)

Row == [source : Content, docs : Nat]
Rows == [SourceFiles -> Row \cup {Missing}]
RootRows == [SourceRoots -> [counts : Counts, marker : Nat] \cup {Missing}]

LEMMA NotMissing ==
  /\ Missing \notin Content /\ Missing \notin Row /\ Missing \notin Counts
  /\ Missing \notin [counts : Counts, marker : Nat]
<1>1. Counts \subseteq [files : Int, docs : Int]
  BY DEF Counts
<1>2. [counts : Counts, marker : Nat] \subseteq [counts : [files : Int, docs : Int], marker : Nat]
  BY <1>1
<1> QED BY <1>1, <1>2, MetadataAssumption DEF Row

LEMMA FilesFinite ==
  ASSUME NEW A \in SUBSET SourceFiles
  PROVE  IsFiniteSet(A)
BY MetadataAssumption, FS_Subset

LEMMA RowCountsType ==
  ASSUME NEW rows \in Rows, NEW A \in SUBSET SourceFiles
  PROVE  [f \in A |-> RowCounts(rows[f])] \in [A -> Counts]
<1>1. \A row \in Row \cup {Missing} : RowCounts(row) \in Counts
  BY DEF RowCounts, Row, Counts, Nothing
<1>2. \A f \in A : rows[f] \in Row \cup {Missing}
  BY DEF Rows
<1> QED BY <1>1, <1>2

LEMMA RecountType ==
  ASSUME NEW rows \in Rows, NEW A \in SUBSET SourceFiles
  PROVE  Recount(rows, A) \in Counts
BY FilesFinite, RowCountsType, AddUpType DEF Recount

LEMMA RecountSplit ==
  ASSUME NEW rows \in Rows, NEW A \in SUBSET SourceFiles, NEW B \in SUBSET A
  PROVE  Recount(rows, A) = Plus(Recount(rows, B), Recount(rows, A \ B))
<1> DEFINE c == [f \in A |-> RowCounts(rows[f])]
           b == [f \in B |-> RowCounts(rows[f])]
           r == [f \in A \ B |-> RowCounts(rows[f])]
<1>1. c \in [A -> Counts] /\ IsFiniteSet(A)
  BY FilesFinite, RowCountsType
<1>2. b = [f \in B |-> c[f]] /\ r = [f \in A \ B |-> c[f]]
  OBVIOUS
<1> HIDE DEF c, b, r
<1>3. AddUp(A, c) = Plus(AddUp(B, b), AddUp(A \ B, r))
  BY <1>1, <1>2, AddUpSplit, Zenon
<1> QED BY <1>3 DEF Recount, c, b, r

LEMMA RecountSame ==
  ASSUME NEW rows \in Rows, NEW old \in Rows, NEW A \in SUBSET SourceFiles,
         \A f \in A : rows[f] = old[f]
  PROVE  Recount(rows, A) = Recount(old, A)
<1>1. [f \in A |-> RowCounts(rows[f])] = [f \in A |-> RowCounts(old[f])]
  OBVIOUS
<1> QED BY <1>1 DEF Recount

LEMMA RecountNone ==
  ASSUME NEW rows \in Rows, NEW A \in SUBSET SourceFiles, \A f \in A : rows[f] = Missing
  PROVE  Recount(rows, A) = Nothing
<1>1. \A f \in A : [g \in A |-> RowCounts(rows[g])][f] = Nothing
  BY DEF RowCounts
<1> QED BY <1>1, FilesFinite, RowCountsType, AddUpNothing DEF Recount

\* No files are counted only where there are no rows.
LEMMA RecountZero ==
  ASSUME NEW rows \in Rows, NEW A \in SUBSET SourceFiles, Recount(rows, A).files = 0,
         NEW f \in A
  PROVE  rows[f] = Missing
<1>1. [g \in A |-> RowCounts(rows[g])][f].files = 0
  BY FilesFinite, RowCountsType, AddUpNothing DEF Recount
<1> QED BY <1>1 DEF RowCounts, Nothing

\* Rows of which some were lost.
LostRow(row, full) == row = full \/ row = Missing \/ (full # Missing /\ row = [full EXCEPT !.docs = 0])
Lost(rows, full) == \A f \in SourceFiles : LostRow(rows[f], full[f])

LEMMA RowLost ==
  ASSUME NEW row \in Row \cup {Missing}, NEW full \in Row \cup {Missing}, LostRow(row, full)
  PROVE  /\ RowCounts(row).files <= RowCounts(full).files
         /\ RowCounts(row).docs <= RowCounts(full).docs
         /\ RowCounts(row) = RowCounts(full) => row = full
<1>1. CASE row = full
  BY <1>1 DEF RowCounts, Row, Nothing
<1>2. CASE row = Missing
  BY <1>2 DEF RowCounts, Row, Nothing
<1>3. CASE full # Missing /\ row = [full EXCEPT !.docs = 0]
  <2>1. /\ row \in Row /\ full \in Row
        /\ row.docs = 0 /\ row.source = full.source
    BY <1>3 DEF Row
  <2>2. row # Missing /\ full # Missing
    BY <2>1, NotMissing
  <2>3. RowCounts(row) = [files |-> 1, docs |-> 0] /\ RowCounts(full) = [files |-> 1, docs |-> full.docs]
    BY <2>1, <2>2 DEF RowCounts
  <2>4. full.docs = 0 => row = full
    BY <2>1 DEF Row
  <2>5. full.docs \in Nat
    BY <2>1 DEF Row
  <2>6. RowCounts(row) = RowCounts(full) => full.docs = 0
    BY <2>3
  <2> QED BY <2>3, <2>4, <2>5, <2>6
<1> QED BY <1>1, <1>2, <1>3 DEF LostRow

LEMMA RecountLost ==
  ASSUME NEW rows \in Rows, NEW full \in Rows, Lost(rows, full), NEW A \in SUBSET SourceFiles
  PROVE  /\ Recount(rows, A).files <= Recount(full, A).files
         /\ Recount(rows, A).docs <= Recount(full, A).docs
         /\ Recount(rows, A) = Recount(full, A) => \A f \in A : rows[f] = full[f]
<1> DEFINE c == [f \in A |-> RowCounts(rows[f])]
           d == [f \in A |-> RowCounts(full[f])]
<1>1. c \in [A -> Counts] /\ d \in [A -> Counts] /\ IsFiniteSet(A)
  BY FilesFinite, RowCountsType
<1>2. \A f \in A : c[f].files <= d[f].files /\ c[f].docs <= d[f].docs
  <2> SUFFICES ASSUME NEW f \in A PROVE c[f].files <= d[f].files /\ c[f].docs <= d[f].docs
    OBVIOUS
  <2>1. c[f] = RowCounts(rows[f]) /\ d[f] = RowCounts(full[f])
    OBVIOUS
  <2>2. rows[f] \in Row \cup {Missing} /\ full[f] \in Row \cup {Missing}
    BY DEF Rows
  <2>3. RowCounts(rows[f]).files <= RowCounts(full[f]).files
        /\ RowCounts(rows[f]).docs <= RowCounts(full[f]).docs
    BY <2>2, RowLost DEF Lost
  <2> QED BY <2>1, <2>3
<1>3. \A f \in A : c[f] = RowCounts(rows[f]) /\ d[f] = RowCounts(full[f])
  OBVIOUS
<1>4. Recount(rows, A) = AddUp(A, c) /\ Recount(full, A) = AddUp(A, d)
  BY DEF Recount
<1> HIDE DEF c, d
<1>5. ASSUME AddUp(A, c) = AddUp(A, d), NEW f \in A PROVE rows[f] = full[f]
  <2>1. c[f] = d[f]
    BY <1>1, <1>2, <1>5, AddUpGrow
  <2>2. RowCounts(rows[f]) = RowCounts(full[f])
    BY <1>3, <2>1
  <2>3. rows[f] \in Row \cup {Missing} /\ full[f] \in Row \cup {Missing}
    BY DEF Rows
  <2> QED BY <2>2, <2>3, RowLost DEF Lost
<1>6. AddUp(A, c).files <= AddUp(A, d).files /\ AddUp(A, c).docs <= AddUp(A, d).docs
  BY <1>1, <1>2, AddUpLess
<1> QED BY <1>4, <1>5, <1>6

-----------------------------------------------------------------------------
(* Writing.                                                                *)

\* The counts of a root are those of the rows below it.
Exact(rows, roots) ==
  \A r \in SourceRoots : roots[r] # Missing => roots[r].counts = Recount(rows, Under[r])

Database == [files : Rows, roots : RootRows]

\* What the indexer reads.
WorldRight ==
  /\ disk \in [SourceFiles -> Content \cup {Missing}]
  /\ \A f \in SourceFiles : disk[f] \in Contents[f]
  /\ markers \in [SourceRoots -> Nat]

\* The rows that PersistPaths leaves.
NewRows(old, changed, deleted) ==
  [f \in SourceFiles |-> IF f \in changed THEN RowOf(disk[f])
                         ELSE IF f \in deleted THEN Missing ELSE old[f]]

LEMMA RowOfContent ==
  ASSUME NEW c \in Content
  PROVE  RowOf(c) \in Row /\ RowOf(c) # Missing /\ IsWhole(RowOf(c))
<1>1. RowOf(c) \in Row
  BY DEF RowOf, Row, Content
<1> QED BY <1>1, NotMissing DEF IsWhole, RowOf

LEMMA DiskRow ==
  ASSUME WorldRight, NEW f \in Existing
  PROVE  disk[f] \in Content /\ RowOf(disk[f]) \in Row
<1>1. disk[f] \in Content
  BY DEF WorldRight, Existing, Files
<1> QED BY <1>1, RowOfContent

LEMMA NewRowsType ==
  ASSUME WorldRight, NEW old \in Rows, NEW changed \in SUBSET Existing, NEW deleted
  PROVE  NewRows(old, changed, deleted) \in Rows
<1> SUFFICES ASSUME NEW f \in SourceFiles
             PROVE  (IF f \in changed THEN RowOf(disk[f])
                     ELSE IF f \in deleted THEN Missing ELSE old[f]) \in Row \cup {Missing}
  BY DEF NewRows, Rows
<1>1. f \in changed => RowOf(disk[f]) \in Row
  BY DiskRow
<1>2. old[f] \in Row \cup {Missing}
  BY DEF Rows
<1> QED BY <1>1, <1>2

\* What is added for the changed files is what their new rows count.
LEMMA ChangedCounts ==
  ASSUME NoBlanks, WorldRight, NEW old \in Rows, NEW changed \in SUBSET Existing, NEW deleted,
         NEW A \in SUBSET changed
  PROVE  AddUp(A, [f \in A |-> NewCounts(f)]) = Recount(NewRows(old, changed, deleted), A)
<1> DEFINE new == NewRows(old, changed, deleted)
<1>1. \A f \in A : RowCounts(new[f]) = NewCounts(f)
  <2> SUFFICES ASSUME NEW f \in A PROVE RowCounts(new[f]) = NewCounts(f)
    OBVIOUS
  <2>1. f \in SourceFiles /\ f \in Existing /\ f \in changed
    BY DEF Existing, Files
  <2>2. new[f] = RowOf(disk[f])
    BY <2>1 DEF NewRows
  <2>3. disk[f] \in Content /\ RowOf(disk[f]) \in Row
    BY <2>1, DiskRow
  <2>4. disk[f].blank = 0 /\ disk[f].docs \in Nat
    BY <2>1, <2>3, NotMissing DEF NoBlanks, WorldRight, Content
  <2>5. RowOf(disk[f]).docs = disk[f].docs
    BY <2>4 DEF RowOf
  <2>6. RowOf(disk[f]) # Missing
    BY <2>3, NotMissing
  <2> QED BY <2>2, <2>5, <2>6 DEF RowCounts, NewCounts
<1> HIDE DEF new
<1>2. [f \in A |-> NewCounts(f)] = [f \in A |-> RowCounts(new[f])]
  BY <1>1
<1> QED BY <1>2 DEF Recount, new

LEMMA Balance ==
  ASSUME NEW a \in Counts, NEW b \in Counts, NEW k \in Counts, NEW w \in Counts, NEW n \in Counts,
         a = Plus(k, w), b = Plus(Plus(n, Nothing), w)
  PROVE  Plus(a, Minus(n, k)) = b
BY DEF Counts, Plus, Minus, Nothing

LEMMA DeltaExact ==
  ASSUME NoBlanks, WorldRight, NEW old \in Rows,
         NEW changed \in SUBSET Existing, NEW deleted \in SUBSET (SourceFiles \ Existing),
         NEW r \in SourceRoots
  PROVE  Plus(Recount(old, Under[r]), Delta(old, changed, deleted, r))
           = Recount(NewRows(old, changed, deleted), Under[r])
<1> DEFINE U == Under[r]
           K == (changed \cup deleted) \cap U
           C == changed \cap U
           new == NewRows(old, changed, deleted)
<1>1. U \in SUBSET SourceFiles
  BY MetadataAssumption
<1>2. new \in Rows
  BY NewRowsType
<1>3. Recount(old, U) = Plus(Recount(old, K), Recount(old, U \ K))
  BY <1>1, RecountSplit
<1>4. Recount(new, U) = Plus(Recount(new, K), Recount(new, U \ K))
  BY <1>1, <1>2, RecountSplit
<1>5. Recount(new, U \ K) = Recount(old, U \ K)
  <2>1. \A f \in U \ K : new[f] = old[f]
    BY <1>1 DEF NewRows
  <2> QED BY <1>1, <1>2, <2>1, RecountSame
<1>6. Recount(new, K) = Plus(Recount(new, C), Recount(new, K \ C))
  BY <1>1, <1>2, RecountSplit
<1>7. Recount(new, K \ C) = Nothing
  <2>1. \A f \in K \ C : new[f] = Missing
    BY <1>1 DEF NewRows
  <2> QED BY <1>1, <1>2, <2>1, RecountNone
<1>8. AddUp(C, [f \in C |-> NewCounts(f)]) = Recount(new, C)
  BY ChangedCounts
<1>9. Delta(old, changed, deleted, r) = Minus(Recount(new, C), Recount(old, K))
  BY <1>8 DEF Delta
<1>10. /\ Recount(old, U) \in Counts /\ Recount(new, U) \in Counts
       /\ Recount(old, K) \in Counts /\ Recount(new, C) \in Counts
       /\ Recount(old, U \ K) \in Counts
  BY <1>1, <1>2, RecountType
<1>11. Recount(new, U) = Plus(Plus(Recount(new, C), Nothing), Recount(old, U \ K))
  BY <1>4, <1>5, <1>6, <1>7
<1> HIDE DEF U, K, C, new
<1>12. Plus(Recount(old, U), Minus(Recount(new, C), Recount(old, K))) = Recount(new, U)
  BY <1>3, <1>10, <1>11, Balance
<1> QED BY <1>9, <1>12 DEF U, new

LEMMA CountedExact ==
  ASSUME WorldRight, NEW rows \in Rows
  PROVE  /\ \A r \in SourceRoots : /\ Counted(rows, r) \in [counts : Counts, marker : Nat]
                                   /\ Counted(rows, r).counts = Recount(rows, Under[r])
         /\ CountAgain(rows) \in RootRows
         /\ Exact(rows, CountAgain(rows))
<1>1. \A r \in SourceRoots : Recount(rows, Under[r]) \in Counts
  BY MetadataAssumption, RecountType
<1>2. \A r \in SourceRoots : markers[r] \in Nat
  BY DEF WorldRight
<1>3. \A r \in SourceRoots : /\ Counted(rows, r) \in [counts : Counts, marker : Nat]
                             /\ Counted(rows, r).counts = Recount(rows, Under[r])
  BY <1>1, <1>2 DEF Counted
<1> QED BY <1>3 DEF CountAgain, Exact, RootRows

LEMMA DeltasExact ==
  ASSUME NoBlanks, WorldRight, NEW db \in Database, Exact(db.files, db.roots),
         NEW changed \in SUBSET Existing, NEW deleted \in SUBSET (SourceFiles \ Existing)
  PROVE  LET new == NewRows(db.files, changed, deleted)
             roots == WithDeltas(db, new, changed, deleted)
         IN roots \in RootRows /\ Exact(new, roots)
<1> DEFINE new == NewRows(db.files, changed, deleted)
           roots == WithDeltas(db, new, changed, deleted)
<1>1. db.files \in Rows /\ db.roots \in RootRows
  BY DEF Database
<1>2. new \in Rows
  BY <1>1, NewRowsType
<1>3. ASSUME NEW r \in SourceRoots
      PROVE  /\ roots[r] \in [counts : Counts, marker : Nat] \cup {Missing}
             /\ roots[r] # Missing => roots[r].counts = Recount(new, Under[r])
  <2>1. Under[r] \subseteq SourceFiles /\ markers[r] \in Nat
    BY MetadataAssumption DEF WorldRight
  <2>2. db.roots[r] \in [counts : Counts, marker : Nat] \cup {Missing}
    BY <1>1 DEF RootRows
  <2>3. CASE r \notin Touched(changed \cup deleted)
    <3>1. \A f \in Under[r] : new[f] = db.files[f]
      BY <2>1, <2>3 DEF NewRows, Touched
    <3>2. Recount(new, Under[r]) = Recount(db.files, Under[r])
      BY <1>1, <1>2, <2>1, <3>1, RecountSame
    <3>3. roots[r] = db.roots[r]
      BY <2>3 DEF WithDeltas
    <3> QED BY <2>2, <3>2, <3>3 DEF Exact
  <2>4. CASE r \in Touched(changed \cup deleted) /\ db.roots[r] = Missing
    <3>1. roots[r] = Counted(new, r)
      BY <2>4 DEF WithDeltas
    <3> QED BY <1>2, <3>1, CountedExact
  <2>5. CASE r \in Touched(changed \cup deleted) /\ db.roots[r] # Missing
    <3> DEFINE sum == Plus(db.roots[r].counts, Delta(db.files, changed, deleted, r))
    <3>1. roots[r] = [counts |-> [files |-> Clamp(sum.files), docs |-> Clamp(sum.docs)],
                      marker |-> markers[r]]
      BY <2>5 DEF WithDeltas
    <3>2. sum = Recount(new, Under[r])
      BY <1>1, <2>5, DeltaExact DEF Exact
    <3>3. Recount(new, Under[r]) \in Counts
      BY <1>2, <2>1, RecountType
    <3> HIDE DEF sum
    <3>4. [files |-> Clamp(sum.files), docs |-> Clamp(sum.docs)] = sum
      BY <3>2, <3>3 DEF Counts, Clamp
    <3> QED BY <2>1, <3>1, <3>2, <3>3, <3>4
  <2> QED BY <2>3, <2>4, <2>5
<1>4. roots = [r \in SourceRoots |-> roots[r]]
  BY DEF WithDeltas
<1> HIDE DEF new, roots
<1>5. roots \in RootRows /\ Exact(new, roots)
  BY <1>3, <1>4 DEF RootRows, Exact
<1> QED BY <1>5 DEF new, roots

-----------------------------------------------------------------------------
(* Counts of the whole database.                                           *)

LEMMA OuterAbove ==
  ASSUME NEW r \in SourceRoots
  PROVE  \E o \in OuterRoots : Under[r] \subseteq Under[o]
<1> DEFINE Above == {o \in SourceRoots : Under[r] \subseteq Under[o]}
           Rest(o) == Cardinality(SourceFiles) - Cardinality(Under[o])
           T == {Rest(o) : o \in Above}
<1>1. \A o \in SourceRoots : /\ IsFiniteSet(Under[o]) /\ Cardinality(Under[o]) \in Nat
                             /\ Cardinality(Under[o]) <= Cardinality(SourceFiles)
                             /\ Cardinality(SourceFiles) \in Nat
  BY MetadataAssumption, FS_Subset, FS_CardinalityType
<1>2. \A o \in Above : Rest(o) \in Nat
  BY <1>1
<1>3. T \in SUBSET Nat /\ T # {}
  BY <1>2
<1>4. PICK n \in T : \A m \in T : n <= m
  <2> HIDE DEF T
  <2> QED BY <1>3, NatLeast
<1>5. PICK o \in Above : n = Rest(o)
  OBVIOUS
<1>6. ASSUME NEW p \in SourceRoots, Under[o] \subseteq Under[p], Under[o] # Under[p] PROVE FALSE
  <2>1. p \in Above
    BY <1>5, <1>6
  <2>2. Rest(o) <= Rest(p)
    BY <1>4, <1>5, <2>1
  <2>3. Cardinality(Under[o]) < Cardinality(Under[p])
    <3>1. IsFiniteSet(Under[p]) /\ Under[o] \in SUBSET Under[p]
      BY <1>1, <1>6
    <3> QED BY <1>1, <1>5, <1>6, <3>1, FS_Subset
  <2> QED BY <1>1, <1>5, <2>2, <2>3
<1>7. o \in OuterRoots
  BY <1>5, <1>6 DEF OuterRoots
<1> QED BY <1>5, <1>7

LEMMA OuterFinite == IsFiniteSet(OuterRoots) /\ OuterRoots \subseteq SourceRoots
<1>1. OuterRoots \subseteq SourceRoots
  BY DEF OuterRoots
<1> QED BY <1>1, MetadataAssumption, FS_Subset

OuterCounts(rows) == [r \in OuterRoots |-> Recount(rows, Under[r])]

LEMMA ActualType ==
  ASSUME NEW rows \in Rows
  PROVE  /\ Actual(rows) \in Counts
         /\ Actual(rows) = AddUp(OuterRoots, OuterCounts(rows))
         /\ OuterCounts(rows) \in [OuterRoots -> Counts]
<1>1. OuterCounts(rows) \in [OuterRoots -> Counts]
  BY OuterFinite, MetadataAssumption, RecountType DEF OuterCounts
<1>2. Actual(rows) = AddUp(OuterRoots, OuterCounts(rows))
  BY DEF Actual, OuterCounts
<1> QED BY <1>1, <1>2, OuterFinite, AddUpType

\* What is added up from the roots' counts, wherever none is missing or nothing is lost.
LEMMA CountsExact ==
  ASSUME NEW full \in Rows, NEW rows \in Rows, NEW roots \in RootRows, Exact(full, roots),
         rows = full \/ \A r \in OuterRoots : roots[r] # Missing
  PROVE  /\ CachedCounts(rows, roots) = Actual(full)
         /\ MetadataCounts(roots) # Missing => MetadataCounts(roots) = Actual(full)
<1>1. \A r \in OuterRoots : roots[r] # Missing => roots[r].counts = Recount(full, Under[r])
  BY OuterFinite DEF Exact
<1>2. CachedCounts(rows, roots) = Actual(full)
  <2>1. \A r \in OuterRoots :
          (IF roots[r] = Missing THEN Recount(rows, Under[r]) ELSE roots[r].counts)
            = Recount(full, Under[r])
    BY <1>1
  <2>2. [r \in OuterRoots |-> IF roots[r] = Missing THEN Recount(rows, Under[r])
                              ELSE roots[r].counts]
          = [r \in OuterRoots |-> Recount(full, Under[r])]
    BY <2>1
  <2> QED BY <2>2 DEF CachedCounts, Actual
<1>3. ASSUME MetadataCounts(roots) # Missing PROVE MetadataCounts(roots) = Actual(full)
  <2>1. \A r \in OuterRoots : roots[r] # Missing
    BY <1>3 DEF MetadataCounts
  <2>2. [r \in OuterRoots |-> roots[r].counts] = [r \in OuterRoots |-> Recount(full, Under[r])]
    BY <1>1, <2>1
  <2> QED BY <2>1, <2>2 DEF MetadataCounts, Actual
<1> QED BY <1>2, <1>3

LEMMA VerifiedExact ==
  ASSUME NEW rows \in Rows, NEW roots \in RootRows, Exact(rows, roots)
  PROVE  /\ VerifiedCounts(rows, roots) = Actual(rows)
         /\ VerifiedCounts(rows, roots) # Missing
BY CountsExact, ActualType, NotMissing DEF VerifiedCounts

\* Rows that were lost are missed in the counts.
LEMMA LostCounts ==
  ASSUME AllBelow, NEW full \in Rows, NEW rows \in Rows, Lost(rows, full),
         Actual(rows) = Actual(full)
  PROVE  rows = full
<1>1. /\ OuterCounts(rows) \in [OuterRoots -> Counts]
      /\ OuterCounts(full) \in [OuterRoots -> Counts]
      /\ AddUp(OuterRoots, OuterCounts(rows)) = AddUp(OuterRoots, OuterCounts(full))
  BY ActualType
<1>2. \A r \in OuterRoots : /\ OuterCounts(rows)[r].files <= OuterCounts(full)[r].files
                            /\ OuterCounts(rows)[r].docs <= OuterCounts(full)[r].docs
  BY OuterFinite, MetadataAssumption, RecountLost DEF OuterCounts
<1>3. OuterCounts(rows) = OuterCounts(full)
  BY <1>1, <1>2, OuterFinite, AddUpGrow
<1>4. \A r \in OuterRoots : Recount(rows, Under[r]) = Recount(full, Under[r])
  BY <1>3 DEF OuterCounts
<1>5. \A r \in OuterRoots : \A f \in Under[r] : rows[f] = full[f]
  BY <1>4, OuterFinite, MetadataAssumption, RecountLost
<1>6. \A f \in SourceFiles : rows[f] = full[f]
  BY <1>5, OuterAbove DEF AllBelow
<1> QED BY <1>6 DEF Rows

LEMMA NothingCounted ==
  ASSUME AllBelow, NEW rows \in Rows, Actual(rows).files = 0
  PROVE  (\A f \in SourceFiles : rows[f] = Missing) /\ Actual(rows) = Nothing
<1>1. \A r \in OuterRoots : OuterCounts(rows)[r].files = 0
  BY ActualType, OuterFinite, AddUpNothing
<1>2. \A r \in OuterRoots : Recount(rows, Under[r]).files = 0
  BY <1>1 DEF OuterCounts
<1>3. \A r \in OuterRoots : \A f \in Under[r] : rows[f] = Missing
  BY <1>2, OuterFinite, MetadataAssumption, RecountZero
<1>4. \A f \in SourceFiles : rows[f] = Missing
  BY <1>3, OuterAbove DEF AllBelow
<1>5. \A r \in OuterRoots : OuterCounts(rows)[r] = Nothing
  BY <1>4, OuterFinite, MetadataAssumption, RecountNone DEF OuterCounts
<1>6. Actual(rows) = Nothing
  BY <1>5, ActualType, OuterFinite, AddUpNothing
<1> QED BY <1>4, <1>6

-----------------------------------------------------------------------------
(* Roots copied from other databases.                                      *)

AllWhole(rows) == \A f \in SourceFiles : rows[f] # Missing => IsWhole(rows[f])

PeersRight ==
  /\ peerDbs \in [Peers -> Database]
  /\ \A p \in Peers : Exact(peerDbs[p].files, peerDbs[p].roots) /\ AllWhole(peerDbs[p].files)

\* Rows into which the wanted roots are copied.
WithCopies(order, rows) ==
  [f \in SourceFiles |-> IF \E w \in Wanted(order) : f \in Under[w] THEN Copied(order, f)
                         ELSE rows[f]]

LEMMA FromOffers ==
  ASSUME PeersRight, NEW order \in Orders, NEW w \in Wanted(order)
  PROVE  /\ w \in SourceRoots \ Editable
         /\ order[From(order, w)] \in Peers
         /\ peerDbs[order[From(order, w)]].roots[w] # Missing
<1>1. w \in SourceRoots \ Editable /\ Offers(order, w) # {}
  BY DEF Wanted
<1>2. Cardinality(Peers) \in Nat /\ order \in [1..Cardinality(Peers) -> Peers]
  BY MetadataAssumption, FS_CardinalityType DEF Orders
<1>3. Offers(order, w) \in SUBSET Nat
  BY <1>2 DEF Offers
<1>4. \E n \in Offers(order, w) : \A m \in Offers(order, w) : n <= m
  BY <1>1, <1>3, NatLeast
<1>5. From(order, w) \in Offers(order, w)
  BY <1>4 DEF From
<1> QED BY <1>1, <1>2, <1>5 DEF Offers, Matches

LEMMA CopiedFrom ==
  ASSUME Apart, PeersRight, NEW order \in Orders, NEW w \in Wanted(order), NEW f \in Under[w]
  PROVE  Copied(order, f) = peerDbs[order[From(order, w)]].files[f]
<1>1. \A v \in Wanted(order) : f \in Under[v] => v = w
  BY DEF Wanted, Apart
<1>2. {v \in Wanted(order) : f \in Under[v]} = {w}
  BY <1>1
<1> DEFINE copies == {From(order, r) : r \in {v \in Wanted(order) : f \in Under[v]}}
           last == CHOOSE n \in copies : \A m \in copies : m <= n
<1>3. copies = {From(order, w)}
  BY <1>2
<1>4. From(order, w) \in Nat
  <2>1. From(order, w) \in Offers(order, w)
    <3>1. Offers(order, w) # {} /\ Cardinality(Peers) \in Nat
      BY MetadataAssumption, FS_CardinalityType DEF Wanted
    <3>2. Offers(order, w) \in SUBSET Nat
      BY <3>1 DEF Offers, Orders
    <3>3. \E n \in Offers(order, w) : \A m \in Offers(order, w) : n <= m
      BY <3>1, <3>2, NatLeast
    <3> QED BY <3>3 DEF From
  <2>2. Cardinality(Peers) \in Nat
    BY MetadataAssumption, FS_CardinalityType
  <2> QED BY <2>1, <2>2 DEF Offers, Orders
<1>5. last = From(order, w)
  BY <1>3, <1>4
<1>6. Copied(order, f) = IF copies = {} THEN fileRows[f] ELSE peerDbs[order[last]].files[f]
  BY DEF Copied
<1> HIDE DEF copies, last
<1> QED BY <1>3, <1>5, <1>6

LEMMA CopyRow ==
  ASSUME Apart, PeersRight, NEW order \in Orders, NEW f \in SourceFiles,
         \E w \in Wanted(order) : f \in Under[w]
  PROVE  /\ Copied(order, f) \in Row \cup {Missing}
         /\ Copied(order, f) # Missing => IsWhole(Copied(order, f))
<1>1. PICK w \in Wanted(order) : f \in Under[w]
  OBVIOUS
<1> DEFINE p == order[From(order, w)]
<1>2. p \in Peers
  BY FromOffers
<1>3. Copied(order, f) = peerDbs[p].files[f]
  BY <1>1, CopiedFrom
<1> HIDE DEF p
<1>4. peerDbs[p].files \in Rows /\ AllWhole(peerDbs[p].files)
  BY <1>2 DEF PeersRight, Database
<1> QED BY <1>3, <1>4 DEF Rows, AllWhole

LEMMA NotCopied ==
  ASSUME NEW order \in Orders, NEW f \in SourceFiles, ~\E w \in Wanted(order) : f \in Under[w]
  PROVE  Copied(order, f) = fileRows[f]
<1>1. {From(order, r) : r \in {v \in Wanted(order) : f \in Under[v]}} = {}
  OBVIOUS
<1> QED BY <1>1 DEF Copied

LEMMA SeededFiles ==
  ASSUME NEW order \in Orders
  PROVE  Seeded(order).files = WithCopies(order, fileRows)
BY NotCopied DEF Seeded, WithCopies

LEMMA CopiesType ==
  ASSUME Apart, PeersRight, NEW order \in Orders, NEW rows \in Rows
  PROVE  /\ WithCopies(order, rows) \in Rows
         /\ AllWhole(rows) => AllWhole(WithCopies(order, rows))
<1>1. \A f \in SourceFiles : rows[f] \in Row \cup {Missing}
  BY DEF Rows
<1> QED BY <1>1, CopyRow DEF WithCopies, Rows, AllWhole

LEMMA CopiesExact ==
  ASSUME Apart, PeersRight, NEW order \in Orders, NEW rows \in Rows,
         rootRows \in RootRows, Exact(rows, rootRows)
  PROVE  /\ Seeded(order).roots \in RootRows
         /\ \A r \in SourceRoots : rootRows[r] # Missing => Seeded(order).roots[r] # Missing
         /\ Exact(WithCopies(order, rows), Seeded(order).roots)
<1> DEFINE copy == WithCopies(order, rows)
           roots == Seeded(order).roots
<1>1. copy \in Rows
  BY CopiesType
<1>2. ASSUME NEW r \in SourceRoots
      PROVE  /\ roots[r] \in [counts : Counts, marker : Nat] \cup {Missing}
             /\ rootRows[r] # Missing => roots[r] # Missing
             /\ roots[r] # Missing => roots[r].counts = Recount(copy, Under[r])
  <2>1. Under[r] \in SUBSET SourceFiles
    BY MetadataAssumption
  <2>2. CASE r \in Wanted(order)
    <3> DEFINE p == order[From(order, r)]
    <3>1. p \in Peers /\ peerDbs[p].roots[r] # Missing
      BY <2>2, FromOffers
    <3>2. roots[r] = peerDbs[p].roots[r]
      BY <2>2 DEF Seeded
    <3>3. \A f \in Under[r] : copy[f] = peerDbs[p].files[f]
      BY <2>1, <2>2, CopiedFrom DEF WithCopies
    <3> HIDE DEF p, copy, roots
    <3>4. peerDbs[p].files \in Rows /\ peerDbs[p].roots \in RootRows
          /\ Exact(peerDbs[p].files, peerDbs[p].roots)
      BY <3>1 DEF PeersRight, Database
    <3>5. Recount(copy, Under[r]) = Recount(peerDbs[p].files, Under[r])
      BY <1>1, <2>1, <3>3, <3>4, RecountSame
    <3> QED BY <3>1, <3>2, <3>4, <3>5 DEF Exact, RootRows
  <2>3. CASE r \notin Wanted(order)
    <3>1. roots[r] = rootRows[r]
      BY <2>3 DEF Seeded
    <3>2. \A f \in Under[r] : ~\E w \in Wanted(order) : f \in Under[w]
      BY <2>3 DEF Wanted, Apart
    <3>3. \A f \in Under[r] : copy[f] = rows[f]
      BY <2>1, <3>2 DEF WithCopies
    <3> HIDE DEF copy, roots
    <3>4. Recount(copy, Under[r]) = Recount(rows, Under[r])
      BY <1>1, <2>1, <3>3, RecountSame
    <3> QED BY <3>1, <3>4 DEF Exact, RootRows
  <2> QED BY <2>2, <2>3
<1>3. roots = [r \in SourceRoots |-> roots[r]]
  BY DEF Seeded
<1> HIDE DEF copy, roots
<1>4. roots \in RootRows /\ Exact(copy, roots)
  BY <1>2, <1>3 DEF RootRows, Exact
<1> QED BY <1>2, <1>4 DEF copy, roots

LEMMA CopiesLost ==
  ASSUME NEW order \in Orders, NEW rows, NEW full, Lost(rows, full)
  PROVE  Lost(WithCopies(order, rows), WithCopies(order, full))
BY DEF Lost, LostRow, WithCopies

-----------------------------------------------------------------------------
(* What the steps write.                                                   *)

MetaTypes ==
  /\ WorldRight /\ PeersRight
  /\ fileRows \in Rows /\ rootRows \in RootRows /\ cached \in Counts

LEMMA DeltasType ==
  ASSUME WorldRight, NEW db \in Database, NEW changed \in SUBSET Existing, NEW deleted,
         NEW rows \in Rows
  PROVE  WithDeltas(db, rows, changed, deleted) \in RootRows
<1> DEFINE roots == WithDeltas(db, rows, changed, deleted)
<1>1. db.files \in Rows /\ db.roots \in RootRows
  BY DEF Database
<1>2. ASSUME NEW r \in SourceRoots
      PROVE  roots[r] \in [counts : Counts, marker : Nat] \cup {Missing}
  <2>1. Under[r] \subseteq SourceFiles /\ markers[r] \in Nat
    BY MetadataAssumption DEF WorldRight
  <2>2. db.roots[r] \in [counts : Counts, marker : Nat] \cup {Missing}
    BY <1>1 DEF RootRows
  <2>3. CASE r \notin Touched(changed \cup deleted)
    BY <2>2, <2>3 DEF WithDeltas
  <2>4. CASE r \in Touched(changed \cup deleted) /\ db.roots[r] = Missing
    BY <2>4, CountedExact DEF WithDeltas
  <2>5. CASE r \in Touched(changed \cup deleted) /\ db.roots[r] # Missing
    <3> DEFINE C == changed \cap Under[r]
               added == AddUp(C, [f \in C |-> NewCounts(f)])
               lost == Recount(db.files, (changed \cup deleted) \cap Under[r])
               sum == Plus(db.roots[r].counts, Delta(db.files, changed, deleted, r))
    <3>1. roots[r] = [counts |-> [files |-> Clamp(sum.files), docs |-> Clamp(sum.docs)],
                      marker |-> markers[r]]
      BY <2>5 DEF WithDeltas
    <3>2. added \in Counts
      <4>1. \A f \in C : disk[f] \in Content
        BY DiskRow
      <4>2. \A f \in C : NewCounts(f) \in Counts
        BY <4>1 DEF NewCounts, Counts, Content
      <4>3. [f \in C |-> NewCounts(f)] \in [C -> Counts] /\ IsFiniteSet(C)
        BY <2>1, <4>2, FilesFinite
      <4> HIDE DEF C
      <4> QED BY <4>3, AddUpType
    <3>3. lost \in Counts
      BY <1>1, <2>1, RecountType
    <3>4. Delta(db.files, changed, deleted, r) = Minus(added, lost)
      BY DEF Delta
    <3> HIDE DEF added, lost, C
    <3>5. sum.files \in Int /\ sum.docs \in Int
      BY <2>2, <2>5, <3>2, <3>3, <3>4 DEF Counts, Plus, Minus
    <3> HIDE DEF sum
    <3>6. Clamp(sum.files) \in Nat /\ Clamp(sum.docs) \in Nat
      BY <3>5 DEF Clamp
    <3> QED BY <2>1, <3>1, <3>6 DEF Counts
  <2> QED BY <2>3, <2>4, <2>5
<1>3. roots = [r \in SourceRoots |-> roots[r]]
  BY DEF WithDeltas
<1> HIDE DEF roots
<1>4. roots \in RootRows
  BY <1>2, <1>3 DEF RootRows
<1> QED BY <1>4 DEF roots

LEMMA PersistRight ==
  ASSUME WorldRight, NEW db \in Database, NEW changed \in SUBSET Existing,
         NEW deleted \in SUBSET (SourceFiles \ Existing), NEW all \in BOOLEAN,
         PersistPaths(db, changed, deleted, all)
  PROVE  /\ fileRows' \in Rows /\ rootRows' \in RootRows
         /\ fileRows' = NewRows(db.files, changed, deleted)
         /\ AllWhole(db.files) => AllWhole(fileRows')
         /\ NoBlanks /\ Exact(db.files, db.roots) => Exact(fileRows', rootRows')
<1>1. db.files \in Rows
  BY DEF Database
<1> DEFINE rows == NewRows(db.files, changed, deleted)
           deltas == WithDeltas(db, rows, changed, deleted)
<1>2. /\ fileRows' = rows
      /\ \/ rootRows' = CountAgain(rows)
         \/ rootRows' = deltas
  BY DEF PersistPaths, NewRows
<1>3. rows \in Rows
  BY <1>1, NewRowsType
<1>4. deltas \in RootRows /\ CountAgain(rows) \in RootRows
  BY <1>3, DeltasType, CountedExact
<1>5. AllWhole(db.files) => AllWhole(rows)
  <2> SUFFICES ASSUME AllWhole(db.files), NEW f \in SourceFiles, rows[f] # Missing
               PROVE  IsWhole(rows[f])
    BY DEF AllWhole
  <2>1. CASE f \in changed
    BY <2>1, DiskRow, RowOfContent DEF NewRows
  <2>2. CASE f \notin changed
    BY <2>2 DEF NewRows, AllWhole
  <2> QED BY <2>1, <2>2
<1>6. NoBlanks /\ Exact(db.files, db.roots) => Exact(rows, deltas)
  BY DeltasExact
<1>7. Exact(rows, CountAgain(rows))
  BY <1>3, CountedExact
<1> HIDE DEF rows, deltas
<1>8. fileRows' = NewRows(db.files, changed, deleted)
  BY <1>2 DEF rows
<1> QED BY <1>2, <1>3, <1>4, <1>5, <1>6, <1>7, <1>8

LEMMA RebuildRight ==
  ASSUME WorldRight, RebuildIndex
  PROVE  /\ fileRows' \in Rows /\ rootRows' \in RootRows
         /\ AllWhole(fileRows') /\ Exact(fileRows', rootRows')
         /\ inMemory' = Files(fileRows') /\ cached' = Nothing /\ whole' = TRUE
<1> DEFINE rows == [f \in SourceFiles |-> IF f \in Existing THEN RowOf(disk[f]) ELSE Missing]
<1>1. /\ fileRows' = rows /\ rootRows' = CountAgain(rows)
      /\ inMemory' = Existing /\ cached' = Nothing /\ whole' = TRUE
  BY DEF RebuildIndex
<1>2. \A f \in Existing : /\ RowOf(disk[f]) \in Row /\ RowOf(disk[f]) # Missing
                          /\ IsWhole(RowOf(disk[f]))
  BY DiskRow, RowOfContent
<1>3. rows \in Rows /\ AllWhole(rows) /\ Files(rows) = Existing
  BY <1>2 DEF Rows, AllWhole, Files, Existing
<1> HIDE DEF rows
<1>4. CountAgain(rows) \in RootRows /\ Exact(rows, CountAgain(rows))
  BY <1>3, CountedExact
<1> QED BY <1>1, <1>3, <1>4

LEMMA CompareRight ==
  ASSUME WorldRight, NEW db \in Database, CompareFiles(db), cached \in Counts
  PROVE  /\ fileRows' \in Rows /\ rootRows' \in RootRows /\ cached' \in Counts
         /\ inMemory' = {} /\ whole' = whole
         /\ AllWhole(db.files) => AllWhole(fileRows')
         /\ NoBlanks /\ Exact(db.files, db.roots) => /\ Exact(fileRows', rootRows')
                                                    /\ cached' = Actual(fileRows')
<1> DEFINE changed == {f \in Existing : db.files[f] = Missing \/ db.files[f].source # disk[f]}
           deleted == Files(db.files) \ Existing
           counts == VerifiedCounts(fileRows', rootRows')
<1>1. /\ IF changed \cup deleted = {} THEN fileRows' = db.files /\ rootRows' = db.roots
         ELSE PersistPaths(db, changed, deleted, deleted = {} /\ changed = Existing)
      /\ inMemory' = {} /\ whole' = whole
      /\ cached' = IF counts = Missing THEN cached ELSE counts
  BY DEF CompareFiles
<1>2. changed \in SUBSET Existing /\ deleted \in SUBSET (SourceFiles \ Existing)
  BY DEF Files
<1> HIDE DEF changed, deleted
<1>3. /\ fileRows' \in Rows /\ rootRows' \in RootRows
      /\ AllWhole(db.files) => AllWhole(fileRows')
      /\ NoBlanks /\ Exact(db.files, db.roots) => Exact(fileRows', rootRows')
  <2>1. CASE changed \cup deleted = {}
    BY <1>1, <2>1 DEF Database
  <2>2. CASE changed \cup deleted # {}
    <3>1. (deleted = {} /\ changed = Existing) \in BOOLEAN
      OBVIOUS
    <3>2. PersistPaths(db, changed, deleted, deleted = {} /\ changed = Existing)
      BY <1>1, <2>2
    <3> QED BY <1>2, <3>1, <3>2, PersistRight
  <2> QED BY <2>1, <2>2
<1>4. counts = Missing \/ counts \in Counts
  BY <1>3, ActualType DEF VerifiedCounts
<1>5. Exact(fileRows', rootRows') => counts = Actual(fileRows') /\ counts # Missing
  BY <1>3, VerifiedExact
<1> QED BY <1>1, <1>3, <1>4, <1>5

\* Other databases are written whole.
LEMMA PeerRight ==
  ASSUME NEW has \in SUBSET SourceRoots, NEW rows \in [SourceFiles -> Content \cup {Missing}],
         NEW m \in [SourceRoots -> Nat]
  PROVE  /\ PeerDb(has, rows, m) \in Database
         /\ Exact(PeerDb(has, rows, m).files, PeerDb(has, rows, m).roots)
         /\ AllWhole(PeerDb(has, rows, m).files)
<1> DEFINE below == UNION {Under[r] : r \in has}
           files == [f \in SourceFiles |-> IF f \in below /\ rows[f] # Missing
                                           THEN RowOf(rows[f]) ELSE Missing]
           roots == [r \in SourceRoots |-> IF r \in has
                       THEN [counts |-> Recount(files, Under[r]), marker |-> m[r]] ELSE Missing]
<1>1. PeerDb(has, rows, m) = [files |-> files, roots |-> roots]
  BY DEF PeerDb
<1>2. \A f \in SourceFiles : rows[f] # Missing => /\ RowOf(rows[f]) \in Row
                                                  /\ IsWhole(RowOf(rows[f]))
  BY RowOfContent
<1> HIDE DEF below
<1>3. files \in Rows /\ AllWhole(files)
  BY <1>2 DEF Rows, AllWhole
<1> HIDE DEF files
<1>4. \A r \in SourceRoots : Recount(files, Under[r]) \in Counts
  BY <1>3, MetadataAssumption, RecountType
<1>5. roots \in RootRows /\ Exact(files, roots)
  BY <1>4 DEF RootRows, Exact
<1> HIDE DEF roots
<1> QED BY <1>1, <1>3, <1>5 DEF Database

LEMMA InitTypes == MetadataInit => MetaTypes
<1> SUFFICES ASSUME MetadataInit PROVE MetaTypes
  OBVIOUS
<1>1. WorldRight
  <2>1. \A f \in SourceFiles : disk[f] \in Contents[f]
    BY DEF MetadataInit
  <2>2. disk \in [SourceFiles -> UNION {Contents[f] : f \in SourceFiles}]
    BY DEF MetadataInit
  <2>3. disk \in [SourceFiles -> Content \cup {Missing}]
    BY <2>1, <2>2, MetadataAssumption
  <2>4. markers \in [SourceRoots -> Nat]
    BY DEF MetadataInit
  <2> QED BY <2>1, <2>3, <2>4 DEF WorldRight
<1>2. \A p \in Peers : /\ peerDbs[p] \in Database
                       /\ Exact(peerDbs[p].files, peerDbs[p].roots)
                       /\ AllWhole(peerDbs[p].files)
  <2> SUFFICES ASSUME NEW p \in Peers
               PROVE  /\ peerDbs[p] \in Database
                      /\ Exact(peerDbs[p].files, peerDbs[p].roots)
                      /\ AllWhole(peerDbs[p].files)
    OBVIOUS
  <2>0. peerDbs[p] \in PeerDatabases
    BY DEF MetadataInit, InitialPeers
  <2>1. PICK has \in (SUBSET (SourceRoots \ Editable)) \ {{}},
             rows \in {d \in [SourceFiles -> UNION {PeerRows[f] : f \in SourceFiles}] :
                         \A f \in SourceFiles : d[f] \in PeerRows[f]},
             m \in {[r \in SourceRoots |-> v] : v \in {0, 1}} :
               peerDbs[p] = PeerDb(has, rows, m)
    BY <2>0 DEF PeerDatabases
  <2>2. has \in SUBSET SourceRoots /\ m \in [SourceRoots -> Nat]
    OBVIOUS
  <2>3. rows \in [SourceFiles -> Content \cup {Missing}]
    BY MetadataAssumption
  <2> QED BY <2>1, <2>2, <2>3, PeerRight
<1>3. PeersRight
  <2>1. peerDbs = [p \in Peers |-> peerDbs[p]]
    BY DEF MetadataInit, InitialPeers
  <2> QED BY <1>2, <2>1 DEF PeersRight
<1>4. fileRows \in Rows /\ rootRows \in RootRows /\ cached \in Counts
  BY DEF MetadataInit, Rows, RootRows, Counts, Nothing
<1> QED BY <1>1, <1>3, <1>4 DEF MetaTypes

\* The copy of the database a reconcile works on.
LEMMA SeededRight ==
  ASSUME Apart, MetaTypes, NEW order \in Orders
  PROVE  Seeded(order) \in Database
<1>1. Seeded(order).files \in Rows
  BY SeededFiles, CopiesType DEF MetaTypes
<1>2. Seeded(order).roots \in RootRows
  <2>1. \A w \in Wanted(order) : peerDbs[order[From(order, w)]].roots \in RootRows
    BY FromOffers DEF MetaTypes, PeersRight, Database
  <2>2. \A w \in Wanted(order) : peerDbs[order[From(order, w)]].roots[w]
                                   \in [counts : Counts, marker : Nat] \cup {Missing}
    BY <2>1, FromOffers DEF RootRows, MetaTypes
  <2>3. \A r \in SourceRoots : rootRows[r] \in [counts : Counts, marker : Nat] \cup {Missing}
    BY DEF MetaTypes, RootRows
  <2> QED BY <2>2, <2>3 DEF Seeded, RootRows
<1> QED BY <1>1, <1>2 DEF Seeded, Database

LEMMA CountsType ==
  ASSUME NEW rows \in Rows, NEW roots \in RootRows
  PROVE  /\ CachedCounts(rows, roots) \in Counts
         /\ MetadataCounts(roots) \in Counts \cup {Missing}
         /\ VerifiedCounts(rows, roots) \in {Actual(rows), Missing}
<1>1. \A r \in OuterRoots : /\ Recount(rows, Under[r]) \in Counts
                            /\ roots[r] # Missing => roots[r].counts \in Counts
  BY OuterFinite, MetadataAssumption, RecountType DEF RootRows
<1> DEFINE c == [r \in OuterRoots |-> IF roots[r] = Missing THEN Recount(rows, Under[r])
                                      ELSE roots[r].counts]
           d == [r \in OuterRoots |-> roots[r].counts]
<1>2. c \in [OuterRoots -> Counts]
  BY <1>1
<1>3. (\A r \in OuterRoots : roots[r] # Missing) => d \in [OuterRoots -> Counts]
  BY <1>1
<1>4. CachedCounts(rows, roots) = AddUp(OuterRoots, c)
  BY DEF CachedCounts
<1>5. MetadataCounts(roots) = IF \E r \in OuterRoots : roots[r] = Missing THEN Missing
                              ELSE AddUp(OuterRoots, d)
  BY DEF MetadataCounts
<1> HIDE DEF c, d
<1>6. CachedCounts(rows, roots) \in Counts
  BY <1>2, <1>4, OuterFinite, AddUpType
<1>7. MetadataCounts(roots) \in Counts \cup {Missing}
  BY <1>3, <1>5, OuterFinite, AddUpType
<1> QED BY <1>6, <1>7 DEF VerifiedCounts

-----------------------------------------------------------------------------
(* A reconcile and a refresh, each by its ways out.                        *)

LEMMA ReconcileWays ==
  ASSUME Reconcile
  PROVE  /\ reconciled' = TRUE /\ checked' = TRUE
         /\ UNCHANGED <<disk, markers, peerDbs, wasted>>
         /\ \E order \in Orders :
              \/ RebuildIndex
              \/ /\ MetadataCounts(Seeded(order).roots) # Missing
                 /\ MetadataCounts(Seeded(order).roots) = Actual(Seeded(order).files)
                 /\ MetadataCounts(Seeded(order).roots).files > 0
                 /\ fileRows' = Seeded(order).files /\ rootRows' = Seeded(order).roots
                 /\ inMemory' = {} /\ cached' = MetadataCounts(Seeded(order).roots)
                 /\ whole' = whole
              \/ /\ \/ ~(cached.files > 0)
                    \/ MetadataCounts(Seeded(order).roots) = Missing
                    \/ MetadataCounts(Seeded(order).roots) = Actual(Seeded(order).files)
                 /\ CompareFiles(Seeded(order))
BY DEF Reconcile, Truncated

LEMMA RefreshWays ==
  ASSUME NEW batch \in SUBSET SourceFiles, Refresh(batch)
  PROVE  LET changed == batch \cap Existing
             deleted == batch \ Existing
             refused == cached # Nothing /\ VerifiedCounts(fileRows, rootRows) # cached
             counts  == VerifiedCounts(fileRows', rootRows')
         IN /\ wasted' = (wasted \/ (refused /\ whole))
            /\ checked' = IF cached # Nothing THEN TRUE ELSE checked
            /\ UNCHANGED <<disk, markers, peerDbs, reconciled>>
            /\ changed \in SUBSET Existing /\ deleted \in SUBSET (SourceFiles \ Existing)
            /\ \/ refused /\ RebuildIndex
               \/ /\ ~refused
                  /\ PersistPaths(Stored, changed, deleted, FALSE)
                  /\ inMemory' = (inMemory \cup changed) \ deleted
                  /\ cached' = IF cached # Nothing /\ counts # Missing THEN counts ELSE cached
                  /\ whole' = whole
BY DEF Refresh

LEMMA StoredRight == MetaTypes => Stored \in Database /\ Stored.files = fileRows /\ Stored.roots = rootRows
BY DEF Stored, Database, MetaTypes

-----------------------------------------------------------------------------
(* Types.                                                                  *)

LEMMA WorldStays ==
  ASSUME WorldRight, PeersRight, UNCHANGED <<disk, markers, peerDbs>>
  PROVE  WorldRight' /\ PeersRight'
BY DEF WorldRight, PeersRight

LEMMA ReconcileTypes == Apart /\ MetaTypes /\ Reconcile => MetaTypes'
<1> SUFFICES ASSUME Apart, MetaTypes, Reconcile PROVE MetaTypes'
  OBVIOUS
<1>1. WorldRight' /\ PeersRight'
  BY ReconcileWays, WorldStays DEF MetaTypes
<1>2. PICK order \in Orders :
        \/ RebuildIndex
        \/ /\ MetadataCounts(Seeded(order).roots) # Missing
           /\ fileRows' = Seeded(order).files /\ rootRows' = Seeded(order).roots
           /\ cached' = MetadataCounts(Seeded(order).roots)
        \/ CompareFiles(Seeded(order))
  BY ReconcileWays, Zenon
<1>3. Seeded(order) \in Database
  BY SeededRight
<1>4. CASE RebuildIndex
  BY <1>1, <1>4, RebuildRight DEF MetaTypes, Counts, Nothing
<1>5. CASE /\ MetadataCounts(Seeded(order).roots) # Missing
           /\ fileRows' = Seeded(order).files /\ rootRows' = Seeded(order).roots
           /\ cached' = MetadataCounts(Seeded(order).roots)
  <2>1. Seeded(order).files \in Rows /\ Seeded(order).roots \in RootRows
    BY <1>3 DEF Database
  <2>2. MetadataCounts(Seeded(order).roots) \in Counts
    BY <1>5, <2>1, CountsType
  <2> QED BY <1>1, <1>5, <2>1, <2>2 DEF MetaTypes
<1>6. CASE CompareFiles(Seeded(order))
  BY <1>1, <1>3, <1>6, CompareRight DEF MetaTypes
<1> QED BY <1>2, <1>4, <1>5, <1>6

LEMMA RefreshTypes ==
  ASSUME MetaTypes, NEW batch \in SUBSET SourceFiles, Refresh(batch)
  PROVE  MetaTypes'
<1> DEFINE changed == batch \cap Existing
           deleted == batch \ Existing
           counts == VerifiedCounts(fileRows', rootRows')
<1>1. /\ UNCHANGED <<disk, markers, peerDbs>>
      /\ changed \in SUBSET Existing /\ deleted \in SUBSET (SourceFiles \ Existing)
      /\ \/ RebuildIndex
         \/ /\ PersistPaths(Stored, changed, deleted, FALSE)
            /\ cached' = IF cached # Nothing /\ counts # Missing THEN counts ELSE cached
  BY RefreshWays
<1> HIDE DEF changed, deleted
<1>2. WorldRight' /\ PeersRight'
  BY <1>1, WorldStays DEF MetaTypes
<1>3. CASE RebuildIndex
  BY <1>2, <1>3, RebuildRight DEF MetaTypes, Counts, Nothing
<1>4. CASE /\ PersistPaths(Stored, changed, deleted, FALSE)
           /\ cached' = IF cached # Nothing /\ counts # Missing THEN counts ELSE cached
  <2>1. fileRows' \in Rows /\ rootRows' \in RootRows
    BY <1>1, <1>4, StoredRight, PersistRight DEF MetaTypes
  <2>2. counts # Missing => counts \in Counts
    BY <2>1, CountsType, ActualType
  <2> QED BY <1>2, <1>4, <2>1, <2>2 DEF MetaTypes
<1> QED BY <1>1, <1>3, <1>4

LEMMA DamageRows ==
  ASSUME MetaTypes, Damage
  PROVE  /\ UNCHANGED <<disk, markers, peerDbs, inMemory, cached, reconciled, wasted>>
         /\ checked' = FALSE /\ whole' = FALSE
         /\ AnyDamage \/ (cached # Nothing /\ MetadataCounts(rootRows) # Missing)
         /\ fileRows' \in Rows /\ rootRows' \in RootRows
         /\ \/ rootRows' = rootRows /\ Lost(fileRows', fileRows)
            \/ /\ \A f \in SourceFiles : fileRows'[f] = Missing
               /\ \A r \in SourceRoots : rootRows'[r] = Missing
<1>1. /\ UNCHANGED <<disk, markers, peerDbs, inMemory, cached, reconciled, wasted>>
      /\ checked' = FALSE /\ whole' = FALSE
      /\ AnyDamage \/ (cached # Nothing /\ MetadataCounts(rootRows) # Missing)
  BY DEF Damage
<1>2. CASE \E f \in Files(fileRows) :
             /\ \/ fileRows' = [fileRows EXCEPT ![f] = Missing]
                \/ fileRows[f].docs > 0 /\ fileRows' = [fileRows EXCEPT ![f].docs = 0]
             /\ UNCHANGED rootRows
  <2>1. PICK f \in Files(fileRows) :
          \/ fileRows' = [fileRows EXCEPT ![f] = Missing]
          \/ fileRows' = [fileRows EXCEPT ![f].docs = 0]
    BY <1>2
  <2>2. f \in SourceFiles /\ fileRows[f] \in Row /\ fileRows[f] # Missing
    BY DEF MetaTypes, Rows, Files
  <2>3. fileRows \in [SourceFiles -> Row \cup {Missing}]
    BY DEF MetaTypes, Rows
  <2>4. [fileRows[f] EXCEPT !.docs = 0] \in Row
    BY <2>2 DEF Row
  <2>5. \/ fileRows' = [fileRows EXCEPT ![f] = Missing]
        \/ fileRows' = [fileRows EXCEPT ![f] = [fileRows[f] EXCEPT !.docs = 0]]
    BY <2>1
  <2>6. fileRows' \in [SourceFiles -> Row \cup {Missing}]
    BY <2>3, <2>4, <2>5
  <2>7. \A g \in SourceFiles : LostRow(fileRows'[g], fileRows[g])
    BY <2>2, <2>3, <2>5 DEF LostRow
  <2> QED BY <1>1, <1>2, <2>6, <2>7 DEF Rows, Lost, MetaTypes
<1>3. CASE /\ fileRows' = [f \in SourceFiles |-> Missing]
           /\ rootRows' = [r \in SourceRoots |-> Missing]
  BY <1>1, <1>3 DEF Rows, RootRows
<1> QED BY <1>2, <1>3 DEF Damage

LEMMA StepTypes == Apart /\ MetaTypes /\ [MetadataNext]_metadata => MetaTypes'
<1> SUFFICES ASSUME Apart, MetaTypes, [MetadataNext]_metadata PROVE MetaTypes'
  OBVIOUS
<1>1. CASE Reconcile
  BY <1>1, ReconcileTypes
<1>2. CASE Rebuild
  <2>1. RebuildIndex /\ UNCHANGED <<disk, markers, peerDbs>>
    BY <1>2 DEF Rebuild
  <2>2. WorldRight' /\ PeersRight'
    BY <2>1, WorldStays DEF MetaTypes
  <2> QED BY <2>1, <2>2, RebuildRight DEF MetaTypes, Counts, Nothing
<1>3. ASSUME NEW batch \in SUBSET SourceFiles, Refresh(batch) PROVE MetaTypes'
  BY <1>3, RefreshTypes
<1>4. ASSUME NEW f \in SourceFiles, Edit(f) PROVE MetaTypes'
  <2>1. PICK content \in Contents[f] : disk' = [disk EXCEPT ![f] = content]
    BY <1>4 DEF Edit
  <2>2. /\ markers' = markers /\ peerDbs' = peerDbs
        /\ fileRows' = fileRows /\ rootRows' = rootRows /\ cached' = cached
    BY <1>4 DEF Edit, database
  <2>3. WorldRight'
    BY <2>1, <2>2, MetadataAssumption DEF MetaTypes, WorldRight
  <2> QED BY <2>2, <2>3 DEF MetaTypes, PeersRight
<1>5. ASSUME NEW r \in SourceRoots, Upgrade(r) PROVE MetaTypes'
  BY <1>5 DEF Upgrade, database, MetaTypes, WorldRight, PeersRight
<1>6. CASE Restart
  <2>1. /\ UNCHANGED <<disk, markers, peerDbs>> /\ fileRows' = fileRows /\ rootRows' = rootRows
        /\ cached' = CachedCounts(fileRows, rootRows)
    BY <1>6 DEF Restart, Hydrate, database
  <2>2. WorldRight' /\ PeersRight'
    BY <2>1, WorldStays DEF MetaTypes
  <2> QED BY <2>1, <2>2, CountsType DEF MetaTypes
<1>7. CASE Damage
  BY <1>7, DamageRows, WorldStays DEF MetaTypes
<1>8. CASE UNCHANGED metadata
  BY <1>8 DEF metadata, MetaTypes, WorldRight, PeersRight
<1> QED BY <1>1, <1>2, <1>3, <1>4, <1>5, <1>6, <1>7, <1>8 DEF MetadataNext

-----------------------------------------------------------------------------
(* Counts that were never wrong stay right: no refresh has to rebuild.     *)

CountsRight == Exact(fileRows, rootRows) /\ (cached = Nothing \/ cached = Actual(fileRows))
CountsInv == ~wasted /\ (whole => CountsRight)

LEMMA RightAgain ==
  ASSUME WorldRight, RebuildIndex
  PROVE  CountsRight'
BY RebuildRight DEF CountsRight

LEMMA ReconcileCounts == NoBlanks /\ Apart /\ MetaTypes /\ CountsInv /\ Reconcile => CountsInv'
<1> SUFFICES ASSUME NoBlanks, Apart, MetaTypes, CountsInv, Reconcile PROVE CountsInv'
  OBVIOUS
<1>1. wasted' = wasted
  BY ReconcileWays
<1>2. PICK order \in Orders :
        \/ RebuildIndex
        \/ /\ fileRows' = Seeded(order).files /\ rootRows' = Seeded(order).roots
           /\ cached' = Actual(Seeded(order).files)
           /\ whole' = whole
        \/ CompareFiles(Seeded(order))
  BY ReconcileWays, Zenon
<1>3. Seeded(order) \in Database
  BY SeededRight
<1>4. whole => Exact(Seeded(order).files, Seeded(order).roots)
  BY SeededFiles, CopiesExact DEF CountsInv, CountsRight, MetaTypes
<1>5. CASE RebuildIndex
  BY <1>1, <1>5, RightAgain DEF CountsInv, MetaTypes
<1>6. CASE /\ fileRows' = Seeded(order).files /\ rootRows' = Seeded(order).roots
           /\ cached' = Actual(Seeded(order).files)
           /\ whole' = whole
  BY <1>1, <1>4, <1>6 DEF CountsInv, CountsRight
<1>7. CASE CompareFiles(Seeded(order))
  BY <1>1, <1>3, <1>4, <1>7, CompareRight DEF CountsInv, CountsRight, MetaTypes
<1> QED BY <1>2, <1>5, <1>6, <1>7

LEMMA RefreshCounts ==
  ASSUME NoBlanks, MetaTypes, CountsInv, NEW batch \in SUBSET SourceFiles, Refresh(batch)
  PROVE  CountsInv'
<1> DEFINE changed == batch \cap Existing
           deleted == batch \ Existing
           refused == cached # Nothing /\ VerifiedCounts(fileRows, rootRows) # cached
           counts == VerifiedCounts(fileRows', rootRows')
<1>1. /\ wasted' = (wasted \/ (refused /\ whole))
      /\ changed \in SUBSET Existing /\ deleted \in SUBSET (SourceFiles \ Existing)
      /\ \/ RebuildIndex
         \/ /\ PersistPaths(Stored, changed, deleted, FALSE)
            /\ cached' = IF cached # Nothing /\ counts # Missing THEN counts ELSE cached
            /\ whole' = whole
  BY RefreshWays
<1>2. whole => ~refused
  BY VerifiedExact DEF CountsInv, CountsRight, MetaTypes
<1>3. ~wasted'
  BY <1>1, <1>2 DEF CountsInv
<1> HIDE DEF changed, deleted, refused
<1>4. CASE RebuildIndex
  BY <1>3, <1>4, RightAgain DEF CountsInv, MetaTypes
<1>5. CASE /\ PersistPaths(Stored, changed, deleted, FALSE)
           /\ cached' = IF cached # Nothing /\ counts # Missing THEN counts ELSE cached
           /\ whole' = whole
  <2>1. /\ fileRows' \in Rows /\ rootRows' \in RootRows
        /\ whole => Exact(fileRows', rootRows')
    BY <1>1, <1>5, StoredRight, PersistRight DEF CountsInv, CountsRight, MetaTypes
  <2>2. whole => counts = Actual(fileRows') /\ counts # Missing
    BY <2>1, VerifiedExact
  <2> QED BY <1>3, <1>5, <2>1, <2>2 DEF CountsInv, CountsRight
<1> QED BY <1>1, <1>4, <1>5

LEMMA StepCounts == NoBlanks /\ Apart /\ MetaTypes /\ CountsInv /\ [MetadataNext]_metadata => CountsInv'
<1> SUFFICES ASSUME NoBlanks, Apart, MetaTypes, CountsInv, [MetadataNext]_metadata PROVE CountsInv'
  OBVIOUS
<1>1. CASE Reconcile
  BY <1>1, ReconcileCounts
<1>2. CASE Rebuild
  BY <1>2, RightAgain DEF Rebuild, CountsInv, MetaTypes
<1>3. ASSUME NEW batch \in SUBSET SourceFiles, Refresh(batch) PROVE CountsInv'
  BY <1>3, RefreshCounts
<1>4. ASSUME NEW f \in SourceFiles, Edit(f) PROVE CountsInv'
  BY <1>4 DEF Edit, database, CountsInv, CountsRight
<1>5. ASSUME NEW r \in SourceRoots, Upgrade(r) PROVE CountsInv'
  BY <1>5 DEF Upgrade, database, CountsInv, CountsRight
<1>6. CASE Restart
  <2>1. /\ fileRows' = fileRows /\ rootRows' = rootRows
        /\ cached' = CachedCounts(fileRows, rootRows) /\ whole' = whole /\ wasted' = wasted
    BY <1>6 DEF Restart, Hydrate, database
  <2> QED BY <2>1, CountsExact DEF MetaTypes, CountsInv, CountsRight
<1>7. CASE Damage
  BY <1>7, DamageRows DEF CountsInv
<1>8. CASE UNCHANGED metadata
  BY <1>8 DEF metadata, CountsInv, CountsRight
<1> QED BY <1>1, <1>2, <1>3, <1>4, <1>5, <1>6, <1>7, <1>8 DEF MetadataNext

(* Saves and file events are applied file by file unless the database was  *)
(* damaged: the counts that update_root_metadata_with_deltas keeps, those  *)
(* of copied roots and those in memory are the counts of the rows, so that *)
(* refresh_paths never takes them for wrong.                               *)
THEOREM RefreshesAreIncremental == NoBlanks /\ Apart /\ MetadataSpec => []RefreshIsIncremental
<1> SUFFICES ASSUME NoBlanks, Apart PROVE MetadataSpec => []RefreshIsIncremental
  OBVIOUS
<1>1. MetadataInit => MetaTypes /\ CountsInv
  <2> SUFFICES ASSUME MetadataInit PROVE MetaTypes /\ CountsInv
    OBVIOUS
  <2>1. MetaTypes
    BY InitTypes
  <2> QED BY <2>1 DEF MetadataInit, CountsInv, CountsRight, Exact
<1>2. MetaTypes /\ CountsInv /\ [MetadataNext]_metadata => (MetaTypes /\ CountsInv)'
  BY StepTypes, StepCounts
<1>3. CountsInv => RefreshIsIncremental
  BY DEF CountsInv, RefreshIsIncremental
<1> QED BY <1>1, <1>2, <1>3, PTL DEF MetadataSpec

-----------------------------------------------------------------------------
(* A database that lost rows is found out before it is used.               *)

(* What the rows would be if none had been lost; the counts of the roots   *)
(* are still theirs.                                                       *)
Basis(full) ==
  /\ full \in Rows /\ AllWhole(full) /\ Lost(fileRows, full) /\ Exact(full, rootRows)
  /\ fileRows = full \/ (cached # Nothing /\ \A r \in OuterRoots : rootRows[r] # Missing)
  /\ checked => fileRows = full

\* An index without counts has all its files in memory.
Counting ==
  /\ cached = Nothing \/ cached.files > 0
  /\ cached = Nothing => Files(fileRows) \subseteq inMemory

WarmInv == Counting /\ \E full : Basis(full)

LEMMA ActualCounts ==
  ASSUME AllBelow, NEW rows \in Rows
  PROVE  /\ Actual(rows) = Nothing \/ Actual(rows).files > 0
         /\ Actual(rows) = Nothing => Files(rows) = {}
<1>1. Actual(rows).files \in Nat
  BY ActualType DEF Counts
<1>2. Actual(rows).files = 0 => Actual(rows) = Nothing
  BY NothingCounted
<1>3. Actual(rows) = Nothing => Files(rows) = {}
  BY NothingCounted DEF Nothing, Files
<1> QED BY <1>1, <1>2, <1>3

\* The rows are all there.
LEMMA WarmAgain ==
  ASSUME fileRows' \in Rows, AllWhole(fileRows'), Exact(fileRows', rootRows'), Counting'
  PROVE  WarmInv'
<1>1. PICK rows : rows = fileRows'
  OBVIOUS
<1>2. Lost(fileRows', rows)
  BY <1>1 DEF Lost, LostRow
<1>3. Basis(rows)'
  BY <1>1, <1>2 DEF Basis
<1> QED BY <1>3 DEF WarmInv

LEMMA WarmRebuilt ==
  ASSUME WorldRight, RebuildIndex
  PROVE  WarmInv'
<1>1. Counting'
  BY RebuildRight DEF Counting
<1> QED BY <1>1, RebuildRight, WarmAgain

LEMMA WarmCounted ==
  ASSUME AllBelow, fileRows' \in Rows, AllWhole(fileRows'), Exact(fileRows', rootRows'),
         cached' = Actual(fileRows')
  PROVE  WarmInv'
<1>1. Counting'
  BY ActualCounts DEF Counting
<1> QED BY <1>1, WarmAgain

LEMMA ReconcileWarm == NoBlanks /\ Apart /\ AllBelow /\ MetaTypes /\ WarmInv /\ Reconcile => WarmInv'
<1> SUFFICES ASSUME NoBlanks, Apart, AllBelow, MetaTypes, WarmInv, Reconcile PROVE WarmInv'
  OBVIOUS
<1>1. PICK full : Basis(full)
  BY DEF WarmInv
<1>2. PICK order \in Orders :
        \/ RebuildIndex
        \/ /\ MetadataCounts(Seeded(order).roots) # Missing
           /\ MetadataCounts(Seeded(order).roots) = Actual(Seeded(order).files)
           /\ fileRows' = Seeded(order).files /\ rootRows' = Seeded(order).roots
           /\ cached' = MetadataCounts(Seeded(order).roots)
        \/ /\ \/ ~(cached.files > 0)
              \/ MetadataCounts(Seeded(order).roots) = Missing
              \/ MetadataCounts(Seeded(order).roots) = Actual(Seeded(order).files)
           /\ CompareFiles(Seeded(order))
  BY ReconcileWays, Zenon
<1> DEFINE copy == WithCopies(order, full)
           files == Seeded(order).files
           roots == Seeded(order).roots
<1>3. /\ full \in Rows /\ AllWhole(full) /\ Lost(fileRows, full) /\ Exact(full, rootRows)
      /\ fileRows \in Rows /\ rootRows \in RootRows
  BY <1>1 DEF Basis, MetaTypes
<1>4. /\ copy \in Rows /\ AllWhole(copy) /\ Exact(copy, roots)
      /\ \A r \in SourceRoots : rootRows[r] # Missing => roots[r] # Missing
  BY <1>3, CopiesType, CopiesExact DEF MetaTypes
<1>5. Lost(files, copy) /\ (fileRows = full => files = copy)
  BY <1>3, SeededFiles, CopiesLost
<1>6. Seeded(order) \in Database /\ files \in Rows /\ roots \in RootRows
  BY SeededRight DEF Database
<1>7. fileRows = full \/ (cached.files > 0 /\ \A r \in OuterRoots : roots[r] # Missing)
  BY <1>1, <1>4, OuterFinite DEF Basis, WarmInv, Counting
<1> HIDE DEF copy, files, roots
<1>8. ASSUME MetadataCounts(roots) = Actual(files), MetadataCounts(roots) # Missing
      PROVE  files = copy
  <2>1. files = copy \/ \A r \in OuterRoots : roots[r] # Missing
    BY <1>5, <1>7
  <2>2. MetadataCounts(roots) = Actual(copy)
    BY <1>4, <1>6, <1>8, <2>1, CountsExact
  <2> QED BY <1>4, <1>5, <1>6, <1>8, <2>2, LostCounts
<1>9. CASE RebuildIndex
  BY <1>9, WarmRebuilt DEF MetaTypes
<1>10. CASE /\ MetadataCounts(roots) # Missing
            /\ MetadataCounts(roots) = Actual(files)
            /\ fileRows' = files /\ rootRows' = roots
            /\ cached' = MetadataCounts(roots)
  BY <1>4, <1>8, <1>10, WarmCounted
<1>11. CASE /\ \/ ~(cached.files > 0)
               \/ MetadataCounts(roots) = Missing
               \/ MetadataCounts(roots) = Actual(files)
            /\ CompareFiles(Seeded(order))
  <2>1. files = copy
    <3>1. CASE fileRows = full
      BY <1>5, <3>1
    <3>2. CASE cached.files > 0 /\ \A r \in OuterRoots : roots[r] # Missing
      <4>1. MetadataCounts(roots) = AddUp(OuterRoots, [r \in OuterRoots |-> roots[r].counts])
        BY <3>2 DEF MetadataCounts
      <4>2. MetadataCounts(roots) # Missing
        <5>1. [r \in OuterRoots |-> roots[r].counts] \in [OuterRoots -> Counts]
          BY <1>6, <3>2, OuterFinite DEF RootRows
        <5>2. AddUp(OuterRoots, [r \in OuterRoots |-> roots[r].counts]) \in Counts
          BY <5>1, OuterFinite, AddUpType
        <5> QED BY <4>1, <5>2, NotMissing
      <4> QED BY <1>8, <1>11, <3>2, <4>2
    <3> QED BY <1>7, <3>1, <3>2
  <2>2. AllWhole(Seeded(order).files) /\ Exact(Seeded(order).files, Seeded(order).roots)
    BY <1>4, <2>1 DEF files, roots
  <2>3. /\ fileRows' \in Rows /\ AllWhole(fileRows') /\ Exact(fileRows', rootRows')
        /\ cached' = Actual(fileRows')
    BY <1>6, <1>11, <2>2, CompareRight DEF MetaTypes
  <2> QED BY <2>3, WarmCounted
<1> QED BY <1>2, <1>9, <1>10, <1>11 DEF files, roots

LEMMA RefreshWarm ==
  ASSUME NoBlanks, AllBelow, MetaTypes, WarmInv, NEW batch \in SUBSET SourceFiles, Refresh(batch)
  PROVE  WarmInv'
<1> DEFINE changed == batch \cap Existing
           deleted == batch \ Existing
           counts == VerifiedCounts(fileRows', rootRows')
<1>1. PICK full : Basis(full)
  BY DEF WarmInv
<1>2. /\ changed \in SUBSET Existing /\ deleted \in SUBSET (SourceFiles \ Existing)
      /\ \/ RebuildIndex
         \/ /\ cached # Nothing => VerifiedCounts(fileRows, rootRows) = cached
            /\ PersistPaths(Stored, changed, deleted, FALSE)
            /\ inMemory' = (inMemory \cup changed) \ deleted
            /\ cached' = IF cached # Nothing /\ counts # Missing THEN counts ELSE cached
  BY RefreshWays
<1> HIDE DEF changed, deleted
<1>3. CASE RebuildIndex
  BY <1>3, WarmRebuilt DEF MetaTypes
<1>4. CASE /\ cached # Nothing => VerifiedCounts(fileRows, rootRows) = cached
           /\ PersistPaths(Stored, changed, deleted, FALSE)
           /\ inMemory' = (inMemory \cup changed) \ deleted
           /\ cached' = IF cached # Nothing /\ counts # Missing THEN counts ELSE cached
  <2>1. full \in Rows /\ AllWhole(full) /\ Lost(fileRows, full) /\ Exact(full, rootRows)
    BY <1>1 DEF Basis
  <2>2. fileRows = full
    <3>1. CASE cached = Nothing
      BY <1>1, <3>1 DEF Basis
    <3>2. CASE cached # Nothing
      <4>1. VerifiedCounts(fileRows, rootRows) # Missing
        BY <1>4, <3>2, NotMissing DEF MetaTypes
      <4>2. CachedCounts(fileRows, rootRows) = Actual(fileRows)
        BY <4>1 DEF VerifiedCounts
      <4>3. fileRows = full \/ \A r \in OuterRoots : rootRows[r] # Missing
        BY <1>1 DEF Basis
      <4>4. CachedCounts(fileRows, rootRows) = Actual(full)
        BY <2>1, <4>3, CountsExact DEF MetaTypes
      <4> QED BY <2>1, <4>2, <4>4, LostCounts DEF MetaTypes
    <3> QED BY <3>1, <3>2
  <2>3. /\ fileRows' \in Rows /\ rootRows' \in RootRows /\ AllWhole(fileRows')
        /\ Exact(fileRows', rootRows')
        /\ fileRows' = NewRows(fileRows, changed, deleted)
    BY <1>2, <1>4, <2>1, <2>2, StoredRight, PersistRight DEF MetaTypes
  <2>4. CASE cached # Nothing
    <3>1. cached' = Actual(fileRows')
      BY <1>4, <2>3, <2>4, VerifiedExact
    <3> QED BY <2>3, <3>1, WarmCounted
  <2>5. CASE cached = Nothing
    <3>1. Files(fileRows) \subseteq inMemory
      BY <2>5 DEF WarmInv, Counting
    <3>2. Files(fileRows') \subseteq (Files(fileRows) \cup changed) \ deleted
      BY <1>2, <2>3 DEF Files, NewRows
    <3>3. Counting'
      BY <1>4, <2>5, <3>1, <3>2 DEF Counting
    <3> QED BY <2>3, <3>3, WarmAgain
  <2> QED BY <2>4, <2>5
<1> QED BY <1>2, <1>3, <1>4

LEMMA RestartWarm == AllBelow /\ MetaTypes /\ WarmInv /\ Restart => WarmInv'
<1> SUFFICES ASSUME AllBelow, MetaTypes, WarmInv, Restart PROVE WarmInv'
  OBVIOUS
<1>1. PICK full : Basis(full)
  BY DEF WarmInv
<1>2. /\ fileRows' = fileRows /\ rootRows' = rootRows
      /\ cached' = CachedCounts(fileRows, rootRows) /\ checked' = FALSE
  BY DEF Restart, Hydrate, database
<1>3. /\ full \in Rows /\ AllWhole(full) /\ Lost(fileRows, full) /\ Exact(full, rootRows)
      /\ fileRows = full \/ \A r \in OuterRoots : rootRows[r] # Missing
  BY <1>1 DEF Basis
<1>4. cached' = Actual(full)
  BY <1>2, <1>3, CountsExact DEF MetaTypes
<1>5. /\ Actual(full) = Nothing \/ Actual(full).files > 0
      /\ Actual(full) = Nothing => Files(full) = {}
  BY <1>3, ActualCounts
<1>6. Files(full) = {} => fileRows = full
  <2> SUFFICES ASSUME Files(full) = {} PROVE fileRows = full
    OBVIOUS
  <2>1. \A f \in SourceFiles : full[f] = Missing
    BY DEF Files
  <2>2. \A f \in SourceFiles : fileRows[f] = full[f]
    BY <1>3, <2>1 DEF Lost, LostRow
  <2> QED BY <1>3, <2>2 DEF MetaTypes, Rows
<1>7. Counting'
  BY <1>2, <1>4, <1>5, <1>6 DEF Counting
<1>8. Basis(full)'
  BY <1>1, <1>2, <1>3, <1>4, <1>5, <1>6 DEF Basis
<1> QED BY <1>7, <1>8 DEF WarmInv

LEMMA DamageWarm == ~AnyDamage /\ MetaTypes /\ WarmInv /\ Damage => WarmInv'
<1> SUFFICES ASSUME ~AnyDamage, MetaTypes, WarmInv, Damage PROVE WarmInv'
  OBVIOUS
<1>1. PICK full : Basis(full)
  BY DEF WarmInv
<1>2. /\ cached' = cached /\ inMemory' = inMemory /\ checked' = FALSE
      /\ cached # Nothing /\ \A r \in OuterRoots : rootRows[r] # Missing
      /\ fileRows' \in Rows
  BY DamageRows DEF MetadataCounts
<1>3. Counting'
  BY <1>2 DEF WarmInv, Counting
<1>4. CASE rootRows' = rootRows /\ Lost(fileRows', fileRows)
  <2>1. full \in Rows /\ AllWhole(full) /\ Lost(fileRows, full) /\ Exact(full, rootRows)
    BY <1>1 DEF Basis
  <2>2. Lost(fileRows', full)
    <3> SUFFICES ASSUME NEW f \in SourceFiles PROVE LostRow(fileRows'[f], full[f])
      BY DEF Lost
    <3>1. LostRow(fileRows[f], full[f]) /\ LostRow(fileRows'[f], fileRows[f])
      BY <1>4, <2>1 DEF Lost
    <3>2. full[f] \in Row \cup {Missing}
      BY <2>1 DEF Rows
    <3> QED BY <3>1, <3>2 DEF LostRow, Row
  <2>3. Basis(full)'
    BY <1>2, <1>4, <2>1, <2>2 DEF Basis
  <2> QED BY <1>3, <2>3 DEF WarmInv
<1>5. CASE /\ \A f \in SourceFiles : fileRows'[f] = Missing
           /\ \A r \in SourceRoots : rootRows'[r] = Missing
  <2>1. AllWhole(fileRows') /\ Exact(fileRows', rootRows')
    BY <1>5 DEF AllWhole, Exact
  <2> QED BY <1>2, <1>3, <2>1, WarmAgain
<1> QED BY <1>4, <1>5, DamageRows

LEMMA StepWarm ==
  ~AnyDamage /\ NoBlanks /\ Apart /\ AllBelow /\ MetaTypes /\ WarmInv /\ [MetadataNext]_metadata
    => WarmInv'
<1> SUFFICES ASSUME ~AnyDamage, NoBlanks, Apart, AllBelow, MetaTypes, WarmInv,
                    [MetadataNext]_metadata
             PROVE  WarmInv'
  OBVIOUS
<1>1. CASE Reconcile
  BY <1>1, ReconcileWarm
<1>2. CASE Rebuild
  BY <1>2, WarmRebuilt DEF Rebuild, MetaTypes
<1>3. ASSUME NEW batch \in SUBSET SourceFiles, Refresh(batch) PROVE WarmInv'
  BY <1>3, RefreshWarm
<1>4. ASSUME UNCHANGED <<fileRows, rootRows, cached, checked, inMemory>> PROVE WarmInv'
  BY <1>4 DEF WarmInv, Counting, Basis
<1>5. ASSUME NEW f \in SourceFiles, Edit(f) PROVE WarmInv'
  BY <1>4, <1>5 DEF Edit, database
<1>6. ASSUME NEW r \in SourceRoots, Upgrade(r) PROVE WarmInv'
  BY <1>4, <1>6 DEF Upgrade, database
<1>7. CASE Restart
  BY <1>7, RestartWarm
<1>8. CASE Damage
  BY <1>8, DamageWarm
<1>9. CASE UNCHANGED metadata
  BY <1>4, <1>9 DEF metadata
<1> QED BY <1>1, <1>2, <1>3, <1>5, <1>6, <1>7, <1>8, <1>9 DEF MetadataNext

(* "A missing or truncated cache cannot be mistaken for a valid warm       *)
(* index": lost rows are missed in the sum of the roots' counts, which     *)
(* reconcile_with_cache and refresh_paths compare before they trust it.    *)
THEOREM WarmCachesAreWhole ==
  ~AnyDamage /\ NoBlanks /\ Apart /\ AllBelow /\ MetadataSpec => []WarmCacheIsWhole
<1> SUFFICES ASSUME ~AnyDamage, NoBlanks, Apart, AllBelow PROVE MetadataSpec => []WarmCacheIsWhole
  OBVIOUS
<1>1. MetadataInit => MetaTypes /\ WarmInv
  <2> SUFFICES ASSUME MetadataInit PROVE MetaTypes /\ WarmInv
    OBVIOUS
  <2>1. MetaTypes
    BY InitTypes
  <2>2. /\ \A f \in SourceFiles : fileRows[f] = Missing
        /\ \A r \in SourceRoots : rootRows[r] = Missing
        /\ cached = Nothing
    BY DEF MetadataInit
  <2>3. Basis(fileRows)
    BY <2>1, <2>2 DEF Basis, MetaTypes, AllWhole, Lost, LostRow, Exact
  <2>4. Counting
    BY <2>2 DEF Counting, Files
  <2> QED BY <2>1, <2>3, <2>4 DEF WarmInv
<1>2. MetaTypes /\ WarmInv /\ [MetadataNext]_metadata => (MetaTypes /\ WarmInv)'
  BY StepTypes, StepWarm
<1>3. WarmInv => WarmCacheIsWhole
  <2> SUFFICES ASSUME WarmInv, reconciled, checked, NEW f \in SourceFiles \ inMemory,
                      fileRows[f] # Missing
               PROVE  IsWhole(fileRows[f]) /\ cached.files > 0
    BY DEF WarmCacheIsWhole
  <2>1. IsWhole(fileRows[f])
    BY DEF WarmInv, Basis, AllWhole
  <2>2. cached # Nothing
    BY DEF WarmInv, Counting, Files
  <2> QED BY <2>1, <2>2 DEF WarmInv, Counting
<1> QED BY <1>1, <1>2, <1>3, PTL DEF MetadataSpec
=============================================================================
