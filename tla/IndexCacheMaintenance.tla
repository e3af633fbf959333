----------------------- MODULE IndexCacheMaintenance -----------------------
(***************************************************************************)
(* Before a client starts, the extension prunes the directory in which     *)
(* servers keep their databases                                            *)
(* (packages/extension-core/src/indexCacheMaintenance.ts).                 *)
(*                                                                         *)
(* An entry is a database with its sidecars (write-ahead log, shared       *)
(* memory), or the sidecars of a database that is gone.  Its age is that   *)
(* of its last modification; servers of other windows go on writing.       *)
(***************************************************************************)
EXTENDS Integers, FiniteSets, SequencesExt, Sums

CONSTANTS
  Digests,    \* names of databases
  Sizes,      \* bytes of an entry
  MaxAge,     \* bound: ages are 0..MaxAge days
  MaxAgeDays, MaxTotalBytes, KeepLatestDatabases, OrphanMaxAgeDays,
  SizePruneMinAgeDays

ASSUME MaintenanceAssumption ==
  /\ IsFiniteSet(Digests) /\ Sizes \subseteq Nat /\ MaxAge \in Nat /\ MaxAgeDays \in Nat
  /\ MaxTotalBytes \in Nat /\ KeepLatestDatabases \in Nat
  /\ OrphanMaxAgeDays \in Nat /\ SizePruneMinAgeDays \in Nat

VARIABLES
  databases, \* the databases on disk: digest -> [age, size]
  orphans,   \* sidecars without a database, likewise
  keep,      \* digests with a .keep marker
  before     \* history: the databases and orphans the last maintenance found

maintenanceVars == <<databases, orphans, keep, before>>

File == [age : 0..MaxAge, size : Sizes]
SomeFiles == UNION {[D -> File] : D \in SUBSET Digests}
NoFilesFound == [databases |-> <<>>, orphans |-> <<>>]

MaintenanceInit ==
  /\ databases \in SomeFiles
  /\ orphans \in {o \in SomeFiles : DOMAIN o \cap DOMAIN databases = {}}
  /\ keep \in SUBSET DOMAIN databases
  /\ before = NoFilesFound

\* Oldest first; files of one age come in the order of readdir, which is any.
OldestFirst(files) ==
  {s \in SetToSeqs(DOMAIN files) :
     \A m, n \in DOMAIN s : m < n => files[s[m]].age >= files[s[n]].age}

BytesOf(files, some) == Total(some, [d \in some |-> files[d].size])
Bytes(files) == BytesOf(files, DOMAIN files)

\* Takes the oldest files that may go until the total fits: one that finds it too large still.
PruneToCap(order, files, mayGo, total) ==
  {order[n] : n \in {k \in DOMAIN order :
     LET older == {order[m] : m \in 1..(k - 1)}
     IN order[k] \in mayGo /\ total - BytesOf(files, older \cap mayGo) > MaxTotalBytes}}

\* Mutant: orphans count for the total, and only their age removes them.
MutOrphansToCap(order, tooOld, total) == {}
OrphansToCap(order, tooOld, total) ==
  PruneToCap(order, orphans,
    {d \in DOMAIN orphans \ tooOld : orphans[d].age >= SizePruneMinAgeDays}, total)

(* markPrunableEntries: marked databases and the newest are kept; age      *)
(* first, then the cap, databases before orphans.                          *)
Prunable(dbOrder, orphanOrder) ==
  LET newest == {dbOrder[k] : k \in {n \in DOMAIN dbOrder :
                   n + KeepLatestDatabases > Cardinality(DOMAIN databases)}}
      free   == DOMAIN databases \ (keep \cup newest)
      tooOld == {d \in free : databases[d].age >= MaxAgeDays}
      after  == Bytes(databases) + Bytes(orphans) - BytesOf(databases, tooOld)
      capped == PruneToCap(dbOrder, databases,
                  {d \in free \ tooOld : databases[d].age >= SizePruneMinAgeDays}, after)
      stale  == {d \in DOMAIN orphans : orphans[d].age >= OrphanMaxAgeDays}
      rest   == OrphansToCap(orphanOrder, stale,
                  after - BytesOf(databases, capped) - BytesOf(orphans, stale))
  IN [databases |-> tooOld \cup capped, orphans |-> stale \cup rest]

\* applyPruneActions, with every file deleted.
Maintain ==
  \E dbOrder \in OldestFirst(databases), orphanOrder \in OldestFirst(orphans) :
    LET gone == Prunable(dbOrder, orphanOrder)
    IN /\ before' = [databases |-> databases, orphans |-> orphans]
       /\ databases' = Restrict(databases, DOMAIN databases \ gone.databases)
       /\ orphans' = Restrict(orphans, DOMAIN orphans \ gone.orphans)
       /\ UNCHANGED keep

\* Servers write: a database is created, or becomes the newest.
ServerWrites(d) ==
  /\ \E size \in Sizes : databases' = [x \in DOMAIN databases \cup {d} |->
       IF x = d THEN [age |-> 0, size |-> size] ELSE databases[x]]
  /\ orphans' = Restrict(orphans, DOMAIN orphans \ {d})
  /\ before' = NoFilesFound /\ UNCHANGED keep

MaintenanceNext == Maintain \/ \E d \in Digests : ServerWrites(d)

MaintenanceSpec == MaintenanceInit /\ [][MaintenanceNext]_maintenanceVars

-----------------------------------------------------------------------------
(* After a maintenance the directory fits the cap, or nothing but kept,    *)
(* newest and young files is left.  No maintenance has taken a kept        *)
(* database, one of the newest or one that was younger than both ages of   *)
(* the settings, nor, while everything fitted, one below the age limit.    *)
CapRespected ==
  before # NoFilesFound =>
    LET lost  == DOMAIN before.databases \ DOMAIN databases
        Age(d) == before.databases[d].age
        mayGo == {d \in DOMAIN databases \ keep : databases[d].age >= SizePruneMinAgeDays}
    IN /\ \/ Bytes(databases) + Bytes(orphans) <= MaxTotalBytes
          \/ /\ Cardinality(mayGo) <= KeepLatestDatabases
             /\ \A d \in DOMAIN orphans : orphans[d].age < SizePruneMinAgeDays
       /\ lost \cap keep = {}
       /\ \A d \in lost :
            /\ Cardinality({x \in DOMAIN databases : databases[x].age <= Age(d)})
                 >= KeepLatestDatabases
            /\ \/ Age(d) >= MaxAgeDays
               \/ /\ Age(d) >= SizePruneMinAgeDays
                  /\ Bytes(before.databases) + Bytes(before.orphans) > MaxTotalBytes
=============================================================================
