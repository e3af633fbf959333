---------------------------- MODULE MachinesProofs ----------------------------
(***************************************************************************)
(* The theorems about three machines that share no state.                  *)
(* SourceRootDiscovery: while all folders share one interpreter, no root   *)
(* of a replaced one returns.  Roots travel through the memory of the      *)
(* controller, the cache of earlier sessions and the discovery under way;  *)
(* the invariant says of each whose they are.  RunTasks: what has been     *)
(* cleaned up follows from how far a run and its task have come; the       *)
(* invariant also says who still listens for the end of a task, because an *)
(* end nobody hears is lost.  RuntimeDocs: answers are matched to requests *)
(* by order alone, so the invariant says what the process can still owe:   *)
(* nothing but stray lines, unless a lookup waits for the answer to its    *)
(* symbol.                                                                 *)
(***************************************************************************)
EXTENDS SourceRootDiscovery, RunTasks, RuntimeDocs, FiniteSetTheorems, TLAPS

Keys == Scopes \X Interpreters
ActiveRecord == [key : Keys, generation : Nat, effective : SUBSET Roots,
                 stage : {"probing", "saving"}, found : SUBSET Roots]

DiscoveryTypeOK ==
  /\ editor \in Scopes \cup {NoScope}
  /\ interpreter \in [Scopes -> Interpreters]
  /\ pending \in Seq(Keys)
  /\ active # NoDiscovery => active \in ActiveRecord /\ active.generation <= generation
  /\ generation \in Nat
  /\ roots \in SUBSET Roots
  /\ rootCache \in [Interpreters -> SUBSET Roots]
  /\ used \in SUBSET Interpreters

\* Roots of the workspace or found for one of the interpreters.
RootsOf(S) == Folders \cup Nearby \cup UNION {Heuristic[i] \cup Probe[i] : i \in S}

\* All folders have the interpreter asked about since the settings last changed.
OneInterpreter == \A s \in Scopes : \A i \in used : interpreter[s] = i
SameInterpreter == \A s, t \in Scopes : interpreter[s] = interpreter[t]

CacheOwned == \A i \in Interpreters : rootCache[i] \subseteq RootsOf({i})
RootsOwned == roots \subseteq RootsOf(used)
PendingOwned == \A k \in DOMAIN pending : pending[k][2] \in used

\* A discovery that is not superseded is about such an interpreter, and so are its roots.
ActiveOwned ==
  active # NoDiscovery /\ ~Superseded =>
    /\ active.key[2] \in used
    /\ active.effective \subseteq RootsOf(used)
    /\ active.stage = "saving" => active.found \subseteq RootsOf(used)

DiscoveryInv ==
  /\ DiscoveryTypeOK /\ SameInterpreter /\ OneInterpreter
  /\ CacheOwned /\ RootsOwned /\ PendingOwned /\ ActiveOwned

-----------------------------------------------------------------------------
LEMMA RootsOfGrows ==
  ASSUME NEW S \in SUBSET Interpreters, NEW T \in SUBSET Interpreters, S \subseteq T
  PROVE  RootsOf(S) \subseteq RootsOf(T)
  BY DEF RootsOf

LEMMA RootsOfTypes == \A S \in SUBSET Interpreters : RootsOf(S) \subseteq Roots
  BY DiscoveryAssumption DEF RootsOf

\* What a probe finds comes from the roots it starts with and its own interpreter.
LEMMA FoundOwned ==
  ASSUME NEW effective \in SUBSET Roots, NEW i \in Interpreters, NEW probed \in {{}, Probe[i]}
  PROVE  RuntimeRoots(effective, i, probed) \subseteq effective \cup RootsOf({i})
  BY DEF RuntimeRoots, MergeDiscoveredSourceRoots, RootsOf

LEMMA DiscoveryInitInv == ~FolderSettings /\ DiscoveryInit => DiscoveryInv
<1> SUFFICES ASSUME ~FolderSettings, DiscoveryInit PROVE DiscoveryInv
  OBVIOUS
<1>1. /\ editor \in Scopes \cup {NoScope} /\ interpreter \in [Scopes -> Interpreters]
      /\ rootCache \in [Interpreters -> SUBSET Roots] /\ pending = <<>> /\ generation = 0
  BY DiscoveryAssumption DEF DiscoveryInit
<1>2. SameInterpreter /\ PendingOwned
  BY <1>1 DEF DiscoveryInit, SameInterpreter, PendingOwned
<1>3. CacheOwned
  <2> SUFFICES ASSUME NEW i \in Interpreters PROVE rootCache[i] \subseteq RootsOf({i})
    BY DEF CacheOwned
  <2>1. rootCache[i] \in Saved(i)
    BY DEF DiscoveryInit
  <2>2. RuntimeRoots({}, i, Probe[i]) \subseteq {} \cup RootsOf({i})
    <3>1. {} \in SUBSET Roots /\ Probe[i] \in {{}, Probe[i]}
      OBVIOUS
    <3> QED
      BY <3>1, FoundOwned
  <2> QED
    BY <2>1, <2>2 DEF Saved
<1>4. CASE editor = NoScope
  <2>1. roots = {} /\ used = {} /\ active = NoDiscovery
    BY <1>4 DEF DiscoveryInit
  <2> QED
    BY <1>1, <1>2, <1>3, <2>1
    DEF DiscoveryInv, DiscoveryTypeOK, OneInterpreter, RootsOwned, ActiveOwned
<1>5. CASE editor # NoScope
  <2> DEFINE i == interpreter[editor]
  <2>1. /\ roots = rootCache[i] /\ used = {i} /\ active = Probing(<<editor, i>>, rootCache[i], 0)
        /\ i \in Interpreters /\ editor \in Scopes
    BY <1>1, <1>5 DEF DiscoveryInit
  <2>2. roots \subseteq RootsOf(used) /\ roots \in SUBSET Roots
    BY <1>1, <1>3, <2>1 DEF CacheOwned
  <2>3. /\ active \in ActiveRecord /\ active.generation <= generation
        /\ active.key[2] = i /\ active.effective = roots /\ active.stage = "probing"
    BY <1>1, <2>1, <2>2 DEF Probing, ActiveRecord, Keys
  <2>4. DiscoveryTypeOK
    BY <1>1, <2>1, <2>2, <2>3 DEF DiscoveryTypeOK
  <2>5. OneInterpreter
    BY <1>2, <2>1 DEF OneInterpreter, SameInterpreter
  <2>6. RootsOwned /\ ActiveOwned
    BY <2>1, <2>2, <2>3 DEF RootsOwned, ActiveOwned
  <2> QED
    BY <1>2, <1>3, <2>4, <2>5, <2>6 DEF DiscoveryInv
<1> QED
  BY <1>4, <1>5

-----------------------------------------------------------------------------
(* The pump starts a discovery with the newest generation.                 *)
LEMMA PumpTypes ==
  ASSUME NEW queue \in Seq(Keys), NEW known \in SUBSET Roots, NEW current \in Nat,
         current <= generation', Pump(queue, known, current)
  PROVE  /\ pending' \in Seq(Keys)
         /\ active' # NoDiscovery => active' \in ActiveRecord /\ active'.generation <= generation'
<1>1. CASE deactivating \/ queue = <<>>
  BY <1>1 DEF Pump
<1>2. CASE ~(deactivating \/ queue = <<>>)
  <2>1. Head(queue) \in Keys /\ Tail(queue) \in Seq(Keys)
    BY <1>2
  <2> QED
    BY <1>2, <2>1 DEF Pump, Probing, ActiveRecord
<1> QED
  BY <1>1, <1>2

LEMMA PumpOwned ==
  ASSUME NEW queue \in Seq(Keys), NEW known, NEW current,
         \A k \in DOMAIN queue : queue[k][2] \in used', known \subseteq RootsOf(used'),
         Pump(queue, known, current)
  PROVE  PendingOwned' /\ ActiveOwned'
<1>1. CASE deactivating \/ queue = <<>>
  BY <1>1 DEF Pump, PendingOwned, ActiveOwned
<1>2. CASE ~(deactivating \/ queue = <<>>)
  <2>1. pending' = Tail(queue) /\ Head(queue) = queue[1] /\ 1 \in DOMAIN queue
    BY <1>2 DEF Pump
  <2>2. \A k \in DOMAIN pending' : k + 1 \in DOMAIN queue /\ pending'[k] = queue[k + 1]
    BY <1>2, <2>1
  <2>3. PendingOwned'
    BY <2>2 DEF PendingOwned
  <2>4. ActiveOwned'
    BY <1>2, <2>1 DEF Pump, Probing, ActiveOwned
  <2> QED
    BY <2>3, <2>4
<1> QED
  BY <1>1, <1>2

-----------------------------------------------------------------------------
LEMMA PreparedKeys ==
  ASSUME editor' \in Scopes \cup {NoScope}, interpreter' \in [Scopes -> Interpreters]
  PROVE  \A key \in Prepared : key \in Keys /\ key[2] = interpreter'[key[1]]
  BY DEF Prepared, Keys

\* schedule() asks about the interpreter all folders have.
LEMMA ScheduleInv ==
  ASSUME DiscoveryInv, editor' \in Scopes \cup {NoScope}, Schedule,
         UNCHANGED <<interpreter, generation, deactivating, rootCache>>
  PROVE  DiscoveryInv'
<1> USE DEF DiscoveryInv
<1>1. CASE deactivating \/ Prepared = {}
  BY <1>1 DEF Schedule, DiscoveryTypeOK, SameInterpreter, OneInterpreter, CacheOwned, RootsOwned,
              PendingOwned, ActiveOwned, Superseded
<1>2. CASE ~(deactivating \/ Prepared = {})
  <2>1. PICK key \in Prepared :
          LET known == roots \cup (rootCache[key[2]] \cap SageRoots)
          IN /\ roots' = known
             /\ used' = used \cup {key[2]}
             /\ IF AlreadyCovered(key) THEN UNCHANGED <<pending, active>>
                ELSE IF active # NoDiscovery
                THEN pending' = Append(pending, key) /\ UNCHANGED active
                ELSE Pump(<<key>>, known, generation)
    BY <1>2 DEF Schedule
  <2> DEFINE known == roots \cup (rootCache[key[2]] \cap SageRoots)
  <2>2. key \in Keys /\ key[2] = interpreter'[key[1]] /\ key[1] \in Scopes /\ key[2] \in Interpreters
    BY PreparedKeys DEF DiscoveryTypeOK, Keys
  <2>3. used' \in SUBSET Interpreters /\ used \subseteq used' /\ key[2] \in used'
    BY <2>1, <2>2 DEF DiscoveryTypeOK
  <2>4. SameInterpreter' /\ OneInterpreter' /\ CacheOwned'
    BY <2>1, <2>2 DEF SameInterpreter, OneInterpreter, CacheOwned
  <2>5. RootsOf(used) \subseteq RootsOf(used') /\ RootsOf({key[2]}) \subseteq RootsOf(used')
    BY <2>2, <2>3, RootsOfGrows DEF DiscoveryTypeOK
  <2>6. known \in SUBSET Roots /\ known \subseteq RootsOf(used')
    BY <2>2, <2>5 DEF DiscoveryTypeOK, CacheOwned, RootsOwned
  <2>7. RootsOwned' /\ roots' \in SUBSET Roots
    BY <2>1, <2>5, <2>6 DEF RootsOwned, RootsOf
  <2>8. \/ UNCHANGED <<pending, active>>
        \/ pending' = Append(pending, key) /\ UNCHANGED active
        \/ Pump(<<key>>, known, generation)
    BY <2>1
  <2>9. CASE UNCHANGED <<pending, active>>
    <3>1. DiscoveryTypeOK'
      BY <2>3, <2>7, <2>9 DEF DiscoveryTypeOK
    <3>2. PendingOwned' /\ ActiveOwned'
      BY <2>3, <2>5, <2>9 DEF PendingOwned, ActiveOwned, Superseded
    <3> QED
      BY <2>4, <2>7, <3>1, <3>2
  <2>10. CASE pending' = Append(pending, key) /\ UNCHANGED active
    <3>1. DiscoveryTypeOK'
      BY <2>2, <2>3, <2>7, <2>10 DEF DiscoveryTypeOK
    <3>2. \A k \in DOMAIN pending' :
            pending'[k] = key \/ (k \in DOMAIN pending /\ pending'[k] = pending[k])
      BY <2>10 DEF DiscoveryTypeOK
    <3>3. PendingOwned'
      BY <2>3, <3>2 DEF PendingOwned
    <3>4. ActiveOwned'
      BY <2>3, <2>5, <2>10 DEF ActiveOwned, Superseded
    <3> QED
      BY <2>4, <2>7, <3>1, <3>3, <3>4
  <2>11. CASE Pump(<<key>>, known, generation)
    <3>1. <<key>> \in Seq(Keys) /\ \A k \in DOMAIN <<key>> : <<key>>[k] = key
      BY <2>2
    <3>2. generation \in Nat /\ generation <= generation'
      BY DEF DiscoveryTypeOK
    <3>3. DiscoveryTypeOK'
      BY <2>3, <2>6, <2>7, <2>11, <3>1, <3>2, PumpTypes DEF DiscoveryTypeOK
    <3>4. PendingOwned' /\ ActiveOwned'
      BY <2>3, <2>6, <2>11, <3>1, PumpOwned
    <3> QED
      BY <2>4, <2>7, <3>3, <3>4
  <2> QED
    BY <2>8, <2>9, <2>10, <2>11
<1> QED
  BY <1>1, <1>2

\* invalidateAndSchedule() starts over with the settings as they are.
LEMMA InvalidateInv ==
  ASSUME DiscoveryInv, editor' \in Scopes \cup {NoScope}, interpreter' \in [Scopes -> Interpreters],
         SameInterpreter', InvalidateAndSchedule, UNCHANGED <<deactivating, rootCache>>
  PROVE  DiscoveryInv'
<1> USE DEF DiscoveryInv
<1>1. /\ generation' = generation + 1 /\ generation \in Nat /\ roots' = {}
      /\ active # NoDiscovery => active \in ActiveRecord /\ active.generation <= generation
  BY DEF InvalidateAndSchedule, DiscoveryTypeOK
<1>3. active # NoDiscovery => active.generation <= generation' /\ active.generation # generation'
  BY <1>1 DEF ActiveRecord
<1>4. /\ generation' \in Nat /\ roots' \in SUBSET Roots
      /\ rootCache' \in [Interpreters -> SUBSET Roots]
  BY <1>1 DEF DiscoveryTypeOK
<1>2. RootsOwned' /\ CacheOwned'
  BY <1>1 DEF RootsOwned, CacheOwned
<1>5. CASE deactivating \/ Prepared = {}
  <2>1. pending' = <<>> /\ UNCHANGED active /\ used' \in SUBSET Interpreters
    BY <1>5, PreparedKeys DEF InvalidateAndSchedule, Keys
  <2>2. DiscoveryTypeOK'
    BY <1>1, <1>3, <1>4, <2>1 DEF DiscoveryTypeOK
  <2>3. OneInterpreter' /\ PendingOwned'
    BY <1>5, <2>1 DEF InvalidateAndSchedule, OneInterpreter, PendingOwned
  <2>4. ActiveOwned'
    BY <1>3, <2>1 DEF ActiveOwned, Superseded
  <2> QED
    BY <1>2, <2>2, <2>3, <2>4
<1>6. CASE ~(deactivating \/ Prepared = {})
  <2>1. PICK key \in Prepared :
          IF active # NoDiscovery THEN pending' = <<key>> /\ UNCHANGED active
          ELSE Pump(<<key>>, {}, generation + 1)
    BY <1>6 DEF InvalidateAndSchedule
  <2>2. Prepared = {key}
    BY <1>6 DEF Prepared
  <2>3. used' = {key[2]} /\ key \in Keys /\ key[2] = interpreter'[key[1]] /\ key[1] \in Scopes
    BY <1>6, <2>2, PreparedKeys DEF InvalidateAndSchedule, Keys
  <2>4. OneInterpreter' /\ used' \in SUBSET Interpreters
    BY <2>3 DEF OneInterpreter, SameInterpreter, Keys
  <2>5. <<key>> \in Seq(Keys) /\ \A k \in DOMAIN <<key>> : <<key>>[k] = key
    BY <2>3
  <2>6. CASE pending' = <<key>> /\ UNCHANGED active
    <3>1. DiscoveryTypeOK'
      BY <1>1, <1>3, <1>4, <2>4, <2>5, <2>6 DEF DiscoveryTypeOK
    <3>2. PendingOwned'
      BY <2>3, <2>5, <2>6 DEF PendingOwned
    <3>3. ActiveOwned'
      BY <1>3, <2>6 DEF ActiveOwned, Superseded
    <3> QED
      BY <1>2, <2>4, <3>1, <3>2, <3>3
  <2>7. CASE Pump(<<key>>, {}, generation + 1)
    <3>1. generation + 1 \in Nat /\ generation + 1 <= generation'
      BY <1>1
    <3>2. /\ pending' \in Seq(Keys)
          /\ active' # NoDiscovery => active' \in ActiveRecord /\ active'.generation <= generation'
      BY <2>5, <2>7, <3>1, PumpTypes
    <3>3. DiscoveryTypeOK'
      BY <1>4, <2>4, <3>2 DEF DiscoveryTypeOK
    <3>4. (\A k \in DOMAIN <<key>> : <<key>>[k][2] \in used') /\ {} \subseteq RootsOf(used')
      BY <2>3, <2>5
    <3>5. PendingOwned' /\ ActiveOwned'
      <4> DEFINE none == {}
                 next == generation + 1
                 queue == <<key>>
      <4>1. queue \in Seq(Keys) /\ Pump(queue, none, next)
        BY <2>5, <2>7
      <4>2. (\A k \in DOMAIN queue : queue[k][2] \in used') /\ none \subseteq RootsOf(used')
        BY <3>4
      <4> HIDE DEF none, next, queue
      <4> QED
        BY <4>1, <4>2, PumpOwned
    <3> QED
      BY <1>2, <2>4, <3>3, <3>5
  <2> QED
    BY <2>1, <2>6, <2>7
<1> QED
  BY <1>5, <1>6

-----------------------------------------------------------------------------
\* The next discovery starts with the roots in memory.
LEMMA NextDiscovery ==
  ASSUME DiscoveryInv, Pump(pending, roots', generation), roots' \in SUBSET Roots, RootsOwned',
         rootCache' \in [Interpreters -> SUBSET Roots], CacheOwned',
         UNCHANGED <<editor, interpreter, generation, deactivating, used>>
  PROVE  DiscoveryInv'
<1> USE DEF DiscoveryInv
<1>1. pending \in Seq(Keys) /\ generation \in Nat /\ generation <= generation'
  BY DEF DiscoveryTypeOK
<1>2. /\ pending' \in Seq(Keys)
      /\ active' # NoDiscovery => active' \in ActiveRecord /\ active'.generation <= generation'
  BY <1>1, PumpTypes
<1>3. DiscoveryTypeOK'
  BY <1>2 DEF DiscoveryTypeOK
<1>4. SameInterpreter' /\ OneInterpreter'
  BY DEF SameInterpreter, OneInterpreter
<1>5. (\A k \in DOMAIN pending : pending[k][2] \in used') /\ roots' \subseteq RootsOf(used')
  BY DEF PendingOwned, RootsOwned
<1>6. PendingOwned' /\ ActiveOwned'
  BY <1>1, <1>5, PumpOwned
<1> QED
  BY <1>3, <1>4, <1>6

LEMMA AbandonInv ==
  ASSUME DiscoveryInv, Abandon,
         UNCHANGED <<editor, interpreter, generation, deactivating, rootCache, used>>
  PROVE  DiscoveryInv'
<1>1. Pump(pending, roots', generation) /\ roots' = roots
  BY DEF Abandon
<1>2. /\ roots' \in SUBSET Roots /\ RootsOwned'
      /\ rootCache' \in [Interpreters -> SUBSET Roots] /\ CacheOwned'
  BY <1>1 DEF DiscoveryInv, DiscoveryTypeOK, RootsOwned, CacheOwned
<1> QED
  BY <1>1, <1>2, NextDiscovery

LEMMA ProbeReturnsInv == ASSUME DiscoveryInv, ProbeReturns PROVE DiscoveryInv'
<1> USE DEF DiscoveryInv
<1>1. PICK probed \in {{}, Probe[active.key[2]]} :
        IF Superseded
        THEN Abandon /\ UNCHANGED rootCache
        ELSE LET found == RuntimeRoots(active.effective, active.key[2], probed)
             IN /\ active' = [active EXCEPT !.stage = "saving", !.found = found]
                /\ rootCache' = IF found \cap SageRoots = {} THEN rootCache
                                ELSE [rootCache EXCEPT ![active.key[2]] = found \cap SageRoots]
                /\ UNCHANGED <<pending, roots, completed, restart, announced>>
  BY DEF ProbeReturns
<1>2. UNCHANGED <<editor, interpreter, generation, deactivating, used>> /\ active # NoDiscovery
  BY DEF ProbeReturns
<1>3. CASE Superseded
  BY <1>1, <1>2, <1>3, AbandonInv
<1>4. CASE ~Superseded
  <2> DEFINE i == active.key[2]
             found == RuntimeRoots(active.effective, i, probed)
  <2>1. active \in ActiveRecord /\ i \in Interpreters /\ active.effective \in SUBSET Roots
    BY <1>2 DEF DiscoveryTypeOK, ActiveRecord, Keys
  <2>2. i \in used /\ active.effective \subseteq RootsOf(used) /\ used = {i}
    <3>1. i \in used /\ active.effective \subseteq RootsOf(used)
      BY <1>2, <1>4 DEF ActiveOwned
    <3>2. \E s \in Scopes : TRUE
      BY DiscoveryAssumption
    <3> QED
      BY <3>1, <3>2 DEF OneInterpreter
  <2>3. found \subseteq RootsOf({i}) /\ found \in SUBSET Roots
    <3>1. found \subseteq active.effective \cup RootsOf({i})
      BY <2>1, FoundOwned
    <3>2. RootsOf({i}) \subseteq Roots
      BY <2>1, RootsOfTypes
    <3> QED
      BY <2>2, <3>1, <3>2
  <2>4. /\ active' = [active EXCEPT !.stage = "saving", !.found = found]
        /\ rootCache' = IF found \cap SageRoots = {} THEN rootCache
                        ELSE [rootCache EXCEPT ![i] = found \cap SageRoots]
        /\ UNCHANGED <<pending, roots>>
    BY <1>1, <1>4
  <2> HIDE DEF found
  <2>5. /\ active' \in ActiveRecord /\ active'.generation = active.generation
        /\ active'.key = active.key /\ active'.effective = active.effective /\ active'.found = found
    BY <2>1, <2>3, <2>4 DEF ActiveRecord
  <2>6. rootCache' \in [Interpreters -> SUBSET Roots] /\ CacheOwned'
    BY <2>1, <2>3, <2>4 DEF DiscoveryTypeOK, CacheOwned, RootsOf
  <2>7. DiscoveryTypeOK'
    BY <1>2, <2>4, <2>5, <2>6 DEF DiscoveryTypeOK
  <2>8. SameInterpreter' /\ OneInterpreter' /\ RootsOwned' /\ PendingOwned'
    BY <1>2, <2>4 DEF SameInterpreter, OneInterpreter, RootsOwned, PendingOwned
  <2>9. ActiveOwned'
    BY <1>2, <2>2, <2>3, <2>5 DEF ActiveOwned
  <2> QED
    BY <2>6, <2>7, <2>8, <2>9
<1> QED
  BY <1>3, <1>4

LEMMA SaveReturnsInv == ASSUME DiscoveryInv, SaveReturns PROVE DiscoveryInv'
<1> USE DEF DiscoveryInv
<1>1. /\ UNCHANGED <<editor, interpreter, generation, deactivating, rootCache, used>>
      /\ active # NoDiscovery /\ active.stage = "saving"
  BY DEF SaveReturns
<1>2. CASE Superseded
  BY <1>1, <1>2, AbandonInv DEF SaveReturns
<1>3. CASE ~Superseded
  <2>1. /\ roots' = roots \cup (active.found \ (StartupRoots(active.effective, active.key[2]) \cup roots))
        /\ Pump(pending, roots', generation)
    BY <1>3 DEF SaveReturns, Announce
  <2>2. active.found \in SUBSET Roots /\ active.found \subseteq RootsOf(used)
    BY <1>1, <1>3 DEF DiscoveryTypeOK, ActiveRecord, ActiveOwned
  <2>3. roots' \in SUBSET Roots /\ RootsOwned'
    BY <1>1, <2>1, <2>2 DEF DiscoveryTypeOK, RootsOwned
  <2>4. rootCache' \in [Interpreters -> SUBSET Roots] /\ CacheOwned'
    BY <1>1 DEF DiscoveryTypeOK, CacheOwned
  <2> QED
    BY <1>1, <2>1, <2>3, <2>4, NextDiscovery
<1> QED
  BY <1>2, <1>3

-----------------------------------------------------------------------------
LEMMA DiscoveryStepInv == ~FolderSettings /\ DiscoveryInv /\ [DiscoveryNext]_discovery => DiscoveryInv'
<1> SUFFICES ASSUME ~FolderSettings, DiscoveryInv, [DiscoveryNext]_discovery PROVE DiscoveryInv'
  OBVIOUS
<1> USE DEF DiscoveryInv
<1>1. CASE EditorChanges
  BY <1>1, ScheduleInv DEF EditorChanges
<1>2. CASE ConfigurationChanges
  <2>1. editor' \in Scopes \cup {NoScope} /\ InvalidateAndSchedule /\ UNCHANGED <<deactivating, rootCache>>
    BY <1>2 DEF ConfigurationChanges, DiscoveryTypeOK
  <2>2. interpreter' \in [Scopes -> Interpreters] /\ SameInterpreter'
    BY <1>2 DEF ConfigurationChanges, Configured, SameInterpreter
  <2> QED
    BY <2>1, <2>2, InvalidateInv
<1>3. CASE PrepareDatabaseBuild
  <2>1. editor' \in Scopes \cup {NoScope} /\ InvalidateAndSchedule /\ UNCHANGED <<deactivating, rootCache>>
    BY <1>3 DEF PrepareDatabaseBuild, DiscoveryTypeOK
  <2>2. interpreter' \in [Scopes -> Interpreters] /\ SameInterpreter'
    BY <1>3 DEF PrepareDatabaseBuild, DiscoveryTypeOK, SameInterpreter
  <2> QED
    BY <2>1, <2>2, InvalidateInv
<1>4. CASE BeginDeactivation
  <2>1. DiscoveryTypeOK'
    BY <1>4 DEF BeginDeactivation, DiscoveryTypeOK, ActiveRecord
  <2> QED
    BY <1>4, <2>1 DEF BeginDeactivation, SameInterpreter, OneInterpreter, CacheOwned, RootsOwned,
                      PendingOwned, ActiveOwned, Superseded
<1>5. CASE ProbeReturns
  BY <1>5, ProbeReturnsInv
<1>6. CASE SaveReturns
  BY <1>6, SaveReturnsInv
<1>7. CASE SaveFails
  BY <1>7, AbandonInv DEF SaveFails
<1>8. CASE (\E created : ServeStart(created)) \/ RestartCommand \/ UNCHANGED discovery
  <2>1. UNCHANGED <<editor, interpreter, roots, pending, active, generation, deactivating, rootCache, used>>
    BY <1>8 DEF ServeStart, RestartCommand, discovery
  <2> QED
    BY <2>1 DEF DiscoveryTypeOK, SameInterpreter, OneInterpreter, CacheOwned, RootsOwned,
                PendingOwned, ActiveOwned, Superseded
<1> QED
  BY <1>1, <1>2, <1>3, <1>4, <1>5, <1>6, <1>7, <1>8
     DEF DiscoveryNext, CreateClient, ClientStartFails

-----------------------------------------------------------------------------
(* The roots the next client gets are those of the workspace or of the     *)
(* interpreter asked about since the settings last changed, whatever the   *)
(* folders, roots and interpreters (runtimeSourceRootDiscoveryController   *)
(* .ts).                                                                   *)
THEOREM RootsFresh == ~FolderSettings /\ DiscoverySpec => []NoStaleRoots
<1>1. DiscoveryInv => NoStaleRoots
  BY DEF DiscoveryInv, RootsOwned, RootsOf, NoStaleRoots
<1>2. ASSUME ~FolderSettings PROVE DiscoverySpec => []NoStaleRoots
  <2>1. DiscoveryInit => DiscoveryInv
    BY <1>2, DiscoveryInitInv
  <2>2. DiscoveryInv /\ [DiscoveryNext]_discovery => DiscoveryInv'
    BY <1>2, DiscoveryStepInv
  <2> QED
    BY <1>1, <2>1, <2>2, PTL DEF DiscoverySpec
<1> QED
  BY <1>2

-----------------------------------------------------------------------------

TaskTypeOK ==
  /\ stage \in [Executions -> {"none", "launching", "launched", "failed"}]
  /\ taskProcess \in [Executions -> {"none", "running", "over", "reported"}]
  /\ tasks \subseteq Executions /\ endedTasks \subseteq Executions
  /\ disposed \in BOOLEAN /\ listening \in BOOLEAN
  /\ cleaned \in [Executions -> Nat]

\* The editor knows no task of a run that is not under way.
Started(e) ==
  /\ stage[e] \in {"none", "failed"} => taskProcess[e] = "none"
  /\ stage[e] = "launched" => taskProcess[e] # "none"

\* A run waits for the end of its task from its launch to that end, and is cleaned up
\* there.
Waits(e) ==
  /\ e \in tasks <=> stage[e] = "launched" /\ taskProcess[e] \in {"running", "over"}
  /\ cleaned[e] = IF stage[e] = "launched" /\ taskProcess[e] = "reported" THEN 1 ELSE 0

\* An end that overtakes the launch is remembered.
Remembered(e) ==
  /\ stage[e] = "launching" /\ taskProcess[e] = "reported" => e \in endedTasks
  /\ e \in endedTasks => taskProcess[e] = "reported"

Told(e) == disposed /\ e \in tasks => e \in terminated

\* Who does not listen any more has nothing to wait for, and never will.
Deaf == ~listening => disposed /\ \A e \in Executions : stage[e] # "launching" /\ e \notin tasks

TasksInv ==
  /\ TaskTypeOK /\ Deaf
  /\ \A e \in Executions : Started(e) /\ Waits(e) /\ Remembered(e) /\ Told(e)

-----------------------------------------------------------------------------
LEMMA TaskInitInv == TaskInit => TasksInv
<1> SUFFICES ASSUME TaskInit PROVE TasksInv
  OBVIOUS
<1>1. TaskTypeOK /\ Deaf
  BY DEF TaskInit, TaskTypeOK, Deaf
<1>2. \A e \in Executions : Started(e) /\ Waits(e) /\ Remembered(e) /\ Told(e)
  BY DEF TaskInit, Started, Waits, Remembered, Told
<1> QED
  BY <1>1, <1>2 DEF TasksInv

\* A pending launch counts.
LEMMA Pending ==
  /\ PendingLaunches \in Nat
  /\ PendingLaunches = 0 <=> \A e \in Executions : stage[e] # "launching"
<1> DEFINE L == {e \in Executions : stage[e] = "launching"}
<1>1. IsFiniteSet(L)
  BY TasksAssumption, FS_Subset
<1> QED
  BY <1>1, FS_CardinalityType, FS_EmptySet DEF PendingLaunches

LEMMA PendingNext ==
  /\ PendingLaunches' \in Nat
  /\ PendingLaunches' = 0 <=> \A e \in Executions : stage'[e] # "launching"
<1> DEFINE L == {e \in Executions : stage'[e] = "launching"}
<1>1. IsFiniteSet(L)
  BY TasksAssumption, FS_Subset
<1> QED
  BY <1>1, FS_CardinalityType, FS_EmptySet DEF PendingLaunches

\* The subscription goes only when nobody can need it.
LEMMA StaysHeard ==
  ASSUME TaskTypeOK', NotifyDisposedIdle, listening \in BOOLEAN,
         listening \/ (disposed' /\ \A e \in Executions : stage'[e] # "launching" /\ e \notin tasks')
  PROVE  Deaf'
<1>1. CASE listening
  <2>1. ~listening' => disposed' /\ tasks' = {} /\ PendingLaunches' = 0
    BY <1>1, Zenon DEF NotifyDisposedIdle
  <2> QED
    BY <2>1, PendingNext DEF Deaf
<1>2. CASE ~listening
  BY <1>2 DEF Deaf
<1> QED
  BY <1>1, <1>2

-----------------------------------------------------------------------------
LEMMA TaskStepInv == TasksInv /\ [TaskNext]_taskVars => TasksInv'
<1> SUFFICES ASSUME TasksInv, [TaskNext]_taskVars PROVE TasksInv'
  OBVIOUS
<1> USE DEF TasksInv
<1>1. ASSUME NEW e \in Executions, BeginLaunch(e) PROVE TasksInv'
  BY <1>1 DEF BeginLaunch, TaskTypeOK, Started, Waits, Remembered, Told, Deaf
<1>2. ASSUME NEW e \in Executions, ProcessStarts(e) PROVE TasksInv'
  BY <1>2 DEF ProcessStarts, TaskTypeOK, Started, Waits, Remembered, Told, Deaf
<1>3. ASSUME NEW e \in Executions, ProcessEnds(e) PROVE TasksInv'
  BY <1>3 DEF ProcessEnds, TaskTypeOK, Started, Waits, Remembered, Told, Deaf
<1>4. ASSUME NEW e \in Executions, CompleteLaunch(e) PROVE TasksInv'
  <2>1. TaskTypeOK'
    BY <1>4 DEF CompleteLaunch, CompleteTask, NotifyDisposedIdle, TaskTypeOK
  <2>2. Deaf'
    BY <1>4, <2>1, StaysHeard DEF CompleteLaunch, Deaf, TaskTypeOK
  <2>3. (Started(e) /\ Waits(e) /\ Remembered(e) /\ Told(e))'
    BY <1>4 DEF CompleteLaunch, CompleteTask, TaskTypeOK, Started, Waits, Remembered, Told
  <2>4. ASSUME NEW o \in Executions, o # e
        PROVE  (Started(o) /\ Waits(o) /\ Remembered(o) /\ Told(o))'
    BY <1>4, <2>4 DEF CompleteLaunch, CompleteTask, TaskTypeOK, Started, Waits, Remembered, Told
  <2> QED
    BY <2>1, <2>2, <2>3, <2>4
<1>5. ASSUME NEW e \in Executions, FailLaunch(e) PROVE TasksInv'
  <2>1. TaskTypeOK'
    BY <1>5 DEF FailLaunch, NotifyDisposedIdle, TaskTypeOK
  <2>2. Deaf'
    BY <1>5, <2>1, StaysHeard DEF FailLaunch, Deaf, TaskTypeOK
  <2> QED
    BY <1>5, <2>1, <2>2 DEF FailLaunch, TaskTypeOK, Started, Waits, Remembered, Told
<1>6. ASSUME NEW e \in Executions, End(e) PROVE TasksInv'
  <2>1. listening
    \* A task that is over belongs to a run that is launching or is waited for.
    BY <1>6 DEF End, TaskTypeOK, Started, Waits, Deaf
  <2>2. TaskTypeOK'
    BY <1>6, <2>1 DEF End, CompleteTask, NotifyDisposedIdle, TaskTypeOK
  <2>3. Deaf'
    BY <1>6, <2>1, <2>2, StaysHeard DEF End, Deaf, TaskTypeOK
  <2>4. (Started(e) /\ Waits(e) /\ Remembered(e) /\ Told(e))'
    BY <1>6, <2>1, Pending DEF End, CompleteTask, TaskTypeOK, Started, Waits, Remembered, Told
  <2>5. ASSUME NEW o \in Executions, o # e
        PROVE  (Started(o) /\ Waits(o) /\ Remembered(o) /\ Told(o))'
    BY <1>6, <2>1, <2>5 DEF End, CompleteTask, TaskTypeOK, Started, Waits, Remembered, Told
  <2> QED
    BY <2>2, <2>3, <2>4, <2>5
<1>7. ASSUME Dispose PROVE TasksInv'
  <2>1. TaskTypeOK'
    BY <1>7 DEF Dispose, NotifyDisposedIdle, TaskTypeOK
  <2>2. Deaf'
    BY <1>7, <2>1, StaysHeard DEF Dispose, Deaf, TaskTypeOK
  <2> QED
    BY <1>7, <2>1, <2>2 DEF Dispose, TaskTypeOK, Started, Waits, Remembered, Told
<1>8. CASE UNCHANGED taskVars
  BY <1>8 DEF taskVars, TaskTypeOK, Started, Waits, Remembered, Told, Deaf
<1> QED
  BY <1>1, <1>2, <1>3, <1>4, <1>5, <1>6, <1>7, <1>8 DEF TaskNext

-----------------------------------------------------------------------------
(* Every run whose end was reported has had its generated file removed     *)
(* once, and a run that outlives dispose() was told to terminate           *)
(* (runTaskLifecycle.ts), for any number of runs.                          *)
THEOREM RunsCleaned == TaskSpec => []EveryRunCleaned
<1>1. TasksInv => EveryRunCleaned
  BY DEF TasksInv, TaskTypeOK, Waits, Told, EveryRunCleaned
<1> QED
  BY <1>1, TaskInitInv, TaskStepInv, PTL DEF TaskSpec

-----------------------------------------------------------------------------
(* RuntimeDocs.                                                            *)

AtProcess == {"starting", "sending", "receiving"}

Noise(lines) == \A i \in DOMAIN lines : lines[i].kind = "noise"

\* One line is the answer about s, the others are noise.
AnswerIn(lines, s) ==
  \E k \in DOMAIN lines :
    /\ lines[k].kind # "noise" /\ lines[k].about = s
    /\ \A i \in DOMAIN lines \ {k} : lines[i].kind = "noise"

\* The process owes the answer to s and no other: it has yet to read the request, or the
\* answer is one of its lines.
Owes(s) ==
  \/ process.requests = <<s>> /\ Noise(process.lines)
  \/ process.requests = <<>> /\ AnswerIn(process.lines, s)

OwesNothing == process.requests = <<>> /\ Noise(process.lines)

Asked ==
  IF guard \in Tasks /\ task[guard].stage = "receiving"
  THEN Owes(task[guard].symbol)
  ELSE OwesNothing

Named ==
  \A t \in Tasks : /\ task[t].stage # "idle" => task[t].symbol \in Symbols
                   /\ task[t].stage = "found" => task[t].reply \in Symbols
Found ==
  \A t \in Tasks : task[t].stage = "found" => task[t].reply = task[t].symbol

MatchInv == TypeOK /\ AnswersMatch /\ Asked /\ Named /\ Found

-----------------------------------------------------------------------------
LEMMA InitMatches == Init => MatchInv
  BY DocsAssumption
  DEF Init, MatchInv, TypeOK, AnswersMatch, Asked, Named, Found, OwesNothing, Noise, Fresh,
      NoProcess, Stages, States, Lines

-----------------------------------------------------------------------------
(* Types: those of the data, those of the tasks, and the lock.             *)

DataType ==
  /\ usable \in BOOLEAN /\ state \in States
  /\ cache \subseteq Symbols /\ inflight \subseteq Symbols
  /\ sources \in [Symbols -> Symbols \cup {NoReply}]
  /\ process \in [running : BOOLEAN, ready : BOOLEAN, requests : Seq(Symbols), lines : Seq(Lines)]
  /\ guard \in Tasks \cup {NoTask}
TaskRecord == [stage : Stages, prefetch : BOOLEAN, symbol : Symbols \cup {NoReply},
               reply : Symbols \cup {NoReply}]
TaskType == task \in [Tasks -> TaskRecord]
Locked == \A t \in Tasks : guard = t <=> task[t].stage \in AtProcess

LEMMA TypeParts == TypeOK <=> DataType /\ TaskType /\ Locked
  BY DEF TypeOK, DataType, TaskType, TaskRecord, Locked, AtProcess

\* What a step of one task leaves as it was.
Moves(t, phase) ==
  /\ TaskType'
  /\ \A u \in Tasks : task'[u].stage = IF u = t THEN phase ELSE task[u].stage
  /\ \A u \in Tasks : task'[u].symbol = task[u].symbol /\ task'[u].prefetch = task[u].prefetch
  /\ \A u \in Tasks : u # t => task'[u].reply = task[u].reply

LEMMA EntersMoves ==
  ASSUME TaskType, NEW t \in Tasks, NEW phase \in Stages, Enters(t, phase)
  PROVE Moves(t, phase) /\ task'[t].reply = task[t].reply
<1>1. task' = [task EXCEPT ![t] = [task[t] EXCEPT !.stage = phase]]
  BY DEF Enters
<1>2. task[t] \in TaskRecord
  BY DEF TaskType
<1>3. [task[t] EXCEPT !.stage = phase] \in TaskRecord
  BY <1>2 DEF TaskRecord
<1> QED
  BY <1>1, <1>2, <1>3 DEF Moves, TaskType, TaskRecord

\* A prefetch that is over finishes, a lookup that is over is idle.
Ends(t, phase) ==
  (phase = "idle" => ~task[t].prefetch) /\ (phase = "finishing" => task[t].prefetch)

LEMMA AfterStages ==
  ASSUME NEW t \in Tasks
  PROVE  After(t) \in {"finishing", "idle"} /\ Ends(t, After(t))
  BY DEF After, Ends

\* Where each step takes its task.
LEMMA EnterInflightMoves ==
  ASSUME TaskType, NEW t \in Tasks, EnterInflight(t)
  PROVE \E phase \in {"idle", "called"} : Moves(t, phase)
  BY EntersMoves DEF EnterInflight, Stages

LEMMA LockProcessMoves ==
  ASSUME TaskType, NEW t \in Tasks, LockProcess(t)
  PROVE \E phase \in {"sending", "starting"} : Moves(t, phase)
  BY EntersMoves DEF LockProcess, Stages

LEMMA StartFailsMoves ==
  ASSUME TaskType, NEW t \in Tasks, StartFails(t)
  PROVE \E phase \in {"failed"} : Moves(t, phase)
  BY EntersMoves DEF StartFails, Stages, GivesUp

LEMMA StartSucceedsMoves ==
  ASSUME TaskType, NEW t \in Tasks, StartSucceeds(t)
  PROVE \E phase \in {"sending"} : Moves(t, phase)
  BY EntersMoves DEF StartSucceeds, Stages

LEMMA SendMoves ==
  ASSUME TaskType, NEW t \in Tasks, Send(t)
  PROVE \E phase \in {"receiving", "failed"} : Moves(t, phase)
  BY EntersMoves DEF Send, Stages, GivesUp

LEMMA NoAnswerMoves ==
  ASSUME TaskType, NEW t \in Tasks, NoAnswer(t)
  PROVE \E phase \in {"failed"} : Moves(t, phase)
  BY EntersMoves DEF NoAnswer, Stages, GivesUp

LEMMA ReportMoves ==
  ASSUME TaskType, NEW t \in Tasks, Report(t)
  PROVE \E phase \in {"finishing", "idle"} : Moves(t, phase) /\ Ends(t, phase)
  BY EntersMoves, AfterStages DEF Report, Stages

LEMMA KeepMoves ==
  ASSUME TaskType, NEW t \in Tasks, Keep(t)
  PROVE \E phase \in {"finishing", "idle"} : Moves(t, phase) /\ Ends(t, phase)
  BY EntersMoves, AfterStages DEF Keep, Stages

LEMMA FinishPrefetchMoves ==
  ASSUME TaskType, NEW t \in Tasks, FinishPrefetch(t)
  PROVE \E phase \in {"idle"} : Moves(t, phase)
  BY EntersMoves DEF FinishPrefetch, Stages

LEMMA LookupMoves ==
  ASSUME TaskType, NEW t \in Tasks, Lookup(t)
  PROVE \E phase \in {"finishing", "idle", "locking"} : Moves(t, phase) /\ Ends(t, phase)
<1>1. CASE task[t].symbol \in cache
  <2>1. task' = [task EXCEPT ![t] = [task[t] EXCEPT !.reply = task[t].symbol, !.stage = After(t)]]
    BY <1>1 DEF Lookup
  <2>2. task[t] \in TaskRecord
    BY DEF TaskType
  <2>3. [task[t] EXCEPT !.reply = task[t].symbol, !.stage = After(t)] \in TaskRecord
    BY <2>2, AfterStages DEF TaskRecord, Stages
  <2>4. Moves(t, After(t))
    BY <2>1, <2>2, <2>3 DEF Moves, TaskType, TaskRecord
  <2> QED
    BY <2>4, AfterStages
<1>2. CASE task[t].symbol \notin cache
  <2>1. Enters(t, IF usable THEN "locking" ELSE After(t))
    BY <1>2 DEF Lookup
  <2>2. /\ (IF usable THEN "locking" ELSE After(t)) \in {"finishing", "idle", "locking"}
        /\ Ends(t, IF usable THEN "locking" ELSE After(t))
    BY AfterStages DEF Ends
  <2> QED
    BY <2>1, <2>2, EntersMoves DEF Stages
<1> QED
  BY <1>1, <1>2

\* The line at the head: what it says of a symbol is about a symbol of Symbols.
LEMMA HeadLine ==
  ASSUME DataType, process.lines # <<>>
  PROVE /\ Head(process.lines) \in Lines
        /\ Head(process.lines).kind # "noise" => Head(process.lines).about \in Symbols
        /\ Tail(process.lines) \in Seq(Lines)
<1>1. process.lines \in Seq(Lines)
  BY DEF DataType
<1>2. Head(process.lines) \in Lines /\ Tail(process.lines) \in Seq(Lines)
  BY <1>1
<1> QED
  BY <1>2 DEF Lines

LEMMA ReceiveMoves ==
  ASSUME TaskType, DataType, NEW t \in Tasks, Receive(t)
  PROVE \/ Moves(t, "failed")
        \/ Moves(t, "found") /\ task'[t].reply = Head(process.lines).about
           /\ Head(process.lines).about \in Symbols
<1> DEFINE line == Head(process.lines)
<1>1. CASE Enters(t, "failed")
  BY <1>1, EntersMoves DEF Stages
<1>2. CASE /\ line.kind # "noise"
           /\ task' = [task EXCEPT ![t] = [task[t] EXCEPT !.reply = line.about, !.stage = "found"]]
  <2>1. task[t] \in TaskRecord
    BY DEF TaskType
  <2>2. line.about \in Symbols
    BY <1>2, HeadLine DEF Receive
  <2>3. [task[t] EXCEPT !.reply = line.about, !.stage = "found"] \in TaskRecord
    BY <2>1, <2>2 DEF TaskRecord, Stages
  <2>4. Moves(t, "found")
    BY <1>2, <2>1, <2>3 DEF Moves, TaskType, TaskRecord
  <2>5. task'[t].reply = line.about
    BY <1>2, <2>1 DEF TaskType, TaskRecord
  <2> QED
    BY <2>2, <2>4, <2>5
<1> QED
  BY <1>1, <1>2 DEF Receive, GivesUp

LEMMA CallMoves ==
  ASSUME TaskType, NEW t \in Tasks, NEW s \in Symbols, Prefetch(t, s) \/ Ask(t, s)
  PROVE /\ TaskType' /\ task[t].stage = "idle"
        /\ task'[t].stage \in {"entering", "called"} /\ task'[t].symbol = s
        /\ task'[t].reply = NoReply /\ (task'[t].prefetch <=> task'[t].stage = "entering")
        /\ \A u \in Tasks : u # t => task'[u] = task[u]
<1>2. task[t].stage = "idle"
  BY DEF Prefetch, Ask
<1>3. CASE Prefetch(t, s)
  <2> DEFINE c == Fresh("entering", TRUE, s)
  <2>1. /\ c.stage = "entering" /\ c.symbol = s /\ c.reply = NoReply /\ c.prefetch
        /\ c \in TaskRecord
    BY DEF Fresh, TaskRecord, Stages
  <2>2. task' = [task EXCEPT ![t] = c]
    BY <1>3 DEF Prefetch
  <2> HIDE DEF c
  <2> QED
    BY <1>2, <2>1, <2>2 DEF TaskType
<1>4. CASE Ask(t, s)
  <2> DEFINE c == Fresh("called", FALSE, s)
  <2>1. /\ c.stage = "called" /\ c.symbol = s /\ c.reply = NoReply /\ ~c.prefetch
        /\ c \in TaskRecord
    BY DEF Fresh, TaskRecord, Stages
  <2>2. task' = [task EXCEPT ![t] = c]
    BY <1>4 DEF Ask
  <2> HIDE DEF c
  <2> QED
    BY <1>2, <2>1, <2>2 DEF TaskType
<1> QED
  BY <1>3, <1>4

-----------------------------------------------------------------------------
LEMMA TaskStepTypes ==
  DataType /\ TaskType /\ Named /\ [Next]_vars => TaskType' /\ Named'
<1> SUFFICES ASSUME DataType, TaskType, Named, [Next]_vars PROVE TaskType' /\ Named'
  OBVIOUS
<1>1. CASE UNCHANGED vars
  BY <1>1 DEF vars, TaskType, Named
<1>2. ASSUME NEW t \in Tasks, NEW s \in Symbols, Prefetch(t, s) \/ Ask(t, s)
      PROVE TaskType' /\ Named'
  BY <1>2, CallMoves DEF Named
<1>3. ASSUME NEW t \in Tasks, task[t].stage # "idle", NEW phase, phase # "found", Moves(t, phase)
      PROVE TaskType' /\ Named'
  BY <1>3 DEF Moves, Named
<1>4. ASSUME NEW t \in Tasks, Receive(t) PROVE TaskType' /\ Named'
  <2>1. task[t].stage # "idle"
    BY <1>4 DEF Receive
  <2>2. CASE Moves(t, "failed")
    BY <1>3, <2>1, <2>2
  <2>3. CASE /\ Moves(t, "found") /\ task'[t].reply = Head(process.lines).about
             /\ Head(process.lines).about \in Symbols
    BY <2>1, <2>3 DEF Moves, Named
  <2> QED
    BY <1>4, <2>2, <2>3, ReceiveMoves
<1>5. ASSUME NEW t \in Tasks, EnterInflight(t) PROVE TaskType' /\ Named'
  <2>1. task[t].stage # "idle"
    BY <1>5 DEF EnterInflight
  <2> QED
    BY <1>3, <1>5, <2>1, EnterInflightMoves
<1>6. ASSUME NEW t \in Tasks, Lookup(t) PROVE TaskType' /\ Named'
  <2>1. task[t].stage # "idle"
    BY <1>6 DEF Lookup
  <2> QED
    BY <1>3, <1>6, <2>1, LookupMoves
<1>7. ASSUME NEW t \in Tasks, LockProcess(t) PROVE TaskType' /\ Named'
  <2>1. task[t].stage # "idle"
    BY <1>7 DEF LockProcess
  <2> QED
    BY <1>3, <1>7, <2>1, LockProcessMoves
<1>8. ASSUME NEW t \in Tasks, StartFails(t) PROVE TaskType' /\ Named'
  <2>1. task[t].stage # "idle"
    BY <1>8 DEF StartFails
  <2> QED
    BY <1>3, <1>8, <2>1, StartFailsMoves
<1>9. ASSUME NEW t \in Tasks, StartSucceeds(t) PROVE TaskType' /\ Named'
  <2>1. task[t].stage # "idle"
    BY <1>9 DEF StartSucceeds
  <2> QED
    BY <1>3, <1>9, <2>1, StartSucceedsMoves
<1>10. ASSUME NEW t \in Tasks, Send(t) PROVE TaskType' /\ Named'
  <2>1. task[t].stage # "idle"
    BY <1>10 DEF Send
  <2> QED
    BY <1>3, <1>10, <2>1, SendMoves
<1>11. ASSUME NEW t \in Tasks, NoAnswer(t) PROVE TaskType' /\ Named'
  <2>1. task[t].stage # "idle"
    BY <1>11 DEF NoAnswer
  <2> QED
    BY <1>3, <1>11, <2>1, NoAnswerMoves
<1>12. ASSUME NEW t \in Tasks, Report(t) PROVE TaskType' /\ Named'
  <2>1. task[t].stage # "idle"
    BY <1>12 DEF Report
  <2> QED
    BY <1>3, <1>12, <2>1, ReportMoves
<1>13. ASSUME NEW t \in Tasks, Keep(t) PROVE TaskType' /\ Named'
  <2>1. task[t].stage # "idle"
    BY <1>13 DEF Keep
  <2> QED
    BY <1>3, <1>13, <2>1, KeepMoves
<1>14. ASSUME NEW t \in Tasks, FinishPrefetch(t) PROVE TaskType' /\ Named'
  <2>1. task[t].stage # "idle"
    BY <1>14 DEF FinishPrefetch
  <2> QED
    BY <1>3, <1>14, <2>1, FinishPrefetchMoves
<1>15. CASE ProcessStep
  BY <1>15 DEF ProcessStep, TaskType, Named
<1> QED
  BY <1>1, <1>2, <1>4, <1>5, <1>6, <1>7, <1>8, <1>9,
     <1>10, <1>11, <1>12, <1>13, <1>14, <1>15
  DEF Next, TaskStep

LEMMA DataStep == DataType /\ TaskType /\ Named /\ [Next]_vars => DataType'
<1> SUFFICES ASSUME DataType, TaskType, Named, [Next]_vars PROVE DataType'
  OBVIOUS
<1> DEFINE Processes == [running : BOOLEAN, ready : BOOLEAN, requests : Seq(Symbols),
                         lines : Seq(Lines)]
<1> USE DEF DataType, States
<1>1. CASE UNCHANGED vars
  BY <1>1 DEF vars
<1>2. ASSUME NEW t \in Tasks, NEW s \in Symbols, Prefetch(t, s) \/ Ask(t, s) PROVE DataType'
  BY <1>2 DEF Prefetch, Ask
<1>3. ASSUME NEW t \in Tasks, EnterInflight(t) PROVE DataType'
  BY <1>3 DEF EnterInflight, Named
<1>4. ASSUME NEW t \in Tasks, LockProcess(t) PROVE DataType'
  BY <1>4 DEF LockProcess, NoProcess
<1>5. NoProcess \in Processes
  BY DEF NoProcess
<1>6. ASSUME NEW t \in Tasks, Receive(t) PROVE DataType'
  <2>1. usable' = usable /\ cache' = cache /\ inflight' = inflight
    BY <1>6 DEF Receive
  <2>2. [process EXCEPT !.lines = Tail(@)] \in Processes
    BY <1>6, HeadLine DEF Receive
  <2>3. process' \in Processes
    BY <1>6, <1>5, <2>2 DEF Receive, GivesUp
  <2>5. Head(process.lines).kind # "noise" => Head(process.lines).about \in Symbols
    BY <1>6, HeadLine DEF Receive
  <2>6. sources' \in [Symbols -> Symbols \cup {NoReply}]
    BY <1>6, <2>5 DEF Receive
  <2>7. state' \in States /\ guard' \in Tasks \cup {NoTask}
    BY <1>6 DEF Receive, GivesUp
  <2> QED
    BY <2>1, <2>3, <2>6, <2>7
<1>7. ASSUME NEW t \in Tasks, Send(t) PROVE DataType'
  <2>1. task[t].symbol \in Symbols
    BY <1>7 DEF Send, Named
  <2>2. [process EXCEPT !.requests = Append(@, task[t].symbol)] \in Processes
    BY <2>1
  <2> QED
    BY <1>5, <1>7, <2>2 DEF Send, GivesUp
<1>8. ASSUME NEW t \in Tasks, StartFails(t) \/ NoAnswer(t) PROVE DataType'
  BY <1>5, <1>8 DEF StartFails, NoAnswer, GivesUp
<1>9. ASSUME NEW t \in Tasks, StartSucceeds(t) \/ Lookup(t) \/ Report(t) \/ FinishPrefetch(t)
      PROVE DataType'
  BY <1>9 DEF StartSucceeds, Lookup, Report, FinishPrefetch
<1>10. ASSUME NEW t \in Tasks, Keep(t) PROVE DataType'
  BY <1>10 DEF Keep, Named
<1>11. CASE ProcessStep
  <2>1. process' \in Processes
    <3>1. CASE ProcessReady \/ ProcessDies
      BY <3>1 DEF ProcessReady, ProcessDies
    <3>2. CASE ProcessAnswers
      <4>1. Head(process.requests) \in Symbols /\ Tail(process.requests) \in Seq(Symbols)
        BY <3>2 DEF ProcessAnswers
      <4>2. PICK kind \in {"ok", "error"} :
              process' = [process EXCEPT !.requests = Tail(@),
                            !.lines = Append(@, [kind |-> kind, about |-> Head(process.requests)])]
        BY <3>2 DEF ProcessAnswers
      <4> DEFINE line == [kind |-> kind, about |-> Head(process.requests)]
      <4>3. line \in Lines
        BY <4>1 DEF Lines
      <4>4. process' = [process EXCEPT !.requests = Tail(@), !.lines = Append(@, line)]
        BY <4>2
      <4>5. Append(process.lines, line) \in Seq(Lines)
        BY <4>3
      <4> DEFINE lines == Append(process.lines, line)
             requests == Tail(process.requests)
      <4>6. process' = [process EXCEPT !.requests = requests, !.lines = lines]
        BY <4>4
      <4>7. requests \in Seq(Symbols) /\ lines \in Seq(Lines)
        BY <4>1, <4>5
      <4> HIDE DEF lines, requests
      <4> QED
        BY <4>6, <4>7
    <3>3. CASE ProcessPrints
      <4>1. [kind |-> "noise"] \in Lines
        BY DEF Lines
      <4> QED
        BY <3>3, <4>1 DEF ProcessPrints
    <3> QED
      BY <1>11, <3>1, <3>2, <3>3 DEF ProcessStep
  <2> QED
    BY <1>11, <2>1 DEF ProcessStep
<1> QED
  BY <1>1, <1>2, <1>3, <1>4, <1>6, <1>7, <1>8, <1>9, <1>10, <1>11 DEF Next, TaskStep

-----------------------------------------------------------------------------
LEMMA LockStep == TypeOK /\ Named /\ [Next]_vars => Locked'
<1> SUFFICES ASSUME DataType, TaskType, Locked, Named, [Next]_vars PROVE Locked'
  BY TypeParts
<1> USE DocsAssumption
<1>1. CASE UNCHANGED vars
  BY <1>1 DEF vars, Locked
<1>2. ASSUME NEW t \in Tasks, NEW s \in Symbols, Prefetch(t, s) \/ Ask(t, s) PROVE Locked'
  <2>1. guard' = guard
    BY <1>2 DEF Prefetch, Ask
  <2> QED
    BY <1>2, <2>1, CallMoves DEF Locked, AtProcess
<1>3. ASSUME NEW t \in Tasks, NEW phase, Moves(t, phase), guard' = guard,
             task[t].stage \in AtProcess <=> phase \in AtProcess
      PROVE Locked'
  BY <1>3 DEF Moves, Locked
<1>4. ASSUME NEW t \in Tasks, NEW phase, Moves(t, phase), guard = t, guard' = NoTask,
             phase \notin AtProcess
      PROVE Locked'
  BY <1>4 DEF Moves, Locked
<1>5. ASSUME NEW t \in Tasks, NEW phase, Moves(t, phase), guard = NoTask, guard' = t,
             phase \in AtProcess
      PROVE Locked'
  BY <1>5 DEF Moves, Locked
<1>6. ASSUME NEW t \in Tasks, EnterInflight(t) PROVE Locked'
  BY <1>3, <1>6, EnterInflightMoves DEF EnterInflight, AtProcess
<1>7. ASSUME NEW t \in Tasks, Lookup(t) PROVE Locked'
  BY <1>3, <1>7, LookupMoves DEF Lookup, AtProcess
<1>8. ASSUME NEW t \in Tasks, LockProcess(t) PROVE Locked'
  BY <1>5, <1>8, LockProcessMoves DEF LockProcess, AtProcess
<1>9. ASSUME NEW t \in Tasks, StartFails(t) PROVE Locked'
  <2>1. guard = t
    BY <1>9 DEF StartFails, Locked, AtProcess
  <2> QED
    BY <1>4, <1>9, <2>1, StartFailsMoves DEF StartFails, GivesUp, AtProcess
<1>10. ASSUME NEW t \in Tasks, StartSucceeds(t) PROVE Locked'
  BY <1>3, <1>10, StartSucceedsMoves DEF StartSucceeds, AtProcess
<1>11. ASSUME NEW t \in Tasks, Send(t) PROVE Locked'
  <2>1. guard = t
    BY <1>11 DEF Send, Locked, AtProcess
  <2>2. CASE Enters(t, "receiving") /\ UNCHANGED guard
    <3>1. Moves(t, "receiving")
      BY <2>2, EntersMoves DEF Stages
    <3> QED
      BY <1>3, <1>11, <2>2, <3>1 DEF Send, AtProcess
  <2>3. CASE GivesUp(t)
    <3>1. Moves(t, "failed") /\ guard' = NoTask
      BY <2>3, EntersMoves DEF Stages, GivesUp
    <3> QED
      BY <1>4, <2>1, <3>1 DEF AtProcess
  <2> QED
    BY <1>11, <2>2, <2>3 DEF Send
<1>12. ASSUME NEW t \in Tasks, NoAnswer(t) PROVE Locked'
  <2>1. guard = t
    BY <1>12 DEF NoAnswer, Locked, AtProcess
  <2> QED
    BY <1>4, <1>12, <2>1, NoAnswerMoves DEF NoAnswer, GivesUp, AtProcess
<1>13. ASSUME NEW t \in Tasks, Receive(t) PROVE Locked'
  <2>1. guard = t
    BY <1>13 DEF Receive, Locked, AtProcess
  <2>2. guard' = NoTask
    BY <1>13 DEF Receive, GivesUp
  <2> QED
    BY <1>4, <1>13, <2>1, <2>2, ReceiveMoves DEF AtProcess
<1>14. ASSUME NEW t \in Tasks, Report(t) PROVE Locked'
  BY <1>3, <1>14, ReportMoves DEF Report, AtProcess
<1>15. ASSUME NEW t \in Tasks, Keep(t) PROVE Locked'
  BY <1>3, <1>15, KeepMoves DEF Keep, AtProcess
<1>16. ASSUME NEW t \in Tasks, FinishPrefetch(t) PROVE Locked'
  BY <1>3, <1>16, FinishPrefetchMoves DEF FinishPrefetch, AtProcess
<1>17. CASE ProcessStep
  BY <1>17 DEF ProcessStep, Locked
<1> QED
  BY <1>1, <1>2, <1>6, <1>7, <1>8, <1>9, <1>10, <1>11, <1>12, <1>13, <1>14, <1>15, <1>16, <1>17
  DEF Next, TaskStep

-----------------------------------------------------------------------------
(* What the process owes.                                                  *)

LEMMA NoiseAppended ==
  ASSUME NEW lines \in Seq(Lines), Noise(lines)
  PROVE Noise(Append(lines, [kind |-> "noise"]))
  BY DEF Noise

LEMMA AnswerAppended ==
  ASSUME NEW lines \in Seq(Lines), Noise(lines), NEW s, NEW line, line.kind # "noise",
         line.about = s
  PROVE AnswerIn(Append(lines, line), s)
  BY DEF Noise, AnswerIn

LEMMA NoiseAfterAnswer ==
  ASSUME NEW lines \in Seq(Lines), NEW s, AnswerIn(lines, s)
  PROVE AnswerIn(Append(lines, [kind |-> "noise"]), s)
  BY DEF AnswerIn

LEMMA AnswerAtHead ==
  ASSUME NEW lines \in Seq(Lines), lines # <<>>, NEW s, AnswerIn(lines, s),
         Head(lines).kind # "noise"
  PROVE Head(lines).about = s /\ Noise(Tail(lines))
  BY DEF AnswerIn, Noise

Owned == TypeOK /\ Named /\ Asked

\* A lookup that waits for its answer is the one the process works for.
LEMMA AskedOf ==
  ASSUME Owned
  PROVE /\ \A t \in Tasks : task[t].stage = "receiving" => guard = t /\ Owes(task[t].symbol)
        /\ (\A t \in Tasks : task[t].stage # "receiving") => OwesNothing
  BY DocsAssumption DEF Owned, TypeOK, Asked

LEMMA AskedFrom ==
  ASSUME TypeOK', \/ OwesNothing' /\ \A t \in Tasks : task'[t].stage # "receiving"
                  \/ \E t \in Tasks : task'[t].stage = "receiving" /\ Owes(task[t].symbol)'
  PROVE Asked'
<1>1. CASE OwesNothing' /\ \A t \in Tasks : task'[t].stage # "receiving"
  BY <1>1 DEF Asked
<1>2. ASSUME NEW t \in Tasks, task'[t].stage = "receiving", Owes(task[t].symbol)' PROVE Asked'
  <2>1. guard' = t
    BY <1>2 DEF TypeOK
  <2> QED
    BY <1>2, <2>1 DEF Asked
<1> QED
  BY <1>1, <1>2

LEMMA AskedStep == Owned /\ TypeOK' /\ [Next]_vars => Asked'
<1> SUFFICES ASSUME Owned, TypeOK', [Next]_vars PROVE Asked'
  OBVIOUS
<1> USE DocsAssumption
<1>t. DataType /\ TaskType /\ Locked /\ Named
  BY TypeParts DEF Owned
\* A step that leaves the process and every waiting lookup alone.
<1>1. ASSUME process' = process, guard' = guard,
             \A u \in Tasks : /\ task'[u].stage = "receiving" <=> task[u].stage = "receiving"
                              /\ task[u].stage = "receiving" => task'[u].symbol = task[u].symbol
      PROVE Asked'
  <2>1. CASE \A u \in Tasks : task[u].stage # "receiving"
    <3>1. OwesNothing'
      BY <1>1, <2>1, AskedOf DEF OwesNothing
    <3> QED
      BY <1>1, <2>1, <3>1, AskedFrom
  <2>2. ASSUME NEW u \in Tasks, task[u].stage = "receiving" PROVE Asked'
    <3>1. Owes(task[u].symbol)
      BY <2>2, AskedOf
    <3>2. Owes(task[u].symbol)'
      BY <1>1, <2>2, <3>1 DEF Owes
    <3> QED
      BY <1>1, <2>2, <3>2, AskedFrom
  <2> QED
    BY <2>1, <2>2
<1>2. ASSUME NEW t \in Tasks, NEW phase, Moves(t, phase), task[t].stage # "receiving",
             phase # "receiving", process' = process, guard' = guard
      PROVE Asked'
  BY <1>1, <1>2 DEF Moves
\* A step of the owner of the process that leaves nothing owed.
<1>3. ASSUME NEW t \in Tasks, NEW phase, Moves(t, phase), guard \in {t, NoTask},
             phase # "receiving", OwesNothing'
      PROVE Asked'
  <2>1. \A u \in Tasks : task'[u].stage # "receiving"
    BY <1>3, <1>t DEF Moves, Locked, AtProcess
  <2> QED
    BY <1>3, <2>1, AskedFrom
<1>4. ASSUME NEW t \in Tasks, GivesUp(t), task[t].stage \in AtProcess PROVE Asked'
  <2>1. Moves(t, "failed") /\ guard = t
    BY <1>4, <1>t, EntersMoves DEF GivesUp, Locked, Stages
  <2>2. OwesNothing'
    BY <1>4 DEF GivesUp, OwesNothing, NoProcess, Noise
  <2> QED
    BY <1>3, <2>1, <2>2
<1>5. ASSUME NEW t \in Tasks, task[t].stage \in {"starting", "sending"} PROVE OwesNothing
  <2>1. \A u \in Tasks : task[u].stage # "receiving"
    BY <1>5, <1>t DEF Locked, AtProcess
  <2> QED
    BY <2>1, AskedOf
<1>6. CASE UNCHANGED vars
  BY <1>1, <1>6 DEF vars
<1>7. ASSUME NEW t \in Tasks, NEW s \in Symbols, Prefetch(t, s) \/ Ask(t, s) PROVE Asked'
  <2>1. process' = process /\ guard' = guard
    BY <1>7 DEF Prefetch, Ask
  <2> QED
    BY <1>1, <1>7, <1>t, <2>1, CallMoves
<1>8. ASSUME NEW t \in Tasks, EnterInflight(t) PROVE Asked'
  BY <1>2, <1>8, <1>t, EnterInflightMoves DEF EnterInflight
<1>9. ASSUME NEW t \in Tasks, Lookup(t) PROVE Asked'
  BY <1>2, <1>9, <1>t, LookupMoves DEF Lookup
<1>10. ASSUME NEW t \in Tasks, Report(t) PROVE Asked'
  BY <1>2, <1>10, <1>t, ReportMoves DEF Report
<1>11. ASSUME NEW t \in Tasks, Keep(t) PROVE Asked'
  BY <1>2, <1>11, <1>t, KeepMoves DEF Keep
<1>12. ASSUME NEW t \in Tasks, FinishPrefetch(t) PROVE Asked'
  BY <1>2, <1>12, <1>t, FinishPrefetchMoves DEF FinishPrefetch
<1>13. ASSUME NEW t \in Tasks, LockProcess(t) PROVE Asked'
  <2>1. guard = NoTask
    BY <1>13 DEF LockProcess
  <2>2. OwesNothing
    BY <1>t, <2>1, AskedOf DEF Locked, AtProcess
  <2>3. OwesNothing'
    BY <1>13, <2>2 DEF LockProcess, OwesNothing, NoProcess, Noise
  <2>4. PICK phase \in {"sending", "starting"} : Moves(t, phase)
    BY <1>13, <1>t, LockProcessMoves
  <2> QED
    BY <1>3, <2>1, <2>3, <2>4
<1>14. ASSUME NEW t \in Tasks, StartFails(t) PROVE Asked'
  BY <1>4, <1>14 DEF StartFails, AtProcess
<1>15. ASSUME NEW t \in Tasks, StartSucceeds(t) PROVE Asked'
  BY <1>2, <1>15, <1>t, StartSucceedsMoves DEF StartSucceeds
<1>16. ASSUME NEW t \in Tasks, Send(t) PROVE Asked'
  <2>1. task[t].stage = "sending" /\ OwesNothing
    BY <1>16, <1>5 DEF Send
  <2>2. CASE GivesUp(t)
    BY <1>4, <2>1, <2>2 DEF AtProcess
  <2>3. CASE /\ process' = [process EXCEPT !.requests = Append(@, task[t].symbol)]
             /\ Enters(t, "receiving")
    <3>1. Moves(t, "receiving")
      BY <1>t, <2>3, EntersMoves DEF Stages
    <3>2. process'.requests = <<task[t].symbol>> /\ process'.lines = process.lines
      BY <1>t, <2>1, <2>3 DEF OwesNothing, DataType
    <3>3. task'[t].stage = "receiving" /\ task'[t].symbol = task[t].symbol
      BY <3>1 DEF Moves
    <3>4. Owes(task[t].symbol)'
      BY <2>1, <3>2, <3>3 DEF Owes, OwesNothing, Noise
    <3> QED
      BY <3>3, <3>4, AskedFrom
  <2> QED
    BY <1>16, <2>2, <2>3 DEF Send
<1>17. ASSUME NEW t \in Tasks, NoAnswer(t) PROVE Asked'
  BY <1>4, <1>17 DEF NoAnswer, AtProcess
<1>18. ASSUME NEW t \in Tasks, Receive(t) PROVE Asked'
  <2>1. task[t].stage = "receiving" /\ process.lines # <<>> /\ process.lines \in Seq(Lines)
    BY <1>18, <1>t DEF Receive, DataType
  <2>2. guard = t /\ Owes(task[t].symbol)
    BY <2>1, AskedOf
  <2>3. CASE GivesUp(t)
    BY <1>4, <2>1, <2>3 DEF AtProcess
  <2>4. CASE /\ Head(process.lines).kind # "noise"
             /\ process' = [process EXCEPT !.lines = Tail(@)]
    <3>1. process.requests = <<>> /\ AnswerIn(process.lines, task[t].symbol)
      BY <2>1, <2>2, <2>4 DEF Owes, Noise
    <3>2. Noise(Tail(process.lines))
      BY <2>1, <2>4, <3>1, AnswerAtHead
    <3>3. OwesNothing'
      BY <1>t, <2>4, <3>1, <3>2 DEF OwesNothing, DataType, Noise
    <3>4. PICK phase \in {"failed", "found"} : Moves(t, phase)
      BY <1>18, <1>t, ReceiveMoves
    <3> QED
      BY <1>3, <2>2, <3>3, <3>4
  <2> QED
    BY <1>18, <2>3, <2>4 DEF Receive
<1>19. CASE ProcessStep
  <2>0. guard' = guard /\ task' = task
    BY <1>19 DEF ProcessStep
  <2>1. CASE process'.requests = process.requests /\ process'.lines = process.lines
    <3>1. CASE \A u \in Tasks : task[u].stage # "receiving"
      BY <2>0, <2>1, <3>1, AskedOf, AskedFrom DEF OwesNothing
    <3>2. ASSUME NEW u \in Tasks, task[u].stage = "receiving" PROVE Asked'
      <4>1. Owes(task[u].symbol)'
        BY <2>0, <2>1, <3>2, AskedOf DEF Owes
      <4> QED
        BY <2>0, <3>2, <4>1, AskedFrom
    <3> QED
      BY <3>1, <3>2
  <2>2. CASE ProcessReady \/ ProcessDies
    <3>1. process'.requests = process.requests /\ process'.lines = process.lines
      BY <2>2, <1>t DEF ProcessReady, ProcessDies, DataType
    <3> QED
      BY <2>1, <3>1
  <2>3. CASE ProcessAnswers
    <3>1. process.requests # <<>> /\ process.lines \in Seq(Lines)
      BY <2>3, <1>t DEF ProcessAnswers, DataType
    <3>2. PICK u \in Tasks : task[u].stage = "receiving"
      BY <3>1, AskedOf DEF OwesNothing
    <3>3. process.requests = <<task[u].symbol>> /\ Noise(process.lines)
      BY <3>1, <3>2, AskedOf DEF Owes
    <3>4. PICK kind \in {"ok", "error"} :
            process' = [process EXCEPT !.requests = Tail(@),
                          !.lines = Append(@, [kind |-> kind, about |-> Head(process.requests)])]
      BY <2>3 DEF ProcessAnswers
    <3> DEFINE line == [kind |-> kind, about |-> task[u].symbol]
    <3>5. process'.requests = <<>> /\ process'.lines = Append(process.lines, line)
      BY <1>t, <3>3, <3>4 DEF DataType
    <3>6. line.kind # "noise" /\ line.about = task[u].symbol
      OBVIOUS
    <3> HIDE DEF line
    <3>7. AnswerIn(process'.lines, task[u].symbol)
      BY <3>1, <3>3, <3>5, <3>6, AnswerAppended
    <3>8. Owes(task[u].symbol)'
      BY <2>0, <3>5, <3>7 DEF Owes, AnswerIn
    <3> QED
      BY <2>0, <3>2, <3>8, AskedFrom
  <2>4. CASE ProcessPrints
    <3>1. process'.requests = process.requests
          /\ process'.lines = Append(process.lines, [kind |-> "noise"])
      BY <2>4, <1>t DEF ProcessPrints, DataType
    <3>2. process.lines \in Seq(Lines)
      BY <1>t DEF DataType
    <3>3. CASE \A u \in Tasks : task[u].stage # "receiving"
      <4>1. OwesNothing
        BY <3>3, AskedOf
      <4>2. Noise(process'.lines)
        BY <3>1, <3>2, <4>1, NoiseAppended DEF OwesNothing
      <4>3. OwesNothing'
        BY <3>1, <4>1, <4>2 DEF OwesNothing, Noise
      <4> QED
        BY <2>0, <3>3, <4>3, AskedFrom
    <3>4. ASSUME NEW u \in Tasks, task[u].stage = "receiving" PROVE Asked'
      <4>1. Owes(task[u].symbol)
        BY <3>4, AskedOf
      <4>2. CASE process.requests = <<task[u].symbol>> /\ Noise(process.lines)
        <5>1. Noise(process'.lines)
          BY <3>1, <3>2, <4>2, NoiseAppended
        <5> QED
          BY <2>0, <3>1, <3>4, <4>2, <5>1, AskedFrom DEF Owes, Noise
      <4>3. CASE process.requests = <<>> /\ AnswerIn(process.lines, task[u].symbol)
        <5>1. AnswerIn(process'.lines, task[u].symbol)
          BY <3>1, <3>2, <4>3, NoiseAfterAnswer
        <5>2. Owes(task[u].symbol)'
          BY <2>0, <3>1, <4>3, <5>1 DEF Owes, AnswerIn
        <5> QED
          BY <2>0, <3>4, <5>2, AskedFrom
      <4> QED
        BY <4>1, <4>2, <4>3 DEF Owes
    <3> QED
      BY <3>3, <3>4
  <2> QED
    BY <1>19, <2>2, <2>3, <2>4 DEF ProcessStep
<1> QED
  BY <1>6, <1>7, <1>8, <1>9, <1>10, <1>11, <1>12, <1>13, <1>14, <1>15, <1>16, <1>17, <1>18,
     <1>19
  DEF Next, TaskStep

-----------------------------------------------------------------------------
(* Records and source locations.                                           *)

LEMMA MatchStep == MatchInv /\ TypeOK' /\ [Next]_vars => AnswersMatch' /\ Found'
<1> SUFFICES ASSUME MatchInv, TypeOK', [Next]_vars PROVE AnswersMatch' /\ Found'
  OBVIOUS
<1> USE DEF MatchInv
<1>t. DataType /\ TaskType /\ Locked /\ Named /\ Owned
  BY TypeParts DEF Owned
<1>1. CASE UNCHANGED vars
  BY <1>1 DEF vars, AnswersMatch, Found
<1>2. ASSUME NEW t \in Tasks, NEW s \in Symbols, Prefetch(t, s) \/ Ask(t, s)
      PROVE AnswersMatch' /\ Found'
  <2>1. sources' = sources /\ cache' = cache
    BY <1>2 DEF Prefetch, Ask
  <2> QED
    BY <1>2, <1>t, <2>1, CallMoves DEF AnswersMatch, Found
<1>3. ASSUME NEW t \in Tasks, NEW phase \in Stages, phase # "found", Enters(t, phase),
             sources' = sources, cache' = cache
      PROVE AnswersMatch' /\ Found'
  BY <1>3, <1>t, EntersMoves DEF Moves, AnswersMatch, Found
<1>4. ASSUME NEW t \in Tasks, EnterInflight(t) PROVE AnswersMatch' /\ Found'
  BY <1>3, <1>4 DEF EnterInflight, Stages
<1>5. ASSUME NEW t \in Tasks, Lookup(t) PROVE AnswersMatch' /\ Found'
  <2>1. sources' = sources /\ cache' = cache
    BY <1>5 DEF Lookup
  <2>2. CASE task[t].symbol \notin cache
    <3>1. Enters(t, IF usable THEN "locking" ELSE After(t))
      BY <1>5, <2>2 DEF Lookup
    <3>2. (IF usable THEN "locking" ELSE After(t)) \in {"finishing", "idle", "locking"}
      BY AfterStages
    <3> QED
      BY <1>3, <2>1, <3>1, <3>2 DEF Stages
  <2>3. CASE task[t].symbol \in cache
    <3>1. task' = [task EXCEPT ![t] = [task[t] EXCEPT !.reply = task[t].symbol, !.stage = After(t)]]
      BY <1>5, <2>3 DEF Lookup
    <3>2. /\ task'[t].reply = task'[t].symbol /\ task'[t].stage # "found"
          /\ \A u \in Tasks : u # t => task'[u] = task[u]
      BY <1>t, <3>1, AfterStages DEF TaskType, TaskRecord
    <3> QED
      BY <2>1, <3>2 DEF AnswersMatch, Found
  <2> QED
    BY <2>2, <2>3
<1>6. ASSUME NEW t \in Tasks, LockProcess(t) PROVE AnswersMatch' /\ Found'
  BY <1>3, <1>6 DEF LockProcess, Stages
<1>7. ASSUME NEW t \in Tasks, StartFails(t) \/ NoAnswer(t) PROVE AnswersMatch' /\ Found'
  BY <1>3, <1>7 DEF StartFails, NoAnswer, GivesUp, Stages
<1>8. ASSUME NEW t \in Tasks, StartSucceeds(t) PROVE AnswersMatch' /\ Found'
  BY <1>3, <1>8 DEF StartSucceeds, Stages
<1>9. ASSUME NEW t \in Tasks, Send(t) PROVE AnswersMatch' /\ Found'
  BY <1>3, <1>9 DEF Send, GivesUp, Stages
<1>10. ASSUME NEW t \in Tasks, Receive(t) PROVE AnswersMatch' /\ Found'
  <2>1. task[t].stage = "receiving" /\ process.lines # <<>> /\ process.lines \in Seq(Lines)
        /\ cache' = cache
    BY <1>10, <1>t DEF Receive, DataType
  <2>2. CASE Enters(t, "failed") /\ UNCHANGED sources
    BY <1>3, <2>1, <2>2 DEF Stages
  <2>3. CASE /\ Head(process.lines).kind = "ok"
             /\ sources' \in
                  {sources, [sources EXCEPT ![task[t].symbol] = Head(process.lines).about]}
             /\ task' = [task EXCEPT ![t] = [task[t] EXCEPT !.reply = Head(process.lines).about,
                                                           !.stage = "found"]]
    <3>1. process.requests = <<>> /\ AnswerIn(process.lines, task[t].symbol)
      BY <1>t, <2>1, <2>3, AskedOf DEF Owes, Noise
    <3>2. Head(process.lines).about = task[t].symbol
      BY <2>1, <2>3, <3>1, AnswerAtHead
    <3>3. /\ task'[t].reply = task[t].symbol /\ task'[t].symbol = task[t].symbol
          /\ \A u \in Tasks : u # t => task'[u] = task[u]
      BY <1>t, <2>3, <3>2 DEF TaskType, TaskRecord
    <3>4. \A s \in Symbols : sources'[s] \in {s, sources[s]}
      BY <1>t, <2>3, <3>2 DEF DataType
    <3>5. AnswersMatch'
      BY <1>t, <2>1, <3>3, <3>4 DEF AnswersMatch, DataType
    <3>6. task[t].symbol \in Symbols
      BY <1>t, <2>1 DEF Named
    <3>7. Found'
      BY <1>t, <3>3, <3>6 DEF Found, Named
    <3> QED
      BY <3>5, <3>7
  <2> QED
    BY <1>10, <2>2, <2>3 DEF Receive, GivesUp
<1>11. ASSUME NEW t \in Tasks, Report(t) PROVE AnswersMatch' /\ Found'
  BY <1>3, <1>11, AfterStages DEF Report, Stages
<1>12. ASSUME NEW t \in Tasks, Keep(t) PROVE AnswersMatch' /\ Found'
  <2>1. /\ task[t].stage = "found" /\ cache' = cache \cup {task[t].reply} /\ sources' = sources
        /\ Enters(t, After(t))
    BY <1>12 DEF Keep
  <2>2. Moves(t, After(t)) /\ task'[t].reply = task[t].reply
    BY <1>t, <2>1, AfterStages, EntersMoves DEF Stages
  <2> QED
    BY <2>1, <2>2, AfterStages DEF Moves, AnswersMatch, Found
<1>13. ASSUME NEW t \in Tasks, FinishPrefetch(t) PROVE AnswersMatch' /\ Found'
  BY <1>3, <1>13 DEF FinishPrefetch, Stages
<1>14. CASE ProcessStep
  BY <1>14 DEF ProcessStep, AnswersMatch, Found
<1> QED
  BY <1>1, <1>2, <1>4, <1>5, <1>6, <1>7, <1>8, <1>9, <1>10, <1>11, <1>12, <1>13, <1>14
  DEF Next, TaskStep

LEMMA InvStep == MatchInv /\ [Next]_vars => MatchInv'
<1> SUFFICES ASSUME MatchInv, [Next]_vars PROVE MatchInv'
  OBVIOUS
<1>1. DataType /\ TaskType /\ Named
  BY TypeParts DEF MatchInv
<1>2. DataType' /\ TaskType' /\ Named'
  BY <1>1, DataStep, TaskStepTypes
<1>3. Locked'
  BY LockStep DEF MatchInv
<1>4. TypeOK'
  BY <1>2, <1>3, TypeParts DEF TypeOK, DataType, TaskType, TaskRecord, Locked, AtProcess
<1>5. Asked'
  BY <1>4, AskedStep DEF MatchInv, Owned
<1>6. AnswersMatch' /\ Found'
  BY <1>4, MatchStep
<1> QED
  BY <1>2, <1>4, <1>5, <1>6 DEF MatchInv

\* The worker keeps its types, and its mutex is held exactly while a lookup is at the process
\* (lookup_uncached_blocking).
THEOREM TypeCorrect == Spec => []TypeOK
<1>1. MatchInv => TypeOK
  BY DEF MatchInv
<1> QED
  BY <1>1, InitMatches, InvStep, PTL DEF Spec

\* Every record returned for a symbol and every source location kept for one is that symbol's,
\* whatever the process does and however many lookups time out (read_line, GivesUp).
THEOREM Matched == Spec => []AnswersMatch
<1>1. MatchInv => AnswersMatch
  BY DEF MatchInv
<1> QED
  BY <1>1, InitMatches, InvStep, PTL DEF Spec

-----------------------------------------------------------------------------
(* Prefetches.  The mark of a symbol belongs to one task, from the step    *)
(* that sets it to the step that removes it.                               *)

Under(t, s) ==
  task[t].prefetch /\ task[t].symbol = s /\ task[t].stage \notin {"idle", "entering"}

Prefetching == \A t \in Tasks : task[t].stage \in {"entering", "finishing"} => task[t].prefetch
Marked == \A s \in Symbols : s \in inflight <=> \E t \in Tasks : Under(t, s)
Alone == \A s \in Symbols : \A t, u \in Tasks : Under(t, s) /\ Under(u, s) => t = u

MarkInv == MatchInv /\ Prefetching /\ Marked /\ Alone

LEMMA InitMarks == Init => MarkInv
<1> SUFFICES ASSUME Init PROVE MarkInv
  OBVIOUS
<1>1. \A t \in Tasks : task[t].stage = "idle"
  BY DEF Init, Fresh
<1>2. Prefetching /\ Marked /\ Alone
  BY <1>1 DEF Init, Prefetching, Marked, Alone, Under
<1> QED
  BY <1>2, InitMatches DEF MarkInv

\* A step between the two.
LEMMA StaysUnder ==
  ASSUME Prefetching, Marked, Alone, UNCHANGED inflight,
         NEW t \in Tasks, task[t].stage \notin {"idle", "entering"},
         \E phase \in Stages : Moves(t, phase) /\ phase # "entering" /\ Ends(t, phase)
  PROVE  (Prefetching /\ Marked /\ Alone)'
<1>1. PICK phase \in Stages : Moves(t, phase) /\ phase # "entering" /\ Ends(t, phase)
  OBVIOUS
<1>2. \A u \in Tasks : \A s \in Symbols : Under(u, s)' <=> Under(u, s)
  BY <1>1 DEF Under, Moves, Ends
<1>3. Prefetching'
  BY <1>1 DEF Prefetching, Moves, Ends
<1>4. Marked' /\ Alone'
  BY <1>2 DEF Marked, Alone
<1> QED
  BY <1>3, <1>4

LEMMA EnterMarks ==
  ASSUME TaskType, Named, Prefetching, Marked, Alone, NEW t \in Tasks, EnterInflight(t)
  PROVE  (Prefetching /\ Marked /\ Alone)'
<1> DEFINE s == task[t].symbol
<1>1. task[t].stage = "entering" /\ s \in Symbols /\ task[t].prefetch
  BY DEF EnterInflight, Named, Prefetching
<1>2. CASE s \in inflight
  <2>1. Moves(t, "idle") /\ UNCHANGED inflight
    BY <1>2, EntersMoves DEF EnterInflight, Stages
  <2>2. \A u \in Tasks : \A r \in Symbols : Under(u, r)' <=> Under(u, r)
    BY <1>1, <2>1 DEF Under, Moves
  <2> QED
    BY <2>1, <2>2 DEF Prefetching, Marked, Alone, Moves
<1>3. CASE s \notin inflight
  <2>1. Moves(t, "called") /\ inflight' = inflight \cup {s}
    BY <1>3, EntersMoves DEF EnterInflight, Stages
  <2>2. \A u \in Tasks : ~Under(u, s)
    BY <1>1, <1>3 DEF Marked
  <2>3. \A u \in Tasks : \A r \in Symbols :
          Under(u, r)' <=> Under(u, r) \/ (u = t /\ r = s)
    BY <1>1, <2>1 DEF Under, Moves
  <2>4. Prefetching'
    BY <2>1 DEF Prefetching, Moves
  <2>5. Marked' /\ Alone'
    BY <1>1, <2>1, <2>2, <2>3 DEF Marked, Alone
  <2> QED
    BY <2>4, <2>5
<1> QED
  BY <1>2, <1>3

LEMMA FinishMarks ==
  ASSUME TaskType, Named, Prefetching, Marked, Alone, NEW t \in Tasks, FinishPrefetch(t)
  PROVE  (Prefetching /\ Marked /\ Alone)'
<1> DEFINE s == task[t].symbol
<1>1. task[t].stage = "finishing" /\ s \in Symbols /\ task[t].prefetch
  BY DEF FinishPrefetch, Named, Prefetching
<1>2. Moves(t, "idle") /\ inflight' = inflight \ {s}
  BY EntersMoves DEF FinishPrefetch, Stages
<1>3. \A u \in Tasks : \A r \in Symbols : Under(u, r)' <=> Under(u, r) /\ u # t
  BY <1>2 DEF Under, Moves
<1>4. Under(t, s) /\ \A r \in Symbols : Under(t, r) => r = s
  BY <1>1 DEF Under
<1>5. Prefetching'
  BY <1>2 DEF Prefetching, Moves
<1>6. Marked' /\ Alone'
  BY <1>1, <1>2, <1>3, <1>4 DEF Marked, Alone
<1> QED
  BY <1>5, <1>6

LEMMA MarkStep == MarkInv /\ [Next]_vars => MarkInv'
<1> SUFFICES ASSUME MarkInv, [Next]_vars PROVE MarkInv'
  OBVIOUS
<1>1. TaskType /\ DataType /\ Named /\ Prefetching /\ Marked /\ Alone
  BY TypeParts DEF MarkInv, MatchInv
<1>2. MatchInv'
  BY InvStep DEF MarkInv
<1> SUFFICES (Prefetching /\ Marked /\ Alone)'
  BY <1>2 DEF MarkInv
<1>3. ASSUME UNCHANGED <<task, inflight>> PROVE (Prefetching /\ Marked /\ Alone)'
  BY <1>1, <1>3 DEF Prefetching, Marked, Alone, Under
<1>4. CASE ProcessStep \/ UNCHANGED vars
  BY <1>3, <1>4 DEF ProcessStep, vars
<1>5. ASSUME NEW t \in Tasks, NEW s \in Symbols, Prefetch(t, s) \/ Ask(t, s)
      PROVE  (Prefetching /\ Marked /\ Alone)'
  <2>1. /\ task[t].stage = "idle" /\ task'[t].stage \in {"entering", "called"}
        /\ task'[t].prefetch <=> task'[t].stage = "entering"
        /\ \A u \in Tasks : u # t => task'[u] = task[u]
    BY <1>1, <1>5, CallMoves
  <2>2. UNCHANGED inflight
    BY <1>5 DEF Prefetch, Ask
  <2>3. \A u \in Tasks : \A r \in Symbols : Under(u, r)' <=> Under(u, r)
    BY <2>1 DEF Under
  <2> QED
    BY <1>1, <2>1, <2>2, <2>3 DEF Prefetching, Marked, Alone
<1>6. ASSUME NEW t \in Tasks, EnterInflight(t) PROVE (Prefetching /\ Marked /\ Alone)'
  BY <1>1, <1>6, EnterMarks
<1>7. ASSUME NEW t \in Tasks, FinishPrefetch(t) PROVE (Prefetching /\ Marked /\ Alone)'
  BY <1>1, <1>7, FinishMarks
<1>8. ASSUME NEW t \in Tasks, Lookup(t) \/ Report(t) \/ Keep(t)
      PROVE  (Prefetching /\ Marked /\ Alone)'
  <2>1. \E phase \in {"finishing", "idle", "locking"} : Moves(t, phase) /\ Ends(t, phase)
    BY <1>1, <1>8, LookupMoves, ReportMoves, KeepMoves
  <2>2. task[t].stage \notin {"idle", "entering"} /\ UNCHANGED inflight
    BY <1>8 DEF Lookup, Report, Keep
  <2> QED
    BY <1>1, <2>1, <2>2, StaysUnder DEF Stages
<1>9. ASSUME NEW t \in Tasks,
             LockProcess(t) \/ StartFails(t) \/ StartSucceeds(t) \/ Send(t) \/ NoAnswer(t) \/ Receive(t)
      PROVE  (Prefetching /\ Marked /\ Alone)'
  <2>1. \E phase \in {"starting", "sending", "receiving", "found", "failed"} : Moves(t, phase)
    BY <1>1, <1>9, LockProcessMoves, StartFailsMoves, StartSucceedsMoves, SendMoves, NoAnswerMoves,
       ReceiveMoves
  <2>2. task[t].stage \notin {"idle", "entering"} /\ UNCHANGED inflight
    BY <1>9 DEF LockProcess, StartFails, StartSucceeds, Send, NoAnswer, Receive
  <2> QED
    BY <1>1, <2>1, <2>2, StaysUnder DEF Stages, Ends
<1> QED
  BY <1>4, <1>5, <1>6, <1>7, <1>8, <1>9 DEF Next, TaskStep

\* A symbol is marked exactly while one prefetch of it runs, whatever lookups, timeouts and
\* failures come in between (prefetch, finish_prefetch).
THEOREM OnePrefetch == Spec => []InflightExact
<1>1. MarkInv => InflightExact
  <2> SUFFICES ASSUME MarkInv, NEW s \in Symbols
               PROVE  Cardinality({t \in Tasks : Under(t, s)}) = IF s \in inflight THEN 1 ELSE 0
    BY DEF InflightExact, Under
  <2>1. CASE s \in inflight
    <3>1. PICK t \in Tasks : Under(t, s)
      BY <2>1 DEF MarkInv, Marked
    <3>2. {u \in Tasks : Under(u, s)} = {t}
      BY <3>1 DEF MarkInv, Alone
    <3> QED
      BY <2>1, <3>2, FS_Singleton
  <2>2. CASE s \notin inflight
    <3>1. {t \in Tasks : Under(t, s)} = {}
      BY <2>2 DEF MarkInv, Marked
    <3> QED
      BY <2>2, <3>1, FS_EmptySet
  <2> QED
    BY <2>1, <2>2
<1> QED
  BY <1>1, InitMarks, MarkStep, PTL DEF Spec

=============================================================================
