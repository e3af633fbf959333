----------------------------- MODULE MCMachines -----------------------------
(***************************************************************************)
(* Instances of the small state machines for TLC: those of the extension   *)
(* host, the runtime documentation worker and the cache's counts.  They    *)
(* share no state: `focus` says which one moves, so that one run explores  *)
(* each of them by itself instead of the product of all.                   *)
(***************************************************************************)
EXTENDS SourceRootDiscovery, IndexStatusWatch, RunTasks, IndexCacheMaintenance, RuntimeDocs,
        CacheMetadata, TLC

CONSTANTS s1, s2, i1, i2, workspace, checkout, packages, e1, e2, e3, d1, d2, d3, k1, k2,
          project, nested, library, fa, fb, fl, q1

TwoScopes == {s1, s2}
TwoInterpreters == {i1, i2}
ThreeRoots == {workspace, checkout, packages}
WithSage == {checkout, packages}
SitePackages == {packages}
OneFolder == {workspace}
NothingFound == [i \in TwoInterpreters |-> {}]
OneEach == i1 :> {checkout} @@ i2 :> {packages}
ThreeRuns == {e1, e2, e3}
ThreeDatabases == {d1, d2, d3}
TwoTasks == {k1, k2}

\* A workspace with an editable root inside of it, and Sage's library.
ThreeFiles == {fa, fb, fl}
IndexedRoots == {project, nested, library}
Below == project :> {fa, fb} @@ nested :> {fb} @@ library :> {fl}
EditableRoots == {project, nested}
LibraryFiles == {fl}
OnePeer == {q1}
Text(docs, blank) == [docs |-> docs, blank |-> blank]
PlainTexts == fa :> {Text(0, 0), Text(1, 0)} @@ fb :> {Missing, Text(1, 0)} @@ fl :> {Text(1, 0)}
\* fa may also hold an empty docstring.
BlankTexts == [PlainTexts EXCEPT ![fa] = {Text(0, 0), Text(0, 1)}]
InPeers == [f \in ThreeFiles |-> IF f = fl THEN {Text(0, 0), Text(1, 0)} ELSE {Text(1, 0), Missing}]

VARIABLE focus
machines == <<focus, discovery, statusVars, taskVars, maintenanceVars, vars, metadata>>

MachinesInit ==
  /\ focus \in {"discovery", "rebuild", "bar", "tasks", "cache", "docs", "counts"}
  /\ \/ focus = "discovery"
     \/ /\ focus # "discovery" /\ editor = NoScope /\ interpreter = [s \in Scopes |-> i1]
        /\ rootCache = [i \in Interpreters |-> {}]
  /\ \/ focus = "rebuild"
     \/ focus # "rebuild" /\ index = [generation |-> 1, operation |-> "hydrate"]
  /\ \/ focus = "cache"
     \/ focus # "cache" /\ databases = <<>> /\ orphans = <<>>
  /\ \/ focus = "docs"
     \/ focus # "docs" /\ usable = FALSE
  /\ \/ focus = "counts"
     \/ /\ focus # "counts"
        /\ disk = [f \in SourceFiles |-> CHOOSE c \in Contents[f] : TRUE]
        /\ peerDbs = CHOOSE p \in InitialPeers : TRUE
  /\ DiscoveryInit /\ StatusInit /\ TaskInit /\ MaintenanceInit /\ Init /\ MetadataInit

MachinesNext ==
  /\ UNCHANGED focus
  /\ \/ /\ focus = "discovery" /\ DiscoveryNext
        /\ UNCHANGED <<statusVars, taskVars, maintenanceVars, vars, metadata>>
     \/ /\ \/ focus = "rebuild" /\ (ServerStep \/ CommandStep)
           \/ focus = "bar" /\ (ServerStep \/ BarStep)
        /\ UNCHANGED <<discovery, taskVars, maintenanceVars, vars, metadata>>
     \/ /\ focus = "tasks" /\ TaskNext
        /\ UNCHANGED <<discovery, statusVars, maintenanceVars, vars, metadata>>
     \/ /\ focus = "cache" /\ MaintenanceNext
        /\ UNCHANGED <<discovery, statusVars, taskVars, vars, metadata>>
     \/ /\ focus = "docs" /\ Next
        /\ UNCHANGED <<discovery, statusVars, taskVars, maintenanceVars, metadata>>
     \/ /\ focus = "counts" /\ MetadataNext
        /\ UNCHANGED <<discovery, statusVars, taskVars, maintenanceVars, vars>>

\* The fairness of the modules, each for the machine that moves.
MachinesFairness ==
  /\ WF_discovery(focus = "discovery" /\ ProbeReturns)
  /\ WF_discovery(focus = "discovery" /\ (SaveReturns \/ SaveFails))
  /\ WF_discovery(focus = "discovery" /\ (CreateClient \/ ClientStartFails))
  /\ WF_statusVars(focus \in {"rebuild", "bar"} /\ ServerStep)
  /\ WF_statusVars(focus = "rebuild" /\ ReadIndex)
  /\ WF_statusVars(focus = "rebuild" /\ Poll)
  /\ WF_statusVars(focus = "bar" /\ TickStarts)
  /\ WF_statusVars(focus = "bar" /\ TickEnds)
  /\ \A t \in Tasks : WF_vars(focus = "docs" /\ TaskStep(t))

MachinesSpec == MachinesInit /\ [][MachinesNext]_machines /\ MachinesFairness

\* The counts alone, whose counterexample is short.
CountsSpec == focus = "counts" /\ MachinesInit /\ [][MachinesNext]_machines
=============================================================================
