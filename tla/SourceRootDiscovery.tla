------------------------ MODULE SourceRootDiscovery ------------------------
(***************************************************************************)
(* How the extension finds the Sage sources of the active workspace        *)
(* (packages/extension-core/src/runtimeSourceRootDiscoveryController.ts,   *)
(* wired in extension.ts, merging roots as workspaceDiscovery.ts does).    *)
(*                                                                         *)
(* Events of the editor schedule a discovery or invalidate all of them.    *)
(* One pump runs the pending ones, one at a time: it probes the            *)
(* interpreter in a subprocess, saves what it found, and restarts the      *)
(* language client when there is something new.  The extension host runs   *)
(* one callback at a time, so an action is what happens between two        *)
(* awaits.                                                                 *)
(***************************************************************************)
EXTENDS Naturals, FiniteSets, Sequences, SequencesExt

CONSTANTS
  Scopes,       \* workspace folders that own an active Sage editor
  NoScope,      \* an active editor that is not Sage's (settings.json, a terminal)
  Interpreters, \* values of sage.interpreter
  FirstScope,   \* the folder whose settings create the client
  Roots,        \* directories
  SageRoots,    \* those that hold a sage package
  PackageRoots, \* those that are site-packages
  Folders,      \* what the workspace itself contributes
  Nearby,       \* Sage checkouts next to it
  Heuristic,    \* interpreter -> roots found around its path
  Probe,        \* interpreter -> roots it reports when asked
  FolderSettings, \* whether folders have interpreters of their own
  NoDiscovery,  \* no probe is active
  NoClient,     \* no language client
  MaxEvents     \* bound: events of the editor

ASSUME DiscoveryAssumption ==
  /\ NoScope \notin Scopes /\ FirstScope \in Scopes
  /\ SageRoots \subseteq Roots /\ PackageRoots \subseteq Roots
  /\ Folders \subseteq Roots /\ Nearby \subseteq SageRoots
  /\ Heuristic \in [Interpreters -> SUBSET SageRoots]
  /\ Probe \in [Interpreters -> SUBSET SageRoots]
  /\ MaxEvents \in Nat

VARIABLES
  editor,       \* the scope of the active editor
  interpreter,  \* the interpreter each folder is configured with
  roots,        \* the controller's roots
  pending,      \* pendingDiscoveries, in the order of the Map
  completed,    \* completedKeys
  active,       \* the discovery the pump is in, or NoDiscovery
  generation,
  deactivating,
  rootCache,    \* globalState "sage.runtimeSourceRoots.v1": interpreter -> roots
  client,       \* source roots the running client was created with, or NoClient
  restart,      \* a start of the client has been requested and not served
  events,       \* bound
  announced,    \* history: roots a roots-added event told since the last invalidation
  used          \* history: interpreters that were active since then

discovery == <<editor, interpreter, roots, pending, completed, active, generation,
  deactivating, rootCache, client, restart, events, announced, used>>

-----------------------------------------------------------------------------
(* What a discovery finds.  Configured roots, here the ones in memory,     *)
(* replace the workspace's own; an interpreter's site-packages count only  *)
(* when no other root holds Sage.                                          *)
MergeDiscoveredSourceRoots(effective, interpreterRoots) ==
  LET base == (IF effective # {} THEN effective ELSE Folders) \cup Nearby
  IN base \cup (IF base \cap SageRoots \subseteq PackageRoots THEN interpreterRoots
                ELSE interpreterRoots \ PackageRoots)

StartupRoots(effective, i) == MergeDiscoveredSourceRoots(effective, Heuristic[i])
RuntimeRoots(effective, i, probed) ==
  MergeDiscoveredSourceRoots(effective, Heuristic[i] \cup probed)

Probing(key, known, current) ==
  [key |-> key, generation |-> current, effective |-> known, stage |-> "probing", found |-> {}]

\* What an earlier session saved for an interpreter, if it did.
Saved(i) == {{}, RuntimeRoots({}, i, Probe[i]) \cap SageRoots}

\* Activation schedules a discovery and starts the client, both in a Sage editor only.
DiscoveryInit ==
  /\ editor \in Scopes \cup {NoScope}
  /\ interpreter \in [Scopes -> Interpreters]
  /\ FolderSettings \/ \A s, t \in Scopes : interpreter[s] = interpreter[t]
  /\ rootCache \in {c \in [Interpreters -> SUBSET SageRoots] : \A i \in Interpreters : c[i] \in Saved(i)}
  /\ IF editor = NoScope
     THEN roots = {} /\ used = {} /\ active = NoDiscovery
     ELSE LET i == interpreter[editor]
          IN roots = rootCache[i] /\ used = {i} /\ active = Probing(<<editor, i>>, rootCache[i], 0)
  /\ client = NoClient /\ restart = (editor # NoScope)
  /\ pending = <<>> /\ completed = {} /\ generation = 0 /\ deactivating = FALSE
  /\ events = 0 /\ announced = {}

-----------------------------------------------------------------------------
(* The pump starts the oldest pending discovery, if it may.  It takes the  *)
(* roots in memory before it awaits the probe.                             *)
Pump(queue, known, current) ==
  IF deactivating \/ queue = <<>>
  THEN active' = NoDiscovery /\ pending' = queue
  ELSE /\ active' = Probing(Head(queue), known, current)
       /\ pending' = Tail(queue)

AlreadyCovered(key) ==
  \/ active # NoDiscovery /\ key = active.key
  \/ \E k \in DOMAIN pending : pending[k] = key
  \/ key \in completed

\* prepare(): the snapshot of the active editor, if it is in a Sage context.
Prepared == IF editor' = NoScope THEN {} ELSE {<<editor', interpreter'[editor']>>}

(* schedule(): roots of an earlier session join at once; the probe is      *)
(* queued unless it is under way, queued or done.                          *)
Schedule ==
  IF deactivating \/ Prepared = {}
  THEN UNCHANGED <<roots, pending, completed, active, used>>
  ELSE \E key \in Prepared :
    LET known == roots \cup (rootCache[key[2]] \cap SageRoots)
    IN /\ roots' = known
       /\ used' = used \cup {key[2]}
       /\ UNCHANGED completed
       /\ IF AlreadyCovered(key) THEN UNCHANGED <<pending, active>>
          ELSE IF active # NoDiscovery
          THEN pending' = Append(pending, key) /\ UNCHANGED active
          ELSE Pump(<<key>>, known, generation)

\* invalidateAndSchedule(): nothing known counts any more.
InvalidateAndSchedule ==
  /\ generation' = generation + 1 /\ completed' = {} /\ announced' = {}
  /\ roots' = {}
  /\ used' = (IF deactivating THEN {} ELSE {key[2] : key \in Prepared})
  /\ IF deactivating \/ Prepared = {} THEN pending' = <<>> /\ UNCHANGED active
     ELSE \E key \in Prepared :
       IF active # NoDiscovery THEN pending' = <<key>> /\ UNCHANGED active
       ELSE Pump(<<key>>, {}, generation + 1)

-----------------------------------------------------------------------------
(* The events of the editor.                                               *)
Event == events < MaxEvents /\ events' = events + 1

\* The client is also started here when there is none.
EditorChanges ==
  /\ Event
  /\ editor' \in (Scopes \cup {NoScope}) \ {editor}
  /\ UNCHANGED interpreter
  /\ Schedule
  /\ restart' = (restart \/ (~deactivating /\ client = NoClient /\ editor' # NoScope))
  /\ UNCHANGED <<generation, deactivating, rootCache, client, announced>>

Configured(i) ==
  IF FolderSettings THEN {[interpreter EXCEPT ![s] = i] : s \in Scopes}
  ELSE {[s \in Scopes |-> i]}

\* onDidChangeConfiguration of an input of the discovery; the same settings restart the
\* server, in a Sage editor only (startInBackground without force: shouldAutoStart asks what
\* prepare() asks).  A folder's roots may change and no key with them.
ConfigurationChanges ==
  /\ Event
  /\ \E i \in Interpreters : interpreter' \in Configured(i)
  /\ UNCHANGED editor
  /\ InvalidateAndSchedule
  /\ restart' = (restart \/ (~deactivating /\ editor' # NoScope))
  /\ UNCHANGED <<deactivating, rootCache, client>>

\* The command that restarts the server, and what needs one, do not ask for the editor.
RestartCommand ==
  /\ Event
  /\ restart' = (restart \/ ~deactivating)
  /\ UNCHANGED <<editor, interpreter, roots, pending, completed, active, generation,
       deactivating, rootCache, client, announced, used>>

\* The command that builds the database asks again from scratch.
PrepareDatabaseBuild ==
  /\ Event
  /\ UNCHANGED <<editor, interpreter>>
  /\ InvalidateAndSchedule
  /\ UNCHANGED <<deactivating, rootCache, client, restart>>

BeginDeactivation ==
  /\ ~deactivating /\ deactivating' = TRUE
  /\ generation' = generation + 1
  /\ pending' = <<>> /\ restart' = FALSE /\ client' = NoClient
  /\ announced' = {}
  /\ UNCHANGED <<editor, interpreter, roots, completed, active, rootCache, events, used>>

-----------------------------------------------------------------------------
(* The pump.                                                               *)
\* Mutant: a superseded probe goes on once it has been saved.
MutSuperseded == deactivating \/ (active.generation # generation /\ active.stage = "probing")
Superseded == deactivating \/ active.generation # generation

\* The discovery is over without a result that counts; the next one starts.
Abandon ==
  /\ Pump(pending, roots, generation)
  /\ UNCHANGED <<roots, completed, announced, restart>>

\* The subprocess answers, or is killed by its timeout and reports nothing.
ProbeReturns ==
  /\ active # NoDiscovery /\ active.stage = "probing"
  /\ UNCHANGED <<editor, interpreter, generation, deactivating, client, events, used>>
  /\ \E probed \in {{}, Probe[active.key[2]]} :
       IF Superseded
       THEN Abandon /\ UNCHANGED rootCache
       ELSE LET found == RuntimeRoots(active.effective, active.key[2], probed)
            IN /\ active' = [active EXCEPT !.stage = "saving", !.found = found]
               /\ rootCache' = IF found \cap SageRoots = {} THEN rootCache
                               ELSE [rootCache EXCEPT ![active.key[2]] = found \cap SageRoots]
               /\ UNCHANGED <<pending, roots, completed, restart, announced>>

\* Mutant: the client is restarted as anywhere else, when a Sage editor is active.
MutAnnounce(additions) ==
  /\ roots' = roots \cup additions
  /\ announced' = announced \cup additions
  /\ restart' = (restart \/ (additions # {} /\ editor # NoScope))

(* Only what neither startup nor anyone since has added is new; it         *)
(* restarts the client, whatever the editor (startInBackground, forced).   *)
Announce(additions) ==
  /\ roots' = roots \cup additions
  /\ announced' = announced \cup additions
  /\ restart' = (restart \/ additions # {})

SaveReturns ==
  /\ active # NoDiscovery /\ active.stage = "saving"
  /\ UNCHANGED <<editor, interpreter, generation, deactivating, rootCache, client, events, used>>
  /\ IF Superseded
     THEN Abandon
     ELSE LET startup == StartupRoots(active.effective, active.key[2])
          IN /\ Announce(active.found \ (startup \cup roots))
             /\ completed' = completed \cup {active.key}
             /\ Pump(pending, roots', generation)

\* The state of the editor cannot be written: a failed event, and no retry.
SaveFails ==
  /\ active # NoDiscovery /\ active.stage = "saving"
  /\ UNCHANGED <<editor, interpreter, generation, deactivating, rootCache, client, events, used>>
  /\ Abandon

-----------------------------------------------------------------------------
(* LanguageClientLifecycle, seen from here: a request is served by a       *)
(* client created after it, or by none when the start fails.               *)
ServeStart(created) ==
  /\ restart /\ restart' = FALSE
  /\ client' = created
  /\ UNCHANGED <<editor, interpreter, roots, pending, completed, active, generation,
       deactivating, rootCache, events, announced, used>>

CreateClient == ServeStart(StartupRoots(roots, interpreter[FirstScope]))
ClientStartFails == ServeStart(NoClient)

DiscoveryNext ==
  \/ EditorChanges \/ ConfigurationChanges \/ RestartCommand \/ PrepareDatabaseBuild
  \/ BeginDeactivation
  \/ ProbeReturns \/ SaveReturns \/ SaveFails
  \/ CreateClient \/ ClientStartFails

DiscoveryFairness ==
  /\ WF_discovery(ProbeReturns) /\ WF_discovery(SaveReturns \/ SaveFails)
  /\ WF_discovery(CreateClient \/ ClientStartFails)

DiscoverySpec == DiscoveryInit /\ [][DiscoveryNext]_discovery /\ DiscoveryFairness

-----------------------------------------------------------------------------
(* Properties.                                                             *)

(* The roots in memory, which the next client gets, are the workspace's or *)
(* were found for an interpreter that was asked about since the settings   *)
(* last changed: a probe under way, what it saved and what an earlier      *)
(* session saved never bring back the roots of a replaced interpreter.     *)
NoStaleRoots ==
  roots \subseteq Folders \cup Nearby \cup UNION {Heuristic[i] \cup Probe[i] : i \in used}

(* A root that a probe added, and announced, reaches a client whatever     *)
(* editor is active by then, unless it is invalidated or no client can be  *)
(* started.  Roots that join from an earlier session are not announced:    *)
(* they wait for the next client.                                          *)
AddedRootsReachClient ==
  \A r \in Roots :
    (r \in announced) ~> (r \notin announced \/ client = NoClient \/ r \in client)
=============================================================================
