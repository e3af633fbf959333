------------------------ MODULE LanguageClientLifecycle ------------------------
(***************************************************************************)
(* How the VS Code extension starts, restarts and shuts down the sage-ls   *)
(* process: LanguageClientLifecycleController                              *)
(* (packages/extension-core/src/languageClientLifecycleController.ts) with *)
(* the bounded operations of languageClientOperations.ts and the close     *)
(* handler of languageClient.ts.                                           *)
(*                                                                         *)
(* JavaScript runs one callback at a time: an action is the code between   *)
(* two awaits.  An await bounded by withOperationTimeout may end at any    *)
(* time.  What vscode-languageclient and the process do is external: a     *)
(* start resolves, rejects or hangs, a stop ends the process, rejects or   *)
(* hangs, a process may exit by itself.  The counters of the lifecycle     *)
(* snapshot other than launchCount are diagnostics and left out.           *)
(***************************************************************************)
EXTENDS Integers, FiniteSets

CONSTANTS
  Callers,      \* slots for concurrent calls of start()
  NoClient,     \* `undefined` for a client handle
  MaxStarts,    \* bound: calls of start()
  MaxCrashes    \* bound: server processes that exit by themselves

Clients == 1..MaxStarts   \* a client is named by its launchCount

ASSUME LifecycleBounds == MaxStarts \in Nat \ {0} /\ MaxCrashes \in Nat
ASSUME NoClientIsNone == NoClient \notin Nat

VARIABLES
  runnable,         \* options.canRun(): the workspace is trusted and not virtual
  restartQueued, managedShutdown, deactivating, launchCount,
  client, pendingClient,
  operation,        \* currentOperation: where runRestartLoop awaits, "none" if undefined
  loopClient,       \* previousClient or nextClient of the loop
  callers,          \* where each call of start() awaits
  deactivation,     \* where deactivate() awaits
  notice,           \* slowNoticeTimer and slowNoticeShown
  server,           \* the process of each client
  stopping,         \* what became of the client's stop()
  stops,            \* calls of the client's stop()
  starts, crashes,  \* bounded inputs used so far
  requestedAt       \* history: launchCount at the last call of start()

flags   == <<restartQueued, managedShutdown, deactivating>>
handles == <<client, pendingClient>>
loop    == <<operation, loopClient>>
process == <<server, stopping, stops>>
inputs  == <<starts, crashes, requestedAt, runnable>>
vars == <<flags, handles, loop, process, inputs, launchCount, callers, deactivation, notice>>

Handle == Clients \cup {NoClient}
Awaits == {"none", "stopping", "beforeStart", "starting", "cleanup", "afterStarted",
           "stoppingLate", "exited"}

Init ==
  /\ runnable \in BOOLEAN
  /\ restartQueued = FALSE /\ managedShutdown = FALSE /\ deactivating = FALSE
  /\ launchCount = 0
  /\ client = NoClient /\ pendingClient = NoClient
  /\ operation = "none" /\ loopClient = NoClient
  /\ callers = [k \in Callers |-> "idle"]
  /\ deactivation = "none" /\ notice = "none"
  /\ server = [c \in Clients |-> "none"]
  /\ stopping = [c \in Clients |-> "none"]
  /\ stops = [c \in Clients |-> 0]
  /\ starts = 0 /\ crashes = 0 /\ requestedAt = 0

Alive(c) == server[c] \in {"starting", "up", "restarting"}

\* client.stop(): a client that is already stopped resolves at once.
CallStop(c) ==
  /\ stops' = [stops EXCEPT ![c] = @ + 1]
  /\ stopping' = [stopping EXCEPT ![c] = IF @ = "done" THEN "done" ELSE "pending"]

-----------------------------------------------------------------------------
(* runRestartLoop.                                                         *)

ExitLoop(queued) ==
  /\ operation' = "exited" /\ restartQueued' = queued
  /\ UNCHANGED <<managedShutdown, loopClient, stopping, stops>>

\* Mutant: a restart leaves the previous client to itself.
MutStopPrevious(cl) ==
  /\ client' = NoClient /\ managedShutdown' = TRUE
  /\ operation' = "stopping" /\ loopClient' = cl /\ restartQueued' = FALSE
  /\ UNCHANGED <<stopping, stops>>

StopPrevious(cl) ==
  /\ client' = NoClient /\ managedShutdown' = TRUE
  /\ CallStop(cl)
  /\ operation' = "stopping" /\ loopClient' = cl /\ restartQueued' = FALSE

\* From the condition of the while loop to its next await, with `queued` for
\* restartQueued and `cl` for the client; an unavailable runtime ends the loop.
LoopHead(queued, cl) ==
  \/ /\ ~queued \/ deactivating
     /\ client' = cl /\ ExitLoop(queued)
  \/ /\ queued /\ ~deactivating /\ cl # NoClient
     /\ StopPrevious(cl)
  \/ /\ queued /\ ~deactivating /\ cl = NoClient
     /\ client' = NoClient /\ restartQueued' = FALSE
     /\ operation' = IF runnable THEN "beforeStart" ELSE "exited"
     /\ UNCHANGED <<managedShutdown, loopClient, stopping, stops>>

\* The previous client is stopped, or its stop failed or timed out.
AfterStop ==
  /\ operation = "stopping"
  /\ managedShutdown' = FALSE
  /\ operation' = IF deactivating \/ ~runnable THEN "exited" ELSE "beforeStart"
  /\ restartQueued' = IF deactivating \/ runnable THEN restartQueued ELSE FALSE
  /\ UNCHANGED <<deactivating, handles, loopClient, process, inputs, launchCount, callers,
                 deactivation, notice>>

\* Mutant: the second check of `deactivating` is missing.
MutLaunchBlocked == FALSE
LaunchBlocked == deactivating

\* The index cache maintenance is done: create the client and call its start().
Launch ==
  /\ operation = "beforeStart" /\ ~LaunchBlocked
  /\ LET next == launchCount + 1
     IN /\ launchCount' = next
        /\ pendingClient' = next /\ loopClient' = next
        /\ server' = [server EXCEPT ![next] = "starting"]
  /\ operation' = "starting"
  /\ UNCHANGED <<flags, client, stopping, stops, inputs, callers, deactivation, notice>>

LaunchDropped ==
  /\ operation = "beforeStart" /\ LaunchBlocked
  /\ operation' = "exited"
  /\ UNCHANGED <<flags, handles, loopClient, process, inputs, launchCount, callers,
                 deactivation, notice>>

\* beforeStart or createClient throws.
LaunchFails ==
  /\ operation = "beforeStart"
  /\ LoopHead(restartQueued, NoClient)
  /\ pendingClient' = NoClient
  /\ UNCHANGED <<deactivating, server, inputs, launchCount, callers, deactivation, notice>>

Up(c) == server' = [server EXCEPT ![c] = "up"]

\* Mutant: the restarts asked for while the client was starting are taken as done.
MutBecomesCurrent ==
  /\ client' = loopClient /\ pendingClient' = NoClient /\ restartQueued' = FALSE
  /\ operation' = "afterStarted"
  /\ UNCHANGED <<managedShutdown, stopping, stops>>

BecomesCurrent ==
  /\ client' = loopClient /\ pendingClient' = NoClient
  /\ operation' = "afterStarted"
  /\ UNCHANGED <<restartQueued, managedShutdown, stopping, stops>>

\* start() resolves.  When deactivate() has been called meanwhile, the client is claimed
\* and stopped here unless deactivate() took it first.
StartResolves ==
  /\ operation = "starting" /\ server[loopClient] = "starting"
  /\ Up(loopClient)
  /\ \/ ~deactivating /\ BecomesCurrent
     \/ /\ deactivating /\ pendingClient = loopClient
        /\ pendingClient' = NoClient /\ managedShutdown' = TRUE
        /\ CallStop(loopClient)
        /\ operation' = "stoppingLate"
        /\ UNCHANGED <<restartQueued, client>>
     \/ /\ deactivating /\ pendingClient # loopClient
        /\ operation' = "exited"
        /\ UNCHANGED <<restartQueued, managedShutdown, handles, stopping, stops>>
  /\ UNCHANGED <<deactivating, loopClient, inputs, launchCount, callers, deactivation, notice>>

\* start() rejects or times out: startLanguageClientWithTimeout calls stop().
StartFails ==
  /\ operation = "starting"
  /\ \E s \in IF server[loopClient] = "starting" THEN {"starting", "down"}
              ELSE {server[loopClient]} : server' = [server EXCEPT ![loopClient] = s]
  /\ CallStop(loopClient)
  /\ operation' = "cleanup"
  /\ UNCHANGED <<flags, handles, loopClient, inputs, launchCount, callers, deactivation, notice>>

\* The stop of the cleanup is over or timed out: the error reaches the catch of the loop.
AfterCleanup ==
  /\ operation = "cleanup"
  /\ LoopHead(restartQueued, NoClient)
  /\ pendingClient' = NoClient
  /\ UNCHANGED <<deactivating, server, inputs, launchCount, callers, deactivation, notice>>

AfterStarted ==
  /\ operation = "afterStarted"
  /\ LoopHead(restartQueued, client)
  /\ UNCHANGED <<deactivating, pendingClient, server, inputs, launchCount, callers,
                 deactivation, notice>>

\* The late client's stop() is awaited without a bound.
AfterLateStop ==
  /\ operation = "stoppingLate" /\ stopping[loopClient] # "pending"
  /\ managedShutdown' = FALSE
  /\ operation' = "exited"
  /\ UNCHANGED <<restartQueued, deactivating, handles, loopClient, process, inputs,
                 launchCount, callers, deactivation, notice>>

Unarmed == IF notice = "armed" THEN "none" ELSE notice

OperationSettled == operation' = "none"

\* The finally of the operation, then its waiters are resumed.
FinishOperation ==
  /\ operation = "exited"
  /\ OperationSettled
  /\ notice' = Unarmed
  /\ callers' = [k \in Callers |-> IF callers[k] = "waiting" THEN "woken" ELSE callers[k]]
  /\ UNCHANGED <<flags, handles, loopClient, process, inputs, launchCount, deactivation>>

-----------------------------------------------------------------------------
(* start, startInBackground, deactivate and the slow-start notice.         *)

\* Join the operation that runs, or become the one that runs the loop.
EnterOperation ==
  IF operation = "none"
  THEN LoopHead(TRUE, client)
  ELSE /\ restartQueued' = TRUE
       /\ UNCHANGED <<managedShutdown, client, loop, stopping, stops>>

Start(k, background) ==
  /\ callers[k] = "idle" /\ ~deactivating /\ starts < MaxStarts
  /\ starts' = starts + 1 /\ requestedAt' = launchCount
  /\ EnterOperation
  /\ callers' = [callers EXCEPT ![k] = "waiting"]
  /\ notice' = IF background /\ notice = "none" THEN "armed" ELSE notice
  /\ UNCHANGED <<runnable, deactivating, pendingClient, server, crashes, launchCount,
                 deactivation>>

\* Mutant: a call returns when the operation it awaited is over.
MutReturns == TRUE
Returns == ~restartQueued \/ deactivating

\* A call whose operation is over returns, or runs the restart queued after the loop ended.
Resume(k) ==
  /\ callers[k] = "woken"
  /\ IF Returns
     THEN /\ callers' = [callers EXCEPT ![k] = "idle"]
          /\ UNCHANGED <<restartQueued, managedShutdown, client, loop, stopping, stops>>
     ELSE /\ EnterOperation
          /\ callers' = [callers EXCEPT ![k] = "waiting"]
  /\ UNCHANGED <<deactivating, pendingClient, server, inputs, launchCount, deactivation, notice>>

Deactivate ==
  /\ ~deactivating
  /\ deactivating' = TRUE /\ restartQueued' = FALSE
  /\ notice' = Unarmed
  /\ deactivation' = "waiting"
  /\ UNCHANGED <<managedShutdown, handles, loop, process, inputs, launchCount, callers>>

\* The running operation is over, or the wait for it timed out.
StopBestHandle ==
  /\ deactivation = "waiting"
  /\ LET activeClient == IF client # NoClient THEN client ELSE pendingClient
     IN IF activeClient = NoClient
        THEN /\ deactivation' = "done"
             /\ UNCHANGED <<managedShutdown, handles, stopping, stops>>
        ELSE /\ client' = NoClient /\ pendingClient' = NoClient
             /\ managedShutdown' = TRUE
             /\ CallStop(activeClient)
             /\ deactivation' = "stopping"
  /\ UNCHANGED <<restartQueued, deactivating, loop, server, inputs, launchCount, callers, notice>>

FinishDeactivate ==
  /\ deactivation = "stopping"
  /\ managedShutdown' = FALSE /\ deactivation' = "done"
  /\ UNCHANGED <<restartQueued, deactivating, handles, loop, process, inputs, launchCount,
                 callers, notice>>

SlowNoticeFires ==
  /\ notice = "armed"
  /\ notice' = IF client # NoClient \/ operation = "none" THEN "none" ELSE "shown"
  /\ UNCHANGED <<flags, handles, loop, process, inputs, launchCount, callers, deactivation>>

-----------------------------------------------------------------------------
(* vscode-languageclient, the sage-ls process and the user.                *)

\* Mutant: any client is restarted while no managed stop is in flight.
MutShouldAutoRestartOnClose(c) == ~managedShutdown /\ ~deactivating
ShouldAutoRestartOnClose(c) == client = c /\ ~managedShutdown /\ ~deactivating

\* The connection closes because the process crashed, or was asked to exit.
Close(c) ==
  /\ server[c] = "up"
  /\ \/ stops[c] > 0 /\ UNCHANGED crashes
     \/ stops[c] = 0 /\ crashes < MaxCrashes /\ crashes' = crashes + 1
  /\ server' = [server EXCEPT ![c] = IF ShouldAutoRestartOnClose(c) THEN "restarting" ELSE "down"]
  /\ UNCHANGED <<flags, handles, loop, stopping, stops, starts, requestedAt, runnable,
                 launchCount, callers, deactivation, notice>>

\* A process the loop does not await any more, or one the library restarts, is up or dead.
ServerSettles(c) ==
  /\ \/ server[c] = "restarting"
     \/ server[c] = "starting" /\ ~(operation = "starting" /\ loopClient = c)
  /\ \E s \in {"up", "down"} : server' = [server EXCEPT ![c] = s]
  /\ UNCHANGED <<flags, handles, loop, stopping, stops, inputs, launchCount, callers,
                 deactivation, notice>>

\* stop() resolves with the process gone, or rejects and leaves it as it is.
StopSettles(c) ==
  /\ stopping[c] = "pending"
  /\ \/ /\ stopping' = [stopping EXCEPT ![c] = "done"]
        /\ server' = [server EXCEPT ![c] = "down"]
     \/ /\ stopping' = [stopping EXCEPT ![c] = "failed"]
        /\ UNCHANGED server
  /\ UNCHANGED <<flags, handles, loop, stops, inputs, launchCount, callers, deactivation, notice>>

GrantTrust ==
  /\ ~runnable /\ runnable' = TRUE
  /\ UNCHANGED <<flags, handles, loop, process, starts, crashes, requestedAt, launchCount,
                 callers, deactivation, notice>>

LoopStep == AfterStop \/ Launch \/ LaunchDropped \/ LaunchFails \/ StartResolves \/ StartFails
            \/ AfterCleanup \/ AfterStarted \/ AfterLateStop \/ FinishOperation
DeactivateStep == StopBestHandle \/ FinishDeactivate

Next ==
  \/ LoopStep \/ Deactivate \/ DeactivateStep \/ SlowNoticeFires \/ GrantTrust
  \/ \E k \in Callers : Resume(k) \/ \E background \in BOOLEAN : Start(k, background)
  \/ \E c \in Clients : Close(c) \/ ServerSettles(c) \/ StopSettles(c)

Spec == Init /\ [][Next]_vars

(* Fairness: the event loop resumes what is ready, timers fire, and the    *)
(* cache maintenance of beforeStart ends.  Nothing is assumed of the       *)
(* server process or of an unbounded stop().                               *)
Fairness == WF_vars(LoopStep) /\ WF_vars(DeactivateStep) /\ \A k \in Callers : WF_vars(Resume(k))

FairSpec == Spec /\ Fairness

-----------------------------------------------------------------------------
(* Every field keeps the type of its declaration, and a launch pays for    *)
(* itself: there are at most as many clients as requests.                  *)
NumberTypes ==
  /\ runnable \in BOOLEAN
  /\ restartQueued \in BOOLEAN /\ managedShutdown \in BOOLEAN /\ deactivating \in BOOLEAN
  /\ launchCount \in 0..MaxStarts /\ starts \in 0..MaxStarts
  /\ crashes \in Nat /\ requestedAt \in Nat
StageTypes ==
  /\ client \in Handle /\ pendingClient \in Handle /\ loopClient \in Handle
  /\ operation \in Awaits
  /\ deactivation \in {"none", "waiting", "stopping", "done"}
  /\ notice \in {"none", "armed", "shown"}
FunctionTypes ==
  /\ callers \in [Callers -> {"idle", "waiting", "woken"}]
  /\ server \in [Clients -> {"none", "starting", "up", "restarting", "down"}]
  /\ stopping \in [Clients -> {"none", "pending", "done", "failed"}]
  /\ stops \in [Clients -> Nat]
TypeOK == NumberTypes /\ StageTypes /\ FunctionTypes

(* No process is forgotten: a server that runs is the current client's or  *)
(* the pending client's, or its client has been asked to stop.             *)
NoOrphan == \A c \in Clients : Alive(c) => c \in {client, pendingClient} \/ stops[c] > 0

(* deactivate() returns only when every server that runs has been asked to *)
(* stop, and none is started after it.                                     *)
DeactivationStopsAll ==
  deactivation = "done" => \A c \in Clients : Alive(c) => stops[c] > 0

(* The current client was created after the last request for a (re)start,  *)
(* so it has the settings that request was made for, unless a restart is   *)
(* queued.                                                                 *)
CurrentIsFresh ==
  client # NoClient /\ ~restartQueued /\ ~deactivating => client > requestedAt

(* A client that was asked to stop is not restarted by its library, even   *)
(* when its process exits long after the stop timed out                    *)
(* (docs/developer-guide.md:80-81).                                        *)
NotRevived ==
  [][\A c \in Clients : stops[c] > 0 /\ server'[c] = "restarting"
                         => server[c] = "restarting"]_vars

(* No request for a restart is lost, even one made after the loop ended    *)
(* and before the operation is cleared; and a call of start() returns      *)
(* unless the extension is being deactivated.                              *)
StartReturns == \A k \in Callers : callers[k] = "waiting" ~> callers[k] = "idle" \/ deactivating
RequestsServed == (restartQueued ~> ~restartQueued) /\ StartReturns
=============================================================================
