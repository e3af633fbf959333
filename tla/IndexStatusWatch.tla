-------------------------- MODULE IndexStatusWatch --------------------------
(***************************************************************************)
(* The extension follows the index of the server through its status        *)
(* payload (crates/sage-ls/src/index_jobs.rs, index_status_payload):       *)
(*   - the rebuild command waits until a rebuild is installed and          *)
(*     reschedules one that another job superseded                         *)
(*     (packages/extension-core/src/indexRebuild.ts, statusCommands.ts);   *)
(*   - a timer refreshes the status bar until no job is pending            *)
(*     (statusRefreshController.ts).                                       *)
(*                                                                         *)
(* The jobs are those of IndexJobs, seen from outside: a job counts itself *)
(* as pending only after it has been spawned, takes the gate, and installs *)
(* unless a later job was spawned or another index installed.  The payload *)
(* reads the index and the counter under two locks, one after the other.   *)
(***************************************************************************)
EXTENDS Naturals, Sequences, FiniteSets

CONSTANTS
  MaxJobs,       \* bound: jobs spawned
  MaxRefreshes,  \* bound: refreshes of saved files that install an index
  MaxReschedules,
  MaxSchedules,  \* bound: times the status timer is scheduled
  WorkersFail    \* whether a worker may end with an error

ASSUME WatchAssumption ==
  /\ MaxJobs \in Nat \ {0} /\ MaxReschedules \in Nat
  /\ MaxRefreshes \in Nat /\ MaxSchedules \in Nat /\ WorkersFail \in BOOLEAN

VARIABLES
  job,          \* the jobs, in the order of index_job_generation
  index,        \* the installed index: [generation, operation]
  refreshes,    \* bound
  command,      \* the rebuild command: its stage, its baselines, its reschedules
  payload,      \* the status it is reading: the index, before the counter is read
  rebuilt,      \* history: the generation of the last index installed that was built in full
  timer,        \* the generation whose timer is running, 0 for none
  timer_generation,
  tick,         \* the refresh in flight: [generation, seen], or NoTick
  shown,        \* lastIndexStatus: whether the status bar shows pending jobs
  owed,         \* history: a schedule() no refresh has followed yet
  ends          \* shouldContinue() is false: the extension is being deactivated

statusVars == <<job, index, refreshes, command, payload, rebuilt,
  timer, timer_generation, tick, shown, owed, ends>>
server == <<job, index, refreshes, rebuilt>>
wait == <<command, payload>>
bar == <<timer, timer_generation, tick, shown, owed, ends>>

(* What the index records of the work that made it.  Counts that do not    *)
(* match, a cache that cannot be read or written, turn any work into a     *)
(* rebuild, which is what is recorded then.                                *)
Recorded(work) ==
  {work, "rebuild"} \cup (IF work = "reconcile" THEN {"fast-reconcile"} ELSE {})

NoPayload == [generation |-> 0, operation |-> "none"]
NoTick == [generation |-> 0, seen |-> FALSE]

StatusInit ==
  /\ job = <<[kind |-> "reconcile", stage |-> "spawned", basis |-> 0]>>
  /\ index \in [generation : {1}, operation : Recorded("hydrate")]
  /\ refreshes = 0 /\ rebuilt = 0
  /\ command = [stage |-> "idle", original |-> 0, baseline |-> 0, reschedules |-> 0]
  /\ payload = NoPayload
  /\ timer = 0 /\ timer_generation = 1 /\ tick = NoTick
  /\ shown = FALSE /\ owed = FALSE /\ ends = FALSE

-----------------------------------------------------------------------------
(* The server.                                                             *)
PendingJobs == Cardinality({j \in DOMAIN job : job[j].stage \in {"waiting", "working"}})
Latest == Len(job)
Spawned == Append(job, [kind |-> "rebuild", stage |-> "spawned", basis |-> 0])
Moves(j, stage) == job' = [job EXCEPT ![j].stage = stage, ![j].basis = index.generation]
GateFree == \A j \in DOMAIN job : job[j].stage # "working"

\* A refresh or a reconcile that falls back to another cache raises the generation twice; by
\* how much it grows makes no difference.
Installs(work) ==
  \E operation \in Recorded(work) :
    /\ index' = [generation |-> index.generation + 1, operation |-> operation]
    /\ rebuilt' = IF operation = "rebuild" THEN index.generation + 1 ELSE rebuilt

CountJob(j) == job[j].stage = "spawned" /\ Moves(j, "waiting") /\ UNCHANGED <<index, refreshes, rebuilt>>

StartJob(j) ==
  /\ job[j].stage = "waiting" /\ GateFree
  /\ Moves(j, IF j = Latest THEN "working" ELSE "done")
  /\ UNCHANGED <<index, refreshes, rebuilt>>

FinishJob(j) ==
  /\ job[j].stage = "working"
  /\ job' = [job EXCEPT ![j].stage = "done"]
  /\ UNCHANGED refreshes
  /\ \/ /\ j = Latest /\ job[j].basis = index.generation
        /\ Installs(job[j].kind)
     \/ /\ WorkersFail \/ j # Latest \/ job[j].basis # index.generation
        /\ UNCHANGED <<index, rebuilt>>

\* A saved file's refresh holds the gate too, and counts no pending job.
RefreshInstalls ==
  /\ refreshes < MaxRefreshes /\ refreshes' = refreshes + 1
  /\ GateFree
  /\ Installs("refresh")
  /\ UNCHANGED job

ServerStep ==
  /\ UNCHANGED <<wait, bar>>
  /\ \/ \E j \in DOMAIN job : CountJob(j) \/ StartJob(j) \/ FinishJob(j)
     \/ RefreshInstalls

-----------------------------------------------------------------------------
(* The command: baseline, rebuild request, then polls of the status.       *)
RequestBaseline ==
  /\ command.stage = "idle" /\ Latest < MaxJobs
  /\ command' = [stage |-> "scheduling", original |-> index.generation,
                 baseline |-> index.generation, reschedules |-> 0]
  /\ UNCHANGED <<server, payload, bar>>

RequestRebuild ==
  /\ command.stage = "scheduling" /\ Latest < MaxJobs
  /\ job' = Spawned
  /\ command' = [command EXCEPT !.stage = "polling"]
  /\ UNCHANGED <<index, refreshes, rebuilt, payload, bar>>

ReadIndex ==
  /\ command.stage = "polling" /\ payload = NoPayload
  /\ payload' = index
  /\ UNCHANGED <<server, command, bar>>

IsIndexRebuildComplete(status, pending, baseline) ==
  pending = 0 /\ status.operation = "rebuild" /\ status.generation > baseline

\* Mutant: a refresh that supersedes a rebuild is no reason to ask again.
MutIndexAdvanced(status, pending, baseline) ==
  pending = 0 /\ status.operation \in {"reconcile", "fast-reconcile"} /\ status.generation > baseline
IndexAdvancedWithoutInstalledRebuild(status, pending, baseline) ==
  pending = 0 /\ status.operation # "rebuild" /\ status.generation > baseline

\* The counter is read, and the answer is judged.
Poll ==
  /\ payload # NoPayload /\ payload' = NoPayload
  /\ UNCHANGED <<index, refreshes, rebuilt, bar>>
  /\ IF IsIndexRebuildComplete(payload, PendingJobs, command.baseline)
     THEN command' = [command EXCEPT !.stage = "rebuilt"] /\ UNCHANGED job
     ELSE IF ~IndexAdvancedWithoutInstalledRebuild(payload, PendingJobs, command.baseline)
     THEN UNCHANGED <<job, command>>
     ELSE IF command.reschedules >= MaxReschedules
     THEN command' = [command EXCEPT !.stage = "superseded"] /\ UNCHANGED job
     ELSE /\ command' = [command EXCEPT !.baseline = payload.generation, !.reschedules = @ + 1]
          /\ job' = Spawned

\* waitForIndexRebuild gives up; a poll under way is not looked at any more.
TimesOut ==
  /\ command.stage = "polling"
  /\ command' = [command EXCEPT !.stage = "timed out"] /\ payload' = NoPayload
  /\ UNCHANGED <<server, bar>>

-----------------------------------------------------------------------------
(* The status bar.                                                         *)
Clear == timer' = 0 /\ timer_generation' = timer_generation + 1

\* A watched file changes, or the client has started.
ScheduleStatus ==
  /\ ~ends /\ timer_generation < MaxSchedules
  /\ timer_generation' = timer_generation + 1 /\ timer' = timer_generation + 1
  /\ owed' = TRUE
  /\ UNCHANGED <<server, wait, tick, shown, ends>>

\* beforeRestart stops the polling of the client that goes away.
ClearStatus ==
  /\ timer # 0 /\ Clear /\ owed' = FALSE
  /\ UNCHANGED <<server, wait, tick, shown, ends>>

DeactivateBar ==
  /\ ~ends /\ ends' = TRUE /\ Clear /\ owed' = FALSE
  /\ UNCHANGED <<server, wait, tick, shown>>

TickStarts ==
  /\ timer # 0 /\ tick = NoTick /\ ~ends
  /\ tick' = [generation |-> timer, seen |-> FALSE]
  /\ owed' = FALSE
  /\ UNCHANGED <<server, wait, timer, timer_generation, shown, ends>>

\* Mutant: a stale tick stops the polling that replaced its own.
MutStaleTick == FALSE
StaleTick == tick.generation # timer_generation

\* The refresh returns, with a status or without one; finally looks at the last.
TickEnds ==
  /\ tick # NoTick /\ tick' = NoTick
  /\ shown' \in {PendingJobs > 0, shown}
  /\ IF StaleTick \/ (shown' /\ ~ends) THEN UNCHANGED <<timer, timer_generation>> ELSE Clear
  /\ UNCHANGED <<server, wait, owed, ends>>

-----------------------------------------------------------------------------
CommandStep == RequestBaseline \/ RequestRebuild \/ ReadIndex \/ Poll \/ TimesOut
BarStep == ScheduleStatus \/ ClearStatus \/ DeactivateBar \/ TickStarts \/ TickEnds

StatusNext == ServerStep \/ CommandStep \/ BarStep

StatusFairness ==
  /\ WF_statusVars(ServerStep)
  /\ WF_statusVars(ReadIndex) /\ WF_statusVars(Poll)
  /\ WF_statusVars(TickStarts) /\ WF_statusVars(TickEnds)

StatusSpec == StatusInit /\ [][StatusNext]_statusVars /\ StatusFairness

-----------------------------------------------------------------------------
(* Properties.                                                             *)

(* The command reports success only when an index that was built in full   *)
(* has been installed since it took its baseline, however the two halves   *)
(* of a payload are torn apart.  It need not be the index of its own job:  *)
(* a refresh or a reconcile that had to rebuild counts, and so does an     *)
(* older rebuild that comes in before the command's job is counted.        *)
SuccessIsRebuilt == command.stage = "rebuilt" => rebuilt > command.original

(* It gives up only when other work came in again after every rebuild it   *)
(* asked for: no install is held against two of them.                      *)
SupersededEachTime ==
  command.stage = "superseded" => index.generation - command.original > MaxReschedules

(* A wait whose rebuild was superseded is not left to its two-minute       *)
(* timeout: polls end it, as long as workers do not fail.                  *)
WaitNeedsNoTimeout == (command.stage = "polling") ~> (command.stage # "polling")

\* The answer is right, and it comes.
RebuildWaitAnswers == [](SuccessIsRebuilt /\ SupersededEachTime) /\ WaitNeedsNoTimeout

(* Every schedule of the status bar is followed by a refresh that starts   *)
(* after it, unless the polling is cleared: a tick of an older schedule    *)
(* that ends late does not cancel the newer one.                           *)
ScheduleIsServed == owed ~> ~owed
=============================================================================
