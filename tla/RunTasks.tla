------------------------------ MODULE RunTasks ------------------------------
(***************************************************************************)
(* Running a Sage file as a task of the editor                             *)
(* (packages/extension-core/src/runTaskLifecycle.ts, terminalManager.ts).  *)
(* A run may have generated a Python file, which is removed when the task  *)
(* ends.  The editor can report the end of a task before executeTask has   *)
(* returned its execution, and the manager can be disposed at any moment;  *)
(* it then keeps listening until nothing is left to clean up.              *)
(***************************************************************************)
EXTENDS Naturals, FiniteSets

CONSTANT Executions \* tasks that may be run

ASSUME TasksAssumption == IsFiniteSet(Executions)

VARIABLES
  stage,       \* of each run: "none", "launching", "launched", "failed"
  taskProcess, \* of its task: "none", "running", "over", "reported"
  tasks,       \* executions whose end is waited for
  endedTasks,  \* ends that came while some launch was pending
  disposed,
  listening,   \* taskEndSubscription has not been disposed
  cleaned,     \* history: how often the generated file of each run was removed
  terminated   \* history: runs that were told to terminate

taskVars == <<stage, taskProcess, tasks, endedTasks, disposed, listening, cleaned, terminated>>

TaskInit ==
  /\ stage = [e \in Executions |-> "none"] /\ taskProcess = [e \in Executions |-> "none"]
  /\ tasks = {} /\ endedTasks = {}
  /\ disposed = FALSE /\ listening = TRUE
  /\ cleaned = [e \in Executions |-> 0] /\ terminated = {}

PendingLaunches == Cardinality({e \in Executions : stage[e] = "launching"})

\* Mutant: the subscription goes as soon as no task is known.
MutNotifyDisposedIdle == listening' = (listening /\ ~(disposed' /\ tasks' = {}))
NotifyDisposedIdle ==
  listening' = (listening /\ ~(disposed' /\ tasks' = {} /\ PendingLaunches' = 0))

CompleteTask(e) == cleaned' = [cleaned EXCEPT ![e] = @ + 1]

BeginLaunch(e) ==
  /\ ~disposed /\ stage[e] = "none"
  /\ stage' = [stage EXCEPT ![e] = "launching"]
  /\ UNCHANGED <<taskProcess, tasks, endedTasks, disposed, listening, cleaned, terminated>>

\* The editor starts the task; executeTask has not returned yet.
ProcessStarts(e) ==
  /\ stage[e] = "launching" /\ taskProcess[e] = "none"
  /\ taskProcess' = [taskProcess EXCEPT ![e] = "running"]
  /\ UNCHANGED <<stage, tasks, endedTasks, disposed, listening, cleaned, terminated>>

ProcessEnds(e) ==
  /\ taskProcess[e] = "running"
  /\ taskProcess' = [taskProcess EXCEPT ![e] = "over"]
  /\ UNCHANGED <<stage, tasks, endedTasks, disposed, listening, cleaned, terminated>>

CompleteLaunch(e) ==
  /\ stage[e] = "launching" /\ taskProcess[e] # "none"
  /\ stage' = [stage EXCEPT ![e] = "launched"]
  /\ IF e \in endedTasks
     THEN CompleteTask(e) /\ endedTasks' = endedTasks \ {e} /\ UNCHANGED <<tasks, terminated>>
     ELSE /\ tasks' = tasks \cup {e}
          /\ terminated' = IF disposed THEN terminated \cup {e} ELSE terminated
          /\ UNCHANGED <<cleaned, endedTasks>>
  /\ UNCHANGED <<taskProcess, disposed>>
  /\ NotifyDisposedIdle

FailLaunch(e) ==
  /\ stage[e] = "launching" /\ taskProcess[e] = "none"
  /\ stage' = [stage EXCEPT ![e] = "failed"]
  /\ UNCHANGED <<taskProcess, tasks, endedTasks, disposed, cleaned, terminated>>
  /\ NotifyDisposedIdle

\* onDidEndTask, to whoever still listens.
End(e) ==
  /\ taskProcess[e] = "over"
  /\ taskProcess' = [taskProcess EXCEPT ![e] = "reported"]
  /\ UNCHANGED <<stage, disposed, terminated>>
  /\ IF ~listening THEN UNCHANGED <<tasks, endedTasks, cleaned, listening>>
     ELSE /\ IF e \in tasks THEN CompleteTask(e) ELSE UNCHANGED cleaned
          /\ tasks' = tasks \ {e}
          /\ endedTasks' = IF PendingLaunches > 0 THEN endedTasks \cup {e} ELSE endedTasks \ {e}
          /\ NotifyDisposedIdle

Dispose ==
  /\ ~disposed /\ disposed' = TRUE
  /\ terminated' = terminated \cup tasks
  /\ UNCHANGED <<stage, taskProcess, tasks, endedTasks, cleaned>>
  /\ NotifyDisposedIdle

TaskNext ==
  \/ \E e \in Executions :
       BeginLaunch(e) \/ ProcessStarts(e) \/ ProcessEnds(e)
       \/ CompleteLaunch(e) \/ FailLaunch(e) \/ End(e)
  \/ Dispose

TaskSpec == TaskInit /\ [][TaskNext]_taskVars

-----------------------------------------------------------------------------
(* Every run whose end the editor has reported and whose launch is known   *)
(* had its generated file removed, once; and a run that outlives dispose() *)
(* was told to terminate.  The order of the end, of the return of          *)
(* executeTask and of dispose() makes no difference.                       *)
EveryRunCleaned ==
  \A e \in Executions :
    /\ cleaned[e] <= 1
    /\ stage[e] = "launched" /\ taskProcess[e] = "reported" => cleaned[e] = 1
    /\ disposed /\ e \in tasks => e \in terminated
=============================================================================
