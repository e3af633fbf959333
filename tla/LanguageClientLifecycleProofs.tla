--------------------- MODULE LanguageClientLifecycleProofs ---------------------
(***************************************************************************)
(* Theorems about LanguageClientLifecycle for any number of start          *)
(* requests, callers and crashes: the state keeps its type, no server      *)
(* process is forgotten, a deactivation stops all of them, the current     *)
(* client is as new as the last request, and a stopped client stays down.  *)
(***************************************************************************)
EXTENDS LanguageClientLifecycle, TLAPS

-----------------------------------------------------------------------------
(* The inductive invariant. *)

\* A launch consumes a request: launchCount stays below the number of requests.
Owed == (IF restartQueued THEN 1 ELSE 0)
        + (IF operation \in {"stopping", "beforeStart"} THEN 1 ELSE 0)
Paid == launchCount + Owed <= starts /\ requestedAt <= launchCount

\* Which handle is set while the loop awaits what.
Handles ==
  /\ client # NoClient => /\ operation \in {"none", "afterStarted", "exited"}
                          /\ stops[client] = 0 /\ client <= launchCount
  /\ pendingClient # NoClient => /\ operation \in {"starting", "cleanup"}
                                 /\ pendingClient = loopClient
  /\ operation \in {"starting", "cleanup", "stoppingLate"} => loopClient \in Clients
  /\ operation = "starting" =>
       /\ loopClient <= launchCount
       /\ pendingClient = loopClient => stops[loopClient] = 0
       /\ pendingClient = NoClient => stops[loopClient] > 0
  /\ operation = "cleanup" => stops[loopClient] > 0

\* Clients that were not launched are untouched.
Unlaunched ==
  \A c \in Clients : c > launchCount =>
    server[c] = "none" /\ stops[c] = 0 /\ stopping[c] = "none"

\* Once deactivate() has taken its handle, none is set again.
Deactivated ==
  /\ restartQueued => ~deactivating
  /\ deactivation # "none" => deactivating
  /\ deactivation \in {"stopping", "done"} => client = NoClient /\ pendingClient = NoClient
  /\ operation = "starting" /\ pendingClient = NoClient => deactivating
  /\ operation = "stoppingLate" => deactivating

Fresh ==
  ~restartQueued /\ ~deactivating =>
    /\ client # NoClient => client > requestedAt
    /\ operation = "starting" => loopClient > requestedAt

IInv == TypeOK /\ Paid /\ Handles /\ Unlaunched /\ Deactivated /\ Fresh /\ NoOrphan

LEMMA InitIInv == Init => IInv
<1> SUFFICES ASSUME Init PROVE IInv
  OBVIOUS
<1> USE LifecycleBounds, NoClientIsNone DEF Init
<1>1. NumberTypes
  <2>1. runnable \in BOOLEAN /\ restartQueued \in BOOLEAN /\ managedShutdown \in BOOLEAN
        /\ deactivating \in BOOLEAN
    OBVIOUS
  <2>2. /\ launchCount \in 0..MaxStarts /\ starts \in 0..MaxStarts
        /\ crashes \in Nat /\ requestedAt \in Nat
    OBVIOUS
  <2> QED BY <2>1, <2>2 DEF NumberTypes
<1>2. StageTypes
  BY DEF StageTypes, Handle, Awaits
<1>3. FunctionTypes
  BY DEF FunctionTypes
<1>4. Paid /\ Handles /\ Unlaunched /\ Deactivated /\ Fresh /\ NoOrphan
  BY DEF Paid, Owed, Handles, Unlaunched, Deactivated, Fresh, NoOrphan, Alive, Clients
<1> QED BY <1>1, <1>2, <1>3, <1>4 DEF IInv, TypeOK

\* Calls of stop() keep the types of what they count.
LEMMA CallStopType ==
  ASSUME FunctionTypes, NEW c \in Clients, CallStop(c)
  PROVE  /\ stops' \in [Clients -> Nat]
         /\ stopping' \in [Clients -> {"none", "pending", "done", "failed"}]
BY DEF FunctionTypes, CallStop

LEMMA LoopHeadType ==
  ASSUME FunctionTypes, NEW queued, NEW cl \in Handle, LoopHead(queued, cl)
  PROVE  /\ stops' \in [Clients -> Nat]
         /\ stopping' \in [Clients -> {"none", "pending", "done", "failed"}]
BY CallStopType DEF FunctionTypes, Handle, LoopHead, ExitLoop, StopPrevious

\* Every step keeps the invariant.
LEMMA NextIInv == IInv /\ [Next]_vars => IInv'
<1> SUFFICES ASSUME IInv, [Next]_vars PROVE IInv'
  OBVIOUS
<1> USE LifecycleBounds, NoClientIsNone
    DEF IInv, TypeOK, NumberTypes, StageTypes, FunctionTypes, Paid, Owed, Handles, Unlaunched,
        Deactivated, Fresh, NoOrphan, Alive, Clients, Handle, Awaits, flags, handles, loop,
        process, inputs
<1>1. CASE AfterStop
  <2>1. NumberTypes'
    BY <1>1 DEF AfterStop
  <2>2. StageTypes'
    BY <1>1 DEF AfterStop
  <2>3. FunctionTypes'
    BY <1>1 DEF AfterStop
  <2>4. Paid' /\ Handles' /\ Unlaunched' /\ Deactivated' /\ Fresh' /\ NoOrphan'
    BY <1>1 DEF AfterStop
  <2> QED BY <2>1, <2>2, <2>3, <2>4
<1>2. CASE Launch
  <2>1. NumberTypes'
    BY <1>2 DEF Launch, LaunchBlocked
  <2>2. StageTypes'
    BY <1>2 DEF Launch, LaunchBlocked
  <2>3. FunctionTypes'
    BY <1>2 DEF Launch, LaunchBlocked
  <2>4. Paid' /\ Handles' /\ Unlaunched' /\ Deactivated' /\ Fresh' /\ NoOrphan'
    BY <1>2 DEF Launch, LaunchBlocked
  <2> QED BY <2>1, <2>2, <2>3, <2>4
<1>3. CASE LaunchDropped
  BY <1>3 DEF LaunchDropped, LaunchBlocked
<1>4. CASE LaunchFails
  <2>1. NumberTypes'
    BY <1>4 DEF LaunchFails, LoopHead, ExitLoop, StopPrevious, CallStop
  <2>2. StageTypes'
    BY <1>4 DEF LaunchFails, LoopHead, ExitLoop, StopPrevious, CallStop
  <2>3. FunctionTypes'
    BY <1>4, LoopHeadType DEF LaunchFails
  <2>4. Paid' /\ Handles' /\ Unlaunched' /\ Deactivated' /\ Fresh' /\ NoOrphan'
    BY <1>4 DEF LaunchFails, LoopHead, ExitLoop, StopPrevious, CallStop
  <2> QED BY <2>1, <2>2, <2>3, <2>4
<1>5. CASE StartResolves
  <2>1. NumberTypes'
    BY <1>5 DEF StartResolves, Up, BecomesCurrent, CallStop
  <2>2. StageTypes'
    BY <1>5 DEF StartResolves, Up, BecomesCurrent, CallStop
  <2>3. FunctionTypes'
    BY <1>5, CallStopType DEF StartResolves, Up, BecomesCurrent
  <2>4. Paid' /\ Handles' /\ Unlaunched' /\ Deactivated' /\ Fresh' /\ NoOrphan'
    BY <1>5 DEF StartResolves, Up, BecomesCurrent, CallStop
  <2> QED BY <2>1, <2>2, <2>3, <2>4
<1>6. CASE StartFails
  <2>1. NumberTypes'
    BY <1>6 DEF StartFails, CallStop
  <2>2. StageTypes'
    BY <1>6 DEF StartFails, CallStop
  <2>3. FunctionTypes'
    BY <1>6, CallStopType DEF StartFails
  <2>4. Paid' /\ Handles' /\ Unlaunched' /\ Deactivated' /\ Fresh' /\ NoOrphan'
    BY <1>6 DEF StartFails, CallStop
  <2> QED BY <2>1, <2>2, <2>3, <2>4
<1>7. CASE AfterCleanup
  <2>1. NumberTypes'
    BY <1>7 DEF AfterCleanup, LoopHead, ExitLoop, StopPrevious, CallStop
  <2>2. StageTypes'
    BY <1>7 DEF AfterCleanup, LoopHead, ExitLoop, StopPrevious, CallStop
  <2>3. FunctionTypes'
    BY <1>7, LoopHeadType DEF AfterCleanup
  <2>4. Paid' /\ Handles' /\ Unlaunched' /\ Deactivated' /\ Fresh' /\ NoOrphan'
    BY <1>7 DEF AfterCleanup, LoopHead, ExitLoop, StopPrevious, CallStop
  <2> QED BY <2>1, <2>2, <2>3, <2>4
<1>8. CASE AfterStarted
  <2>1. NumberTypes'
    BY <1>8 DEF AfterStarted, LoopHead, ExitLoop, StopPrevious, CallStop
  <2>2. StageTypes'
    BY <1>8 DEF AfterStarted, LoopHead, ExitLoop, StopPrevious, CallStop
  <2>3. FunctionTypes'
    BY <1>8, LoopHeadType DEF AfterStarted
  <2>4. Paid' /\ Handles'
    BY <1>8 DEF AfterStarted, LoopHead, ExitLoop, StopPrevious, CallStop
  <2>5. Unlaunched' /\ Deactivated' /\ Fresh'
    BY <1>8 DEF AfterStarted, LoopHead, ExitLoop, StopPrevious, CallStop
  <2>6. NoOrphan'
    BY <1>8 DEF AfterStarted, LoopHead, ExitLoop, StopPrevious, CallStop
  <2> QED BY <2>1, <2>2, <2>3, <2>4, <2>5, <2>6
<1>9. CASE AfterLateStop
  BY <1>9 DEF AfterLateStop
<1>10. CASE FinishOperation
  BY <1>10 DEF FinishOperation, OperationSettled, Unarmed
<1>11. CASE Deactivate
  <2>1. NumberTypes'
    BY <1>11 DEF Deactivate, Unarmed
  <2>2. StageTypes'
    BY <1>11 DEF Deactivate, Unarmed
  <2>3. FunctionTypes'
    BY <1>11 DEF Deactivate, Unarmed
  <2>4. Paid' /\ Handles' /\ Unlaunched' /\ Deactivated' /\ Fresh' /\ NoOrphan'
    BY <1>11 DEF Deactivate, Unarmed
  <2> QED BY <2>1, <2>2, <2>3, <2>4
<1>12. CASE StopBestHandle
  <2>1. NumberTypes'
    BY <1>12 DEF StopBestHandle, CallStop
  <2>2. StageTypes'
    BY <1>12 DEF StopBestHandle, CallStop
  <2>3. FunctionTypes'
    BY <1>12, CallStopType DEF StopBestHandle
  <2>4. Paid' /\ Handles' /\ Unlaunched' /\ Deactivated' /\ Fresh' /\ NoOrphan'
    BY <1>12 DEF StopBestHandle, CallStop
  <2> QED BY <2>1, <2>2, <2>3, <2>4
<1>13. CASE FinishDeactivate
  BY <1>13 DEF FinishDeactivate
<1>14. CASE SlowNoticeFires
  BY <1>14 DEF SlowNoticeFires
<1>15. CASE GrantTrust
  BY <1>15 DEF GrantTrust
<1>16. CASE \E k \in Callers : Resume(k)
  <2>1. NumberTypes'
    BY <1>16 DEF Resume, Returns, EnterOperation, LoopHead, ExitLoop, StopPrevious, CallStop
  <2>2. StageTypes'
    BY <1>16 DEF Resume, Returns, EnterOperation, LoopHead, ExitLoop, StopPrevious, CallStop
  <2>3. FunctionTypes'
    BY <1>16, LoopHeadType DEF Resume, EnterOperation
  <2>4. Paid' /\ Handles' /\ Unlaunched' /\ Deactivated' /\ Fresh' /\ NoOrphan'
    BY <1>16 DEF Resume, Returns, EnterOperation, LoopHead, ExitLoop, StopPrevious, CallStop
  <2> QED BY <2>1, <2>2, <2>3, <2>4
<1>17. CASE \E k \in Callers, background \in BOOLEAN : Start(k, background)
  <2>1. NumberTypes'
    <3>1. /\ runnable' \in BOOLEAN /\ restartQueued' \in BOOLEAN
          /\ managedShutdown' \in BOOLEAN /\ deactivating' \in BOOLEAN
      BY <1>17 DEF Start, EnterOperation, LoopHead, ExitLoop, StopPrevious, CallStop
    <3>2. /\ launchCount' \in 0..MaxStarts /\ starts' \in 0..MaxStarts
          /\ crashes' \in Nat /\ requestedAt' \in Nat
      BY <1>17 DEF Start
    <3> QED BY <3>1, <3>2
  <2>2. StageTypes'
    BY <1>17 DEF Start, EnterOperation, LoopHead, ExitLoop, StopPrevious, CallStop
  <2>3. FunctionTypes'
    BY <1>17, LoopHeadType DEF Start, EnterOperation
  <2>4. Paid' /\ Handles'
    BY <1>17 DEF Start, EnterOperation, LoopHead, ExitLoop, StopPrevious, CallStop
  <2>5. Unlaunched' /\ Deactivated' /\ Fresh'
    BY <1>17 DEF Start, EnterOperation, LoopHead, ExitLoop, StopPrevious, CallStop
  <2>6. NoOrphan'
    BY <1>17 DEF Start, EnterOperation, LoopHead, ExitLoop, StopPrevious, CallStop
  <2> QED BY <2>1, <2>2, <2>3, <2>4, <2>5, <2>6
<1>18. CASE \E c \in Clients : Close(c)
  <2>1. NumberTypes'
    BY <1>18 DEF Close, ShouldAutoRestartOnClose
  <2>2. StageTypes'
    BY <1>18 DEF Close, ShouldAutoRestartOnClose
  <2>3. FunctionTypes'
    BY <1>18 DEF Close, ShouldAutoRestartOnClose
  <2>4. Paid' /\ Handles' /\ Unlaunched' /\ Deactivated' /\ Fresh' /\ NoOrphan'
    BY <1>18 DEF Close, ShouldAutoRestartOnClose
  <2> QED BY <2>1, <2>2, <2>3, <2>4
<1>19. CASE \E c \in Clients : ServerSettles(c)
  <2>1. NumberTypes'
    BY <1>19 DEF ServerSettles
  <2>2. StageTypes'
    BY <1>19 DEF ServerSettles
  <2>3. FunctionTypes'
    BY <1>19 DEF ServerSettles
  <2>4. Paid' /\ Handles' /\ Unlaunched' /\ Deactivated' /\ Fresh' /\ NoOrphan'
    BY <1>19 DEF ServerSettles
  <2> QED BY <2>1, <2>2, <2>3, <2>4
<1>20. CASE \E c \in Clients : StopSettles(c)
  <2>1. NumberTypes'
    BY <1>20 DEF StopSettles
  <2>2. StageTypes'
    BY <1>20 DEF StopSettles
  <2>3. FunctionTypes'
    BY <1>20 DEF StopSettles
  <2>4. Paid' /\ Handles'
    BY <1>20 DEF StopSettles
  <2>5. Unlaunched' /\ Deactivated' /\ Fresh'
    BY <1>20 DEF StopSettles
  <2>6. NoOrphan'
    BY <1>20 DEF StopSettles
  <2> QED BY <2>1, <2>2, <2>3, <2>4, <2>5, <2>6
<1>21. CASE UNCHANGED vars
  BY <1>21 DEF vars
<1> QED
  BY <1>1, <1>2, <1>3, <1>4, <1>5, <1>6, <1>7, <1>8, <1>9, <1>10, <1>11, <1>12, <1>13, <1>14,
         <1>15, <1>16, <1>17, <1>18, <1>19, <1>20, <1>21 DEF Next, LoopStep, DeactivateStep

LEMMA SpecIInv == Spec => []IInv
BY InitIInv, NextIInv, PTL DEF Spec

(* The types, and at most as many launches as requests. *)
THEOREM TypeCorrect == Spec => []TypeOK
<1>1. IInv => TypeOK
  BY DEF IInv
<1> QED BY <1>1, SpecIInv, PTL

(* Every server process that runs has a handle or has been asked to stop. *)
THEOREM NoneForgotten == Spec => []NoOrphan
<1>1. IInv => NoOrphan
  BY DEF IInv
<1> QED BY <1>1, SpecIInv, PTL

(* When deactivate() has returned, every server that runs has been asked to stop. *)
THEOREM AllStopped == Spec => []DeactivationStopsAll
<1>1. IInv => DeactivationStopsAll
  BY NoClientIsNone DEF IInv, Deactivated, NoOrphan, DeactivationStopsAll, Clients
<1> QED BY <1>1, SpecIInv, PTL

(* The current client was created after the last request. *)
THEOREM Freshness == Spec => []CurrentIsFresh
<1>1. IInv => CurrentIsFresh
  BY DEF IInv, Fresh, CurrentIsFresh
<1> QED BY <1>1, SpecIInv, PTL

(* A client that was asked to stop is never restarted: the handler answers  *)
(* "restart" only for the current client, which nobody asked to stop.       *)
THEOREM StaysStopped == Spec => NotRevived
<1> DEFINE Revives == \E c \in Clients : /\ stops[c] > 0 /\ server'[c] = "restarting"
                                         /\ server[c] # "restarting"
<1>1. IInv /\ [Next]_vars => ~Revives
  <2> SUFFICES ASSUME IInv, [Next]_vars, NEW c \in Clients, stops[c] > 0,
                      server'[c] = "restarting", server[c] # "restarting"
               PROVE  FALSE
    OBVIOUS
  <2> USE LifecycleBounds, NoClientIsNone
      DEF IInv, TypeOK, StageTypes, FunctionTypes, Handles, Clients, process
  <2>1. CASE LoopStep
    <3>1. CASE Launch
      BY <2>1, <3>1 DEF Launch
    <3>2. CASE StartResolves
      BY <2>1, <3>2 DEF StartResolves, Up
    <3>3. CASE StartFails
      BY <2>1, <3>3 DEF StartFails
    <3>4. CASE UNCHANGED server
      BY <3>4
    <3> QED
      BY <2>1, <3>1, <3>2, <3>3, <3>4
      DEF LoopStep, AfterStop, LaunchDropped, LaunchFails, AfterCleanup, AfterStarted,
          AfterLateStop, FinishOperation
  <2>2. CASE \E d \in Clients : Close(d)
    BY <2>2 DEF Close, ShouldAutoRestartOnClose
  <2>3. CASE \E d \in Clients : ServerSettles(d) \/ StopSettles(d)
    BY <2>3 DEF ServerSettles, StopSettles
  <2>4. CASE UNCHANGED server
    BY <2>4
  <2> QED
    BY <2>1, <2>2, <2>3, <2>4
    DEF Next, DeactivateStep, Deactivate, StopBestHandle, FinishDeactivate, SlowNoticeFires,
        GrantTrust, Resume, Start, vars
<1>2. IInv /\ [Next]_vars =>
        [\A c \in Clients : stops[c] > 0 /\ server'[c] = "restarting"
                              => server[c] = "restarting"]_vars
  BY <1>1
<1> QED BY <1>2, SpecIInv, PTL DEF Spec, NotRevived
=============================================================================
