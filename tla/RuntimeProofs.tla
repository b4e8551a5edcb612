----------------------------- MODULE RuntimeProofs -----------------------------
(***************************************************************************)
(* Proofs about Runtime, for any number of outside cancellations.  The      *)
(* invariants say what serve() has done to its tasks at each of its awaits. *)
(***************************************************************************)
EXTENDS Runtime, TLAPS

Before == {"create", "stopPool"} \cup LoadPcs
Serving == {"serve", "drain", "reap", "yield"}

USE DEF Before, Serving, LoadPcs, ClosePcs

-----------------------------------------------------------------------------
(* Types *)

FlagTypes ==
    /\ main \in MainPcs
    /\ pool \in {"none", "up", "stopping", "stopped"}
    /\ ready \in BOOLEAN /\ handlers \in BOOLEAN
    /\ shouldExit \in BOOLEAN /\ forceExit \in BOOLEAN
TaskTypes == task \in [Tasks -> {"none", "running"} \cup Ends]
AskedTypes == asked \in [Tasks -> Nat]
OutcomeTypes ==
    /\ error \in Errors
    /\ closeError \in {"none", "closeTimeout", "cancelled"}
    /\ outcome \in Outcomes
CancelTypes == cancels \in 0..MaxCancels

Types == FlagTypes /\ TaskTypes /\ AskedTypes /\ OutcomeTypes /\ CancelTypes

\* How often each task has been cancelled so far.
AskedInv ==
    /\ main \in Before \cup {"serve", "drain"} => \A t \in Tasks : asked[t] = 0
    /\ main = "reap" => asked["http"] <= 1 /\ asked["fatal"] <= 1
    /\ asked["http"] <= 2 /\ asked["fatal"] <= 2
    /\ main \in Serving \cup {"close"} => asked["close"] = 0
    /\ main = "reapClose" =>
          asked["close"] <= (IF closeError = "cancelled" THEN 2 ELSE 1)
    /\ asked["close"] <= (IF closeError = "cancelled" THEN 3 ELSE 2)

\* Which tasks there are at each await.
LifeInv ==
    /\ main \in Before => \A t \in Tasks : task[t] = "none"
    /\ main \in Before => ~ready /\ ~handlers /\ ~shouldExit
    /\ main \in Serving =>
          task["http"] # "none" /\ task["fatal"] # "none" /\ task["close"] = "none"
    /\ main \in ClosePcs => task["close"] # "none"

LEMMA TheTasks ==
    /\ "http" \in Tasks /\ "fatal" \in Tasks /\ "close" \in Tasks
    /\ \A t \in Tasks : t \in {"http", "fatal", "close"}
  BY DEF Tasks

\* Cancels reach the tasks that still run.
LEMMA CancelTimesEffect ==
    ASSUME Types, NEW set, NEW times \in Nat, CancelTimes(set, times)
    PROVE  /\ asked' \in [Tasks -> Nat]
           /\ \A t \in Tasks : asked'[t] =
                 IF t \in set /\ task[t] = "running"
                   THEN asked[t] + times ELSE asked[t]
  BY DEF CancelTimes, Running, Types, AskedTypes

\* A single cancel.
LEMMA CancelTasksEffect ==
    ASSUME Types, NEW set, CancelTasks(set)
    PROVE  /\ asked' \in [Tasks -> Nat]
           /\ \A t \in Tasks : asked'[t] =
                 IF t \in set /\ task[t] = "running" THEN asked[t] + 1 ELSE asked[t]
  BY CancelTimesEffect DEF CancelTasks

\* _close_engine() that is cancelled cancels its task twice.
LEMMA CancelCloseEffect ==
    ASSUME Types, CancelClose
    PROVE  /\ asked' \in [Tasks -> Nat]
           /\ \A t \in Tasks : asked'[t] =
                 IF t = "close" /\ task[t] = "running"
                   THEN asked[t] + 2 ELSE asked[t]
  BY CancelTimesEffect DEF CancelClose

\* StartReap waits for what still runs, or goes on to close the engine.
LEMMA StartReapEffect ==
    ASSUME Types, StartReap
    PROVE  /\ asked' \in [Tasks -> Nat]
           /\ \A t \in {"http", "fatal"} : asked'[t] =
                 IF task[t] = "running" THEN asked[t] + 1 ELSE asked[t]
           /\ asked'["close"] = asked["close"]
           /\ \/ main' = "reap" /\ UNCHANGED <<handlers, task>>
              \/ /\ main' = "close" /\ handlers' = FALSE
                 /\ task' = [task EXCEPT !["close"] = "running"]
                 /\ task["http"] # "running" /\ task["fatal"] # "running"
<1>1. /\ asked' \in [Tasks -> Nat]
      /\ \A t \in Tasks : asked'[t] =
            IF t \in {"http", "fatal"} /\ task[t] = "running"
              THEN asked[t] + 1 ELSE asked[t]
  BY CancelTasksEffect DEF StartReap
<1>2. CASE Running({"http", "fatal"}) = {}
  <2>1. task["http"] # "running" /\ task["fatal"] # "running"
    BY <1>2 DEF Running
  <2> QED
    BY <1>1, <1>2, <2>1, TheTasks DEF StartReap, LeaveServe, StartClose
<1>3. CASE Running({"http", "fatal"}) # {}
  BY <1>1, <1>3, TheTasks DEF StartReap
<1> QED
  BY <1>2, <1>3

LEMMA InitTypes == Init => Types
<1> SUFFICES ASSUME Init PROVE Types
  OBVIOUS
<1>1. FlagTypes /\ TaskTypes /\ OutcomeTypes
  BY DEF Init, FlagTypes, TaskTypes, OutcomeTypes, MainPcs, Errors, Outcomes
<1>2. AskedTypes
  BY DEF Init, AskedTypes
<1>3. CancelTypes
  BY CancelsAssumption DEF Init, CancelTypes
<1> QED
  BY <1>1, <1>2, <1>3 DEF Types

LEMMA NextTypes == Types /\ [Next]_vars => Types'
<1> SUFFICES ASSUME Types, [Next]_vars PROVE Types'
  OBVIOUS
<1>1. CASE CreateFails \/ PoolStarts \/ Loads \/ LoadFails \/ PoolStopped
  BY <1>1
  DEF CreateFails, PoolStarts, Loads, LoadFails, StopPool, PoolStopped, Exit,
      flags, Types, FlagTypes, TaskTypes, AskedTypes, OutcomeTypes, CancelTypes,
      MainPcs, Errors, Outcomes
<1>2. CASE EngineCreated \/ ConstructionFails
  <2>1. FlagTypes'
    BY <1>2 DEF EngineCreated, ConstructionFails, StartClose, flags, Types,
                FlagTypes, MainPcs
  <2>2. TaskTypes'
    BY <1>2, TheTasks DEF EngineCreated, ConstructionFails, StartClose, Types,
                          TaskTypes
  <2>3. AskedTypes' /\ OutcomeTypes' /\ CancelTypes'
    BY <1>2 DEF EngineCreated, ConstructionFails, StartClose, Types, AskedTypes,
                OutcomeTypes, CancelTypes, Errors
  <2> QED
    BY <2>1, <2>2, <2>3 DEF Types
<1>3. CASE Signal
  BY <1>3
  DEF Signal, Types, FlagTypes, TaskTypes, AskedTypes, OutcomeTypes, CancelTypes
<1>4. CASE Wake \/ Drained \/ DrainTimeout \/ CancelServe
  <2>1. StartReap \/ (main' = "drain" /\ UNCHANGED <<handlers, task, asked>>)
    BY <1>4 DEF Wake, Drained, DrainTimeout, CancelServe
  <2>2. main' \in MainPcs /\ handlers' \in BOOLEAN
    BY <2>1, StartReapEffect DEF Types, FlagTypes, MainPcs
  <2>3. FlagTypes'
    BY <1>4, <2>2 DEF Wake, Drained, DrainTimeout, CancelServe, Types, FlagTypes
  <2>4. TaskTypes' /\ AskedTypes'
    BY <2>1, StartReapEffect, TheTasks DEF Types, TaskTypes, AskedTypes, Ends
  <2>5. OutcomeTypes'
    BY <1>4 DEF Wake, Drained, DrainTimeout, CancelServe, ServeError, Types,
                OutcomeTypes, Errors
  <2>6. CancelTypes'
    BY <1>4, CancelsAssumption
    DEF Wake, Drained, DrainTimeout, CancelServe, Cancelled, Types, CancelTypes
  <2> QED
    BY <2>3, <2>4, <2>5, <2>6 DEF Types
<1>5. CASE Reaped \/ Yielded \/ CancelReap
  <2>1. FlagTypes' /\ TaskTypes' /\ AskedTypes' /\ OutcomeTypes'
    BY <1>5, TheTasks
    DEF Reaped, Yielded, CancelReap, LeaveServe, StartClose, Types, FlagTypes,
        TaskTypes, AskedTypes, OutcomeTypes, MainPcs, Errors, Ends
  <2>2. CancelTypes'
    BY <1>5, CancelsAssumption
    DEF Reaped, Yielded, CancelReap, Cancelled, Types, CancelTypes
  <2> QED
    BY <2>1, <2>2 DEF Types
<1>6. CASE ReapTimeout \/ CloseTimeout \/ CloseReapTimeout \/ CancelClose
  <2>1. AskedTypes'
    BY <1>6, CancelTasksEffect, CancelCloseEffect
    DEF ReapTimeout, CloseTimeout, CloseReapTimeout, AskedTypes
  <2>2. FlagTypes' /\ TaskTypes' /\ OutcomeTypes'
    BY <1>6
    DEF ReapTimeout, CloseTimeout, CloseReapTimeout, CancelClose, flags, Types,
        FlagTypes, TaskTypes, OutcomeTypes, MainPcs
  <2>3. CancelTypes'
    BY <1>6, CancelsAssumption
    DEF ReapTimeout, CloseTimeout, CloseReapTimeout, CancelClose, Cancelled,
        Types, CancelTypes
  <2> QED
    BY <2>1, <2>2, <2>3 DEF Types
<1>7. CASE CloseOver \/ CloseReaped \/ CloseYielded \/ CancelCloseReap
  <2>1. FlagTypes' /\ TaskTypes' /\ AskedTypes' /\ OutcomeTypes'
    BY <1>7
    DEF CloseOver, CloseReaped, CloseYielded, CancelCloseReap, Exit, flags,
        Types, FlagTypes, TaskTypes, AskedTypes, OutcomeTypes, MainPcs, Errors,
        Outcomes
  <2>2. CancelTypes'
    BY <1>7, CancelsAssumption
    DEF CloseOver, CloseReaped, CloseYielded, CancelCloseReap, Cancelled, Types,
        CancelTypes
  <2> QED
    BY <2>1, <2>2 DEF Types
<1>8. CASE CancelLoad \/ CancelStopPool
  <2>1. FlagTypes' /\ TaskTypes' /\ AskedTypes' /\ OutcomeTypes'
    BY <1>8
    DEF CancelLoad, CancelStopPool, StopPool, flags, Types, FlagTypes,
        TaskTypes, AskedTypes, OutcomeTypes, MainPcs, Errors, Outcomes
  <2>2. CancelTypes'
    BY <1>8, CancelsAssumption
    DEF CancelLoad, CancelStopPool, Cancelled, Types, CancelTypes
  <2> QED
    BY <2>1, <2>2 DEF Types
<1>9. CASE CloseBegins \/ UNCHANGED vars
  BY <1>9
  DEF CloseBegins, vars, flags, Types, FlagTypes, TaskTypes, AskedTypes,
      OutcomeTypes, CancelTypes
<1>10. ASSUME NEW t \in Tasks, TaskEnds(t) PROVE Types'
  BY <1>10
  DEF TaskEnds, flags, Types, FlagTypes, TaskTypes, AskedTypes, OutcomeTypes,
      CancelTypes
<1> QED
  BY <1>1, <1>2, <1>3, <1>4, <1>5, <1>6, <1>7, <1>8, <1>9, <1>10
  DEF Next, MainStep, CancelStep, Over

LEMMA AlwaysTypes == Spec => []Types
  BY InitTypes, NextTypes, PTL DEF Spec

-----------------------------------------------------------------------------
(* What serve() has done to its tasks *)

LEMMA InitLifeInv == Init => LifeInv
  BY DEF Init, LifeInv

LEMMA NextLifeInv == Types /\ LifeInv /\ [Next]_vars => LifeInv'
<1> SUFFICES ASSUME Types, LifeInv, [Next]_vars PROVE LifeInv'
  OBVIOUS
<1>1. CASE CreateFails \/ PoolStarts \/ Loads \/ LoadFails \/ PoolStopped
  BY <1>1 DEF CreateFails, PoolStarts, Loads, LoadFails, StopPool, PoolStopped,
              Exit, flags, LifeInv
<1>2. CASE EngineCreated \/ ConstructionFails
  BY <1>2, TheTasks DEF EngineCreated, ConstructionFails, StartClose, LifeInv,
                        Types, TaskTypes
<1>3. CASE Signal
  BY <1>3 DEF Signal, LifeInv
<1>4. CASE Wake \/ Drained \/ DrainTimeout \/ CancelServe
  <2>1. main \in {"serve", "drain"}
    BY <1>4 DEF Wake, Drained, DrainTimeout, CancelServe
  <2>2. StartReap \/ (main' = "drain" /\ UNCHANGED task)
    BY <1>4 DEF Wake, Drained, DrainTimeout, CancelServe
  <2>3. \/ main' \in {"drain", "reap"} /\ UNCHANGED task
        \/ main' = "close" /\ task' = [task EXCEPT !["close"] = "running"]
    BY <2>2, StartReapEffect
  <2> QED
    BY <2>1, <2>3, TheTasks DEF LifeInv, Types, TaskTypes
<1>5. CASE Reaped \/ Yielded \/ CancelReap
  BY <1>5, TheTasks DEF Reaped, Yielded, CancelReap, LeaveServe, StartClose,
                        LifeInv, Types, TaskTypes
<1>6. CASE ReapTimeout \/ CloseTimeout \/ CloseReapTimeout \/ CancelClose
  BY <1>6 DEF ReapTimeout, CloseTimeout, CloseReapTimeout, CancelClose, LifeInv
<1>7. CASE CloseOver \/ CloseReaped \/ CloseYielded \/ CancelCloseReap
  BY <1>7 DEF CloseOver, CloseReaped, CloseYielded, CancelCloseReap, Exit, LifeInv
<1>8. CASE CancelLoad \/ CancelStopPool
  BY <1>8 DEF CancelLoad, CancelStopPool, StopPool, flags, LifeInv
<1>9. CASE CloseBegins \/ UNCHANGED vars
  BY <1>9 DEF CloseBegins, vars, flags, LifeInv
<1>10. ASSUME NEW t \in Tasks, TaskEnds(t) PROVE LifeInv'
  BY <1>10, TheTasks DEF TaskEnds, flags, LifeInv, Types, TaskTypes, Ends
<1> QED
  BY <1>1, <1>2, <1>3, <1>4, <1>5, <1>6, <1>7, <1>8, <1>9, <1>10
  DEF Next, MainStep, CancelStep, Over

LEMMA InitAskedInv == Init => AskedInv
  BY TheTasks DEF Init, AskedInv

LEMMA NextAskedInv == Types /\ AskedInv /\ [Next]_vars => AskedInv'
<1> SUFFICES ASSUME Types, AskedInv, [Next]_vars PROVE AskedInv'
  OBVIOUS
<1> USE TheTasks
<1>1. CASE CreateFails \/ PoolStarts \/ Loads \/ LoadFails \/ PoolStopped
  BY <1>1 DEF CreateFails, PoolStarts, Loads, LoadFails, StopPool, PoolStopped,
              Exit, AskedInv
<1>2. CASE EngineCreated \/ ConstructionFails
  BY <1>2 DEF EngineCreated, ConstructionFails, StartClose, AskedInv
<1>3. CASE Signal
  BY <1>3 DEF Signal, AskedInv
<1>4. CASE Wake \/ Drained \/ DrainTimeout \/ CancelServe
  <2>1. asked["http"] = 0 /\ asked["fatal"] = 0 /\ asked["close"] = 0
    BY <1>4 DEF Wake, Drained, DrainTimeout, CancelServe, AskedInv
  <2>2. CASE StartReap
    <3>1. asked'["close"] = 0 /\ main' \in {"reap", "close"}
      BY <2>1, <2>2, StartReapEffect
    <3>2. asked'["http"] = IF task["http"] = "running" THEN 1 ELSE 0
      BY <2>1, <2>2, StartReapEffect
    <3>3. asked'["fatal"] = IF task["fatal"] = "running" THEN 1 ELSE 0
      BY <2>1, <2>2, StartReapEffect
    <3> QED
      BY <3>1, <3>2, <3>3 DEF AskedInv
  <2>3. CASE main' = "drain" /\ UNCHANGED asked
    BY <2>1, <2>3 DEF AskedInv
  <2> QED
    BY <1>4, <2>2, <2>3 DEF Wake, Drained, DrainTimeout, CancelServe
<1>5. CASE Reaped \/ Yielded \/ CancelReap
  BY <1>5 DEF Reaped, Yielded, CancelReap, LeaveServe, StartClose, AskedInv
<1>6. CASE ReapTimeout
  <2>1. /\ asked'["http"] \in {asked["http"], asked["http"] + 1}
        /\ asked'["fatal"] \in {asked["fatal"], asked["fatal"] + 1}
        /\ asked'["close"] = asked["close"]
    BY <1>6, CancelTasksEffect DEF ReapTimeout
  <2> QED
    BY <1>6, <2>1 DEF ReapTimeout, AskedInv, Types, AskedTypes
<1>7. CASE CloseTimeout \/ CloseReapTimeout
  <2>1. /\ asked'["http"] = asked["http"] /\ asked'["fatal"] = asked["fatal"]
        /\ asked'["close"] \in {asked["close"], asked["close"] + 1}
    BY <1>7, CancelTasksEffect DEF CloseTimeout, CloseReapTimeout
  <2> QED
    BY <1>7, <2>1 DEF CloseTimeout, CloseReapTimeout, AskedInv, Types, AskedTypes
<1>8. CASE CloseOver \/ CloseReaped \/ CloseYielded \/ CancelCloseReap
  BY <1>8 DEF CloseOver, CloseReaped, CloseYielded, CancelCloseReap, Exit, AskedInv
<1>9. CASE CancelLoad \/ CancelStopPool
  BY <1>9 DEF CancelLoad, CancelStopPool, StopPool, AskedInv
<1>10. CASE CloseBegins \/ UNCHANGED vars
  BY <1>10 DEF CloseBegins, vars, AskedInv
<1>11. ASSUME NEW t \in Tasks, TaskEnds(t) PROVE AskedInv'
  BY <1>11 DEF TaskEnds, AskedInv
<1>12. CASE CancelClose
  <2>1. /\ asked'["http"] = asked["http"] /\ asked'["fatal"] = asked["fatal"]
        /\ asked'["close"] \in {asked["close"], asked["close"] + 2}
    BY <1>12, CancelCloseEffect
  <2> QED
    BY <1>12, <2>1 DEF CancelClose, AskedInv, Types, AskedTypes
<1> QED
  BY <1>1, <1>2, <1>3, <1>4, <1>5, <1>6, <1>7, <1>8, <1>9, <1>10, <1>11, <1>12
  DEF Next, MainStep, CancelStep, Over

LEMMA AlwaysLifeInv == Spec => []LifeInv
<1>1. Types /\ LifeInv /\ [Next]_vars => LifeInv'
  BY NextLifeInv
<1> QED
  BY <1>1, InitLifeInv, AlwaysTypes, PTL DEF Spec

LEMMA AlwaysAskedInv == Spec => []AskedInv
<1>1. Types /\ AskedInv /\ [Next]_vars => AskedInv'
  BY NextAskedInv
<1> QED
  BY <1>1, InitAskedInv, AlwaysTypes, PTL DEF Spec

\* Every reachable state is well typed; in particular the tasks of _serve() are
\* cancelled at most twice, and the close task at most three times, and that only
\* if _close_engine() was cancelled while it waited for it, whatever they do with
\* a cancellation (runtime.py _cancel_and_reap, _close_engine).
THEOREM TypeCorrect == Spec => []TypeOK
<1>1. Types /\ AskedInv => TypeOK
  <2> SUFFICES ASSUME Types, AskedInv PROVE TypeOK
    OBVIOUS
  <2>1. /\ asked["http"] <= 2 /\ asked["fatal"] <= 2
        /\ asked["close"] <= (IF closeError = "cancelled" THEN 3 ELSE 2)
    BY DEF AskedInv
  <2> QED
    BY <2>1 DEF Types, FlagTypes, TaskTypes, AskedTypes, OutcomeTypes,
                CancelTypes, TypeOK
<1> QED
  BY <1>1, AlwaysTypes, AlwaysAskedInv, PTL

-----------------------------------------------------------------------------
(* Readiness *)

LEMMA InitReady == Init => ReadyMeansServing
  BY DEF Init, ReadyMeansServing

LEMMA NextReady ==
    Types /\ LifeInv /\ ReadyMeansServing /\ [Next]_vars => ReadyMeansServing'
<1> SUFFICES ASSUME Types, LifeInv, ReadyMeansServing, [Next]_vars
             PROVE  ReadyMeansServing'
  OBVIOUS
<1>1. CASE EngineCreated
  BY <1>1 DEF EngineCreated, LifeInv, ReadyMeansServing
<1>2. CASE Signal \/ Wake \/ CancelServe
  BY <1>2 DEF Signal, Wake, CancelServe, ReadyMeansServing
<1>3. ASSUME UNCHANGED <<main, flags>> PROVE ReadyMeansServing'
  BY <1>3 DEF flags, ReadyMeansServing
<1>4. ASSUME main # "serve", ready' = ready PROVE ReadyMeansServing'
  BY <1>4 DEF ReadyMeansServing
<1>5. CASE CreateFails \/ PoolStarts \/ Loads \/ LoadFails \/ PoolStopped
           \/ ConstructionFails \/ CancelLoad \/ CancelStopPool
  BY <1>4, <1>5
  DEF CreateFails, PoolStarts, Loads, LoadFails, StopPool, PoolStopped,
      ConstructionFails, CancelLoad, CancelStopPool, flags
<1>6. CASE Drained \/ DrainTimeout \/ Reaped \/ Yielded \/ CancelReap
           \/ ReapTimeout
  BY <1>4, <1>6
  DEF Drained, DrainTimeout, Reaped, Yielded, CancelReap, ReapTimeout, flags
<1>7. CASE CloseTimeout \/ CloseReapTimeout \/ CancelClose \/ CloseOver
           \/ CloseReaped \/ CloseYielded \/ CancelCloseReap
  BY <1>4, <1>7
  DEF CloseTimeout, CloseReapTimeout, CancelClose, CloseOver, CloseReaped,
      CloseYielded, CancelCloseReap, flags
<1>8. CASE CloseBegins \/ (\E t \in Tasks : TaskEnds(t)) \/ UNCHANGED vars
  BY <1>3, <1>8 DEF CloseBegins, TaskEnds, vars
<1> QED
  BY <1>1, <1>2, <1>5, <1>6, <1>7, <1>8 DEF Next, MainStep, CancelStep, Over

\* /health never reports ready to a client of a server that is stopping, whatever
\* signals, errors and cancellations meet (runtime.py request_exit, _serve).
THEOREM ReadyMeansServingHolds == Spec => []ReadyMeansServing
<1>1. Types /\ LifeInv /\ ReadyMeansServing /\ [Next]_vars => ReadyMeansServing'
  BY NextReady
<1> QED
  BY <1>1, InitReady, AlwaysTypes, AlwaysLifeInv, PTL DEF Spec

-----------------------------------------------------------------------------
(* The engine's pool *)

\* Where serve() can be while the pool still runs.
PoolInv ==
    /\ main = "create" => pool = "none"
    /\ main = "stopPool" => pool # "up"
    /\ main = "close" /\ pool = "up" => task["close"] = "running"
    /\ main \in {"reapClose", "yieldClose"} /\ pool = "up" =>
          asked["close"] > 0 /\ cancels > 0
    /\ PoolIsStopped

LEMMA InitPoolInv == Init => PoolInv
  BY DEF Init, PoolInv, PoolIsStopped

LEMMA NextPoolInv ==
    Types /\ LifeInv /\ AskedInv /\ PoolInv /\ [Next]_vars => PoolInv'
<1> SUFFICES ASSUME Types, LifeInv, AskedInv, PoolInv, [Next]_vars
             PROVE  PoolInv'
  OBVIOUS
<1> USE TheTasks
<1>1. CASE CreateFails \/ PoolStarts \/ Loads \/ LoadFails \/ PoolStopped
  BY <1>1 DEF CreateFails, PoolStarts, Loads, LoadFails, StopPool, PoolStopped,
              Exit, PoolInv, PoolIsStopped
<1>2. CASE EngineCreated \/ ConstructionFails
  BY <1>2 DEF EngineCreated, ConstructionFails, StartClose, PoolInv,
              PoolIsStopped, Types, TaskTypes
<1>3. CASE Signal
  BY <1>3 DEF Signal, PoolInv, PoolIsStopped
<1>4. CASE Wake \/ Drained \/ DrainTimeout \/ CancelServe
  <2>1. StartReap \/ (main' = "drain" /\ UNCHANGED task)
    BY <1>4 DEF Wake, Drained, DrainTimeout, CancelServe
  <2>2. \/ main' \in {"drain", "reap"}
        \/ main' = "close" /\ task' = [task EXCEPT !["close"] = "running"]
    BY <2>1, StartReapEffect
  <2> QED
    BY <2>2 DEF PoolInv, PoolIsStopped, Types, TaskTypes
<1>5. CASE Reaped \/ Yielded \/ CancelReap
  BY <1>5 DEF Reaped, Yielded, CancelReap, LeaveServe, StartClose, PoolInv,
              PoolIsStopped, Types, TaskTypes
<1>6. CASE ReapTimeout
  BY <1>6 DEF ReapTimeout, PoolInv, PoolIsStopped
<1>7. CASE CloseTimeout
  BY <1>7 DEF CloseTimeout, PoolInv, PoolIsStopped
<1>8. CASE CloseReapTimeout
  <2>1. asked'["close"] \in {asked["close"], asked["close"] + 1}
    BY <1>8, CancelTasksEffect DEF CloseReapTimeout
  <2> QED
    BY <1>8, <2>1 DEF CloseReapTimeout, PoolInv, PoolIsStopped, Types, AskedTypes
<1>9. CASE CancelClose
  <2>1. asked'["close"] = IF task["close"] = "running" THEN asked["close"] + 2
                                                      ELSE asked["close"]
    BY <1>9, CancelCloseEffect
  <2>2. cancels' > 0
    BY <1>9, CancelsAssumption DEF CancelClose, Cancelled, Types, CancelTypes
  <2>3. pool' = "up" => asked'["close"] > 0
    BY <1>9, <2>1 DEF CancelClose, PoolInv, AskedInv
  <2> QED
    BY <1>9, <2>2, <2>3 DEF CancelClose, PoolInv, PoolIsStopped
<1>10. CASE CloseOver
  BY <1>10 DEF CloseOver, Exit, Ended, Ends, PoolInv, PoolIsStopped
<1>11. CASE CloseReaped \/ CloseYielded
  BY <1>11 DEF CloseReaped, CloseYielded, Exit, PoolInv, PoolIsStopped, LifeInv
<1>12. CASE CancelCloseReap
  <2>1. cancels' > 0
    BY <1>12, CancelsAssumption DEF CancelCloseReap, Cancelled, Types, CancelTypes
  <2> QED
    BY <1>12, <2>1 DEF CancelCloseReap, Exit, PoolInv, PoolIsStopped, LifeInv
<1>13. CASE CancelLoad \/ CancelStopPool
  BY <1>13 DEF CancelLoad, CancelStopPool, StopPool, PoolInv, PoolIsStopped
<1>14. CASE CloseBegins \/ UNCHANGED vars
  BY <1>14 DEF CloseBegins, vars, PoolInv, PoolIsStopped
<1>15. ASSUME NEW t \in Tasks, TaskEnds(t) PROVE PoolInv'
  <2>1. PICK end \in Ends :
           /\ end = "cancelled" => asked[t] > 0
           /\ t = "close" /\ pool = "up" => end = "cancelled"
           /\ task' = [task EXCEPT ![t] = end]
           /\ pool' = IF t = "close" /\ end = "ok" THEN "stopped" ELSE pool
    BY <1>15 DEF TaskEnds
  <2>2. UNCHANGED <<main, asked, cancels>> /\ task[t] = "running"
    BY <1>15 DEF TaskEnds
  <2>3. t = "close" /\ main = "close" => pool' # "up"
    BY <2>1, <2>2 DEF AskedInv
  <2>4. task'["close"] = IF t = "close" THEN end ELSE task["close"]
    BY <2>1 DEF Types, TaskTypes
  <2>5. end # "none"
    BY DEF Ends
  <2>6. pool' = "up" => pool = "up"
    BY <2>1
  <2>7. main' = "close" /\ pool' = "up" => task'["close"] = "running"
    BY <2>2, <2>3, <2>4, <2>6 DEF PoolInv
  <2>8. PoolIsStopped'
    BY <2>2, <2>4, <2>5, <2>6 DEF PoolInv, PoolIsStopped
  <2>9. main' = "create" => pool' = "none"
    BY <2>2, <1>15 DEF LifeInv
  <2> QED
    BY <2>2, <2>6, <2>7, <2>8, <2>9 DEF PoolInv
<1> QED
  BY <1>1, <1>2, <1>3, <1>4, <1>5, <1>6, <1>7, <1>8, <1>9, <1>10, <1>11,
     <1>12, <1>13, <1>14, <1>15
  DEF Next, MainStep, CancelStep, Over

\* The process never leaves a pool of GPU servers that was not told to stop,
\* save for a cancellation in the turn in which the close task starts
\* (engine.py create, close; runtime.py serve, _close_engine).
THEOREM PoolIsStoppedHolds == Spec => []PoolIsStopped
<1>1. PoolInv => PoolIsStopped
  BY DEF PoolInv
<1>2. Types /\ LifeInv /\ AskedInv /\ PoolInv /\ [Next]_vars => PoolInv'
  BY NextPoolInv
<1> QED
  BY <1>1, <1>2, InitPoolInv, AlwaysTypes, AlwaysLifeInv, AlwaysAskedInv, PTL
  DEF Spec

-----------------------------------------------------------------------------
(* HTTP stops first *)

HttpInv ==
    /\ main = "reap" /\ task["http"] = "running" => asked["http"] = 1
    /\ main = "yield" /\ task["http"] = "running" => asked["http"] = 2
    /\ HttpStopsFirst

LEMMA InitHttpInv == Init => HttpInv
  BY TheTasks DEF Init, HttpInv, HttpStopsFirst

LEMMA NextHttpInv ==
    Types /\ LifeInv /\ AskedInv /\ HttpInv /\ [Next]_vars => HttpInv'
<1> SUFFICES ASSUME Types, LifeInv, AskedInv, HttpInv, [Next]_vars
             PROVE  HttpInv'
  OBVIOUS
<1> USE TheTasks
<1>1. cancels \in Nat /\ cancels' \in Nat /\ cancels' >= cancels
  BY CancelsAssumption
  DEF Types, CancelTypes, Next, CreateFails, PoolStarts, Loads, LoadFails,
      PoolStopped, EngineCreated, ConstructionFails, Signal, MainStep,
      CancelStep, TaskEnds, Over, CancelLoad, CancelStopPool, CancelServe,
      CancelReap, CancelClose, CancelCloseReap, Cancelled, Wake, Drained,
      DrainTimeout, Reaped, ReapTimeout, Yielded, CloseBegins, CloseOver,
      CloseTimeout, CloseReaped, CloseReapTimeout, CloseYielded, vars
<1>2. CASE CreateFails \/ PoolStarts \/ Loads \/ LoadFails \/ PoolStopped
           \/ CancelLoad \/ CancelStopPool
  BY <1>2 DEF CreateFails, PoolStarts, Loads, LoadFails, StopPool, PoolStopped,
              CancelLoad, CancelStopPool, Exit, HttpInv, HttpStopsFirst, LifeInv
<1>3. CASE EngineCreated \/ ConstructionFails
  BY <1>3 DEF EngineCreated, ConstructionFails, StartClose, HttpInv,
              HttpStopsFirst, LifeInv, Types, TaskTypes
<1>4. CASE Signal
  BY <1>4 DEF Signal, HttpInv, HttpStopsFirst
<1>5. CASE Wake \/ Drained \/ DrainTimeout \/ CancelServe
  <2>1. asked["http"] = 0 /\ task["close"] = "none"
    BY <1>5 DEF Wake, Drained, DrainTimeout, CancelServe, AskedInv, LifeInv
  <2>2. CASE StartReap
    <3>1. asked'["http"] = IF task["http"] = "running" THEN 1 ELSE 0
      BY <2>1, <2>2, StartReapEffect
    <3>2. CASE main' = "reap" /\ UNCHANGED task
      BY <2>1, <3>1, <3>2 DEF HttpInv, HttpStopsFirst
    <3>3. CASE /\ main' = "close"
               /\ task' = [task EXCEPT !["close"] = "running"]
               /\ task["http"] # "running"
      BY <3>3 DEF HttpInv, HttpStopsFirst, Types, TaskTypes
    <3> QED
      BY <2>2, <3>2, <3>3, StartReapEffect
  <2>3. CASE main' = "drain" /\ UNCHANGED <<task, asked>>
    BY <2>1, <2>3 DEF HttpInv, HttpStopsFirst
  <2> QED
    BY <1>5, <2>2, <2>3 DEF Wake, Drained, DrainTimeout, CancelServe
<1>6. CASE Reaped \/ Yielded
  <2>1. task["http"] = "running" => asked["http"] = 2
    BY <1>6 DEF Reaped, Yielded, Running, HttpInv
  <2> QED
    BY <1>6, <2>1 DEF Reaped, Yielded, LeaveServe, StartClose, HttpInv,
                      HttpStopsFirst, Types, TaskTypes
<1>7. CASE CancelReap
  <2>1. cancels' > 0
    BY <1>7, <1>1 DEF CancelReap, Cancelled
  <2> QED
    BY <1>7, <2>1 DEF CancelReap, LeaveServe, StartClose, HttpInv,
                      HttpStopsFirst, Types, TaskTypes
<1>8. CASE ReapTimeout
  <2>1. asked'["http"] = IF task["http"] = "running" THEN asked["http"] + 1
                                                    ELSE asked["http"]
    BY <1>8, CancelTasksEffect DEF ReapTimeout
  <2> QED
    BY <1>8, <2>1 DEF ReapTimeout, HttpInv, HttpStopsFirst, LifeInv
<1>9. CASE CloseTimeout \/ CloseReapTimeout \/ CancelClose
  <2>1. asked'["http"] = asked["http"]
    BY <1>9, CancelTasksEffect, CancelCloseEffect
    DEF CloseTimeout, CloseReapTimeout
  <2> QED
    BY <1>1, <1>9, <2>1 DEF CloseTimeout, CloseReapTimeout, CancelClose,
                             HttpInv, HttpStopsFirst
<1>10. CASE CloseOver \/ CloseReaped \/ CloseYielded \/ CancelCloseReap
  BY <1>1, <1>10
  DEF CloseOver, CloseReaped, CloseYielded, CancelCloseReap, Exit, HttpInv,
      HttpStopsFirst
<1>11. CASE CloseBegins \/ UNCHANGED vars
  BY <1>11 DEF CloseBegins, vars, HttpInv, HttpStopsFirst
<1>12. ASSUME NEW t \in Tasks, TaskEnds(t) PROVE HttpInv'
  <2>1. \/ task'["http"] = task["http"]
        \/ task'["http"] # "running"
    BY <1>12 DEF TaskEnds, Ends, Types, TaskTypes
  <2>2. task'["close"] = "none" <=> task["close"] = "none"
    BY <1>12 DEF TaskEnds, Ends, Types, TaskTypes
  <2> QED
    BY <1>12, <2>1, <2>2 DEF TaskEnds, HttpInv, HttpStopsFirst
<1> QED
  BY <1>2, <1>3, <1>4, <1>5, <1>6, <1>7, <1>8, <1>9, <1>10, <1>11, <1>12
  DEF Next, MainStep, CancelStep, Over

\* The engine is never closed under an HTTP server that was not told to stop
\* (runtime.py _shutdown_tasks before _close_engine).
THEOREM HttpStopsFirstHolds == Spec => []HttpStopsFirst
<1>1. HttpInv => HttpStopsFirst
  BY DEF HttpInv
<1>2. Types /\ LifeInv /\ AskedInv /\ HttpInv /\ [Next]_vars => HttpInv'
  BY NextHttpInv
<1> QED
  BY <1>1, <1>2, InitHttpInv, AlwaysTypes, AlwaysLifeInv, AlwaysAskedInv, PTL
  DEF Spec

-----------------------------------------------------------------------------
(* A fatal error decides *)

\* An error that will decide, or has decided, the end of serve().
Decides(how) == how = "fatal" \/ (how = "cancelled" /\ cancels > 0)

\* Once the wait of _serve() is over, the waiter has ended or was cancelled.
FatalInv ==
    /\ main \in {"drain", "reap", "yield"} \cup ClosePcs \cup {"exited"} =>
          (task["fatal"] = "running" => asked["fatal"] > 0)
    /\ main \in {"drain", "reap", "yield"} \cup ClosePcs =>
          (task["fatal"] \in {"ok", "error"} /\ asked["fatal"] = 0 => Decides(error))
    /\ FatalDecidesOutcome

LEMMA InitFatalInv == Init => FatalInv
  BY DEF Init, FatalInv, FatalDecidesOutcome

LEMMA NextFatalInv ==
    Types /\ LifeInv /\ AskedInv /\ FatalInv /\ [Next]_vars => FatalInv'
<1> SUFFICES ASSUME Types, LifeInv, AskedInv, FatalInv, [Next]_vars
             PROVE  FatalInv'
  OBVIOUS
<1> USE TheTasks DEF Decides
<1>1. CASE CreateFails \/ PoolStarts \/ Loads \/ LoadFails \/ PoolStopped
           \/ CancelLoad \/ CancelStopPool
  BY <1>1 DEF CreateFails, PoolStarts, Loads, LoadFails, StopPool, PoolStopped,
              CancelLoad, CancelStopPool, Exit, FatalInv, FatalDecidesOutcome,
              LifeInv
<1>2. CASE EngineCreated \/ ConstructionFails
  BY <1>2 DEF EngineCreated, ConstructionFails, StartClose, FatalInv,
              FatalDecidesOutcome, LifeInv, Types, TaskTypes
<1>3. CASE Signal
  BY <1>3 DEF Signal, FatalInv, FatalDecidesOutcome
<1>4. CASE Wake \/ Drained \/ DrainTimeout \/ CancelServe
  <2>1. asked["fatal"] = 0
    BY <1>4 DEF Wake, Drained, DrainTimeout, CancelServe, AskedInv
  <2>2. task["fatal"] \in {"ok", "error"} => Decides(error)'
    <3>1. CASE Wake
      BY <3>1 DEF Wake, ServeError, Ended, Ends
    <3>2. CASE Drained \/ DrainTimeout
      BY <2>1, <3>2 DEF Drained, DrainTimeout, FatalInv
    <3>3. CASE CancelServe
      BY <3>3, CancelsAssumption DEF CancelServe, Cancelled, Types, CancelTypes
    <3> QED
      BY <1>4, <3>1, <3>2, <3>3
  <2>3. CASE StartReap
    <3>1. asked'["fatal"] = IF task["fatal"] = "running" THEN 1 ELSE 0
      BY <2>1, <2>3, StartReapEffect
    <3>2. main' \in {"reap", "close"} /\ task'["fatal"] = task["fatal"]
      BY <2>3, StartReapEffect DEF Types, TaskTypes
    <3> QED
      BY <2>2, <3>1, <3>2 DEF FatalInv, FatalDecidesOutcome
  <2>4. CASE Wake /\ main' = "drain" /\ UNCHANGED <<task, asked>>
    <3>1. task["fatal"] # "running"
      BY <2>4 DEF Wake, StartReap, LeaveServe, StartClose, Ended, Ends
    <3> QED
      BY <2>2, <2>4, <3>1 DEF FatalInv, FatalDecidesOutcome
  <2> QED
    BY <1>4, <2>3, <2>4 DEF Wake, Drained, DrainTimeout, CancelServe
<1>5. CASE Reaped \/ Yielded
  BY <1>5 DEF Reaped, Yielded, LeaveServe, StartClose, FatalInv,
              FatalDecidesOutcome, Types, TaskTypes
<1>6. CASE CancelReap
  <2>1. cancels' > 0
    BY <1>6, CancelsAssumption DEF CancelReap, Cancelled, Types, CancelTypes
  <2> QED
    BY <1>6, <2>1 DEF CancelReap, LeaveServe, StartClose, FatalInv,
                      FatalDecidesOutcome, Types, TaskTypes
<1>7. CASE ReapTimeout
  <2>1. asked'["fatal"] = IF task["fatal"] = "running" THEN asked["fatal"] + 1
                                                      ELSE asked["fatal"]
    BY <1>7, CancelTasksEffect DEF ReapTimeout
  <2> QED
    BY <1>7, <2>1 DEF ReapTimeout, FatalInv, FatalDecidesOutcome, Types,
                      AskedTypes
<1>8. CASE CloseTimeout \/ CloseReapTimeout \/ CancelClose
  <2>1. asked'["fatal"] = asked["fatal"]
    BY <1>8, CancelTasksEffect, CancelCloseEffect
    DEF CloseTimeout, CloseReapTimeout
  <2>2. cancels > 0 => cancels' > 0
    BY <1>8, CancelsAssumption
    DEF CloseTimeout, CloseReapTimeout, CancelClose, Cancelled, Types, CancelTypes
  <2> QED
    BY <1>8, <2>1, <2>2
    DEF CloseTimeout, CloseReapTimeout, CancelClose, FatalInv, FatalDecidesOutcome
<1>9. CASE CloseOver \/ CloseReaped \/ CloseYielded \/ CancelCloseReap
  <2>1. cancels > 0 => cancels' > 0
    BY <1>9, CancelsAssumption
    DEF CloseOver, CloseReaped, CloseYielded, CancelCloseReap, Cancelled, Types,
        CancelTypes
  <2> QED
    BY <1>9, <2>1
    DEF CloseOver, CloseReaped, CloseYielded, CancelCloseReap, Exit, FatalInv,
        FatalDecidesOutcome
<1>10. CASE CloseBegins \/ UNCHANGED vars
  BY <1>10 DEF CloseBegins, vars, FatalInv, FatalDecidesOutcome
<1>11. ASSUME NEW t \in Tasks, TaskEnds(t) PROVE FatalInv'
  <2>1. PICK end \in Ends : task' = [task EXCEPT ![t] = end]
    BY <1>11 DEF TaskEnds
  <2>2. \/ task'["fatal"] = task["fatal"]
        \/ task["fatal"] = "running" /\ task'["fatal"] \in Ends
    BY <1>11, <2>1 DEF TaskEnds, Types, TaskTypes
  <2> QED
    BY <1>11, <2>2 DEF TaskEnds, Ends, FatalInv, FatalDecidesOutcome
<1> QED
  BY <1>1, <1>2, <1>3, <1>4, <1>5, <1>6, <1>7, <1>8, <1>9, <1>10, <1>11
  DEF Next, MainStep, CancelStep, Over

\* A fatal engine error decides how serve() ends, also when HTTP ends in the same
\* turn and when closing fails (runtime.py _serve, serve).
THEOREM FatalDecidesOutcomeHolds == Spec => []FatalDecidesOutcome
<1>1. FatalInv => FatalDecidesOutcome
  BY DEF FatalInv
<1>2. Types /\ LifeInv /\ AskedInv /\ FatalInv /\ [Next]_vars => FatalInv'
  BY NextFatalInv
<1> QED
  BY <1>1, <1>2, InitFatalInv, AlwaysTypes, AlwaysLifeInv, AlwaysAskedInv, PTL
  DEF Spec
=============================================================================
