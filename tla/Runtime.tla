------------------------------- MODULE Runtime -------------------------------
(***************************************************************************)
(* The life of the server process (runtime.py) and of its engine (engine.py): *)
(* serve() creates the engine, which starts a pool of GPU servers and warms  *)
(* it up, runs the HTTP server next to a waiter for a fatal error, and,      *)
(* whatever ends first, stops both within a bounded time and closes the      *)
(* engine.  An action is the code of serve() between two awaits; the tasks   *)
(* it owns end whenever they like, and a cancelled task may ignore that.     *)
(***************************************************************************)
EXTENDS Naturals

CONSTANT MaxCancels   \* bound: how often serve() is cancelled from outside

ASSUME CancelsAssumption == MaxCancels \in Nat

VARIABLES
    main,       \* the await serve() is suspended at
    pool,       \* the engine's server pool
    ready,      \* readiness.ready
    handlers,   \* the signal handlers are installed
    shouldExit, \* server.should_exit
    forceExit,  \* server.force_exit
    task,       \* the tasks serve() owns: not yet created, running, or ended
    asked,      \* how often each task has been cancelled
    error,      \* active_error of _serve(), or its construction error
    closeError, \* what _close_engine() is going to raise
    outcome,    \* how serve() ended
    cancels     \* cancellations of serve() (history)

flags == <<ready, handlers, shouldExit, forceExit>>
vars == <<main, pool, flags, task, asked, error, closeError, outcome,
          cancels>>

Tasks == {"http", "fatal", "close"}
Ends == {"ok", "error", "cancelled"}
ClosePcs == {"close", "reapClose", "yieldClose"}
LoadPcs == {"waitReady", "modelInfo", "warmUp"}
MainPcs == {"create", "stopPool", "serve", "drain", "reap", "yield", "exited"}
           \cup LoadPcs \cup ClosePcs
Errors == {"none", "create", "construct", "fatal", "http", "cancelled"}
Outcomes == {"none", "ok", "create", "construct", "fatal", "http", "cancelled",
             "closeFailed", "closeTimeout"}

Ended(t) == task[t] \in Ends
Running(set) == {t \in set : task[t] = "running"}

Init ==
    /\ main = "create"
    /\ pool = "none"
    /\ ready = FALSE
    /\ handlers = FALSE
    /\ shouldExit = FALSE
    /\ forceExit = FALSE
    /\ task = [t \in Tasks |-> "none"]
    /\ asked = [t \in Tasks |-> 0]
    /\ error = "none"
    /\ closeError = "none"
    /\ outcome = "none"
    /\ cancels = 0

-----------------------------------------------------------------------------
(* Shared pieces of the coroutine. *)

\* task.cancel(), so many times, on those that have not ended.
CancelTimes(set, times) ==
    asked' = [t \in Tasks |-> asked[t] + (IF t \in Running(set) THEN times ELSE 0)]

CancelTasks(set) == CancelTimes(set, 1)

\* _close_engine() starts its close task and waits for it.
StartClose ==
    /\ main' = "close"
    /\ task' = [task EXCEPT !["close"] = "running"]

\* The end of _serve(): the handlers go, serve() closes the engine.
LeaveServe ==
    /\ handlers' = FALSE
    /\ StartClose

\* Mutant: only the waiter for a fatal error is cancelled.
StartReap_FatalOnly ==
    /\ CancelTasks({"fatal"})
    /\ IF Running({"fatal"}) = {}
         THEN LeaveServe
         ELSE main' = "reap" /\ UNCHANGED <<handlers, task>>

\* _cancel_and_reap() cancels what still runs and waits for it.
StartReap ==
    /\ CancelTasks({"http", "fatal"})
    /\ IF Running({"http", "fatal"}) = {}
         THEN LeaveServe
         ELSE main' = "reap" /\ UNCHANGED <<handlers, task>>

\* serve() is over: an error of _serve() hides one of _close_engine().
Exit(how) ==
    /\ main' = "exited"
    /\ outcome' = IF error = "none" THEN how ELSE error

-----------------------------------------------------------------------------
(* Start *)

\* The GPU, the download, the tokenizer or the pool's constructor fails.
CreateFails ==
    /\ main = "create"
    /\ main' = "exited"
    /\ outcome' = "create"
    /\ UNCHANGED <<pool, flags, task, asked, error, closeError, cancels>>

\* create() has a pool, in the same step as it was called.
PoolStarts ==
    /\ main = "create"
    /\ main' = "waitReady"
    /\ pool' = "up"
    /\ UNCHANGED <<flags, task, asked, error, closeError, outcome, cancels>>

\* The pool is ready; then the model's format is right; then it warms up.
Loads ==
    /\ \/ main = "waitReady" /\ main' = "modelInfo"
       \/ main = "modelInfo" /\ main' = "warmUp"
    /\ UNCHANGED <<pool, flags, task, asked, error, closeError, outcome,
                   cancels>>

\* create() stops its pool before it raises.
StopPool(why) ==
    /\ main' = "stopPool"
    /\ pool' = "stopping"
    /\ error' = why
    /\ UNCHANGED <<flags, task, asked, closeError, outcome>>

LoadFails ==
    /\ main \in LoadPcs
    /\ StopPool("create")
    /\ UNCHANGED cancels

\* External: pool.stop() returns, or raises what create() suppresses.
PoolStopped ==
    /\ main = "stopPool"
    /\ \E end \in {"stopping", "stopped"} : pool' = end
    /\ Exit("none")
    /\ UNCHANGED <<flags, task, asked, error, closeError, cancels>>

\* The warm-up is over and the rest is composed without an await: handlers,
\* readiness, the two tasks.
EngineCreated ==
    /\ main = "warmUp"
    /\ main' = "serve"
    /\ handlers' = TRUE
    /\ ready' = TRUE
    /\ task' = [task EXCEPT !["http"] = "running", !["fatal"] = "running"]
    /\ UNCHANGED <<pool, shouldExit, forceExit, asked, error, closeError,
                   outcome, cancels>>

\* The engine is there but the voice store or the app cannot be constructed.
ConstructionFails ==
    /\ main = "warmUp"
    /\ error' = "construct"
    /\ StartClose
    /\ UNCHANGED <<pool, flags, asked, closeError, outcome, cancels>>

-----------------------------------------------------------------------------
(* Serving and its end *)

\* Mutant: a signal does not revoke readiness.
Signal_KeepsReady ==
    /\ handlers
    /\ shouldExit' = TRUE
    /\ forceExit' = (forceExit \/ shouldExit)
    /\ UNCHANGED <<main, pool, ready, handlers, task, asked, error,
                   closeError, outcome, cancels>>

\* request_exit(): the first signal asks, a later one forces.
Signal ==
    /\ handlers
    /\ ready' = FALSE
    /\ shouldExit' = TRUE
    /\ forceExit' = (forceExit \/ shouldExit)
    /\ UNCHANGED <<main, pool, handlers, task, asked, error, closeError,
                   outcome, cancels>>

\* Mutant: the end of HTTP is looked at first.
ServeError_HttpFirst ==
    IF Ended("http") THEN (IF task["http"] = "error" THEN "http" ELSE "none")
                     ELSE "fatal"

\* What _serve() raises when its wait is over: a fatal error comes first.
ServeError ==
    IF Ended("fatal") THEN "fatal"
    ELSE IF task["http"] = "error" THEN "http" ELSE "none"

\* One of the two tasks has ended; HTTP gets 15 s to drain if it still runs.
Wake ==
    /\ main = "serve"
    /\ Ended("http") \/ Ended("fatal")
    /\ ready' = FALSE
    /\ shouldExit' = TRUE
    /\ error' = ServeError
    /\ IF Ended("http")
         THEN StartReap
         ELSE main' = "drain" /\ UNCHANGED <<handlers, task, asked>>
    /\ UNCHANGED <<pool, forceExit, closeError, outcome, cancels>>

\* HTTP has drained.
Drained ==
    /\ main = "drain" /\ Ended("http")
    /\ StartReap
    /\ UNCHANGED <<pool, ready, shouldExit, forceExit, error, closeError,
                   outcome, cancels>>

\* Mutant: the wait for HTTP has no timeout.
DrainTimeout_Never ==
    /\ main = "drain" /\ ~Ended("http") /\ forceExit
    /\ StartReap
    /\ UNCHANGED <<pool, ready, shouldExit, forceExit, error, closeError,
                   outcome, cancels>>

\* HTTP has not drained within 15 s.
DrainTimeout ==
    /\ main = "drain" /\ ~Ended("http")
    /\ forceExit' = TRUE
    /\ StartReap
    /\ UNCHANGED <<pool, ready, shouldExit, error, closeError, outcome,
                   cancels>>

\* The cancelled tasks have ended.
Reaped ==
    /\ main = "reap" /\ Running({"http", "fatal"}) = {}
    /\ LeaveServe
    /\ UNCHANGED <<pool, ready, shouldExit, forceExit, asked, error,
                   closeError, outcome, cancels>>

\* They have not within 15 s: they are cancelled once more and left alone.
ReapTimeout ==
    /\ main = "reap" /\ Running({"http", "fatal"}) # {}
    /\ CancelTasks({"http", "fatal"})
    /\ main' = "yield"
    /\ UNCHANGED <<pool, flags, task, error, closeError, outcome, cancels>>

\* asyncio.sleep(0) after the second cancel.
Yielded ==
    /\ main = "yield"
    /\ LeaveServe
    /\ UNCHANGED <<pool, ready, shouldExit, forceExit, asked, error,
                   closeError, outcome, cancels>>

-----------------------------------------------------------------------------
(* Closing the engine *)

\* engine.close() has ended; what it raised is raised.
CloseOver ==
    /\ main = "close" /\ Ended("close")
    /\ Exit(IF task["close"] = "ok" THEN "ok" ELSE "closeFailed")
    /\ UNCHANGED <<pool, flags, task, asked, error, closeError, cancels>>

\* engine.close() takes longer than 15 s.
CloseTimeout ==
    /\ main = "close" /\ ~Ended("close") /\ pool # "up"
    /\ main' = "reapClose"
    /\ closeError' = "closeTimeout"
    /\ CancelTasks({"close"})
    /\ UNCHANGED <<pool, flags, task, error, outcome, cancels>>

\* The cancelled close task has ended ...
CloseReaped ==
    /\ main = "reapClose" /\ Ended("close")
    /\ Exit(closeError)
    /\ UNCHANGED <<pool, flags, task, asked, error, closeError, cancels>>

\* Mutant: the close task is cancelled until it ends.
CloseReapTimeout_Repeats ==
    /\ main = "reapClose" /\ ~Ended("close")
    /\ CancelTasks({"close"})
    /\ UNCHANGED <<main, pool, flags, task, error, closeError, outcome, cancels>>

\* ... or not within 15 s, and is cancelled once more ...
CloseReapTimeout ==
    /\ main = "reapClose" /\ ~Ended("close")
    /\ main' = "yieldClose"
    /\ CancelTasks({"close"})
    /\ UNCHANGED <<pool, flags, task, error, closeError, outcome, cancels>>

\* ... and left alone.
CloseYielded ==
    /\ main = "yieldClose"
    /\ Exit(closeError)
    /\ UNCHANGED <<pool, flags, task, asked, error, closeError, cancels>>

-----------------------------------------------------------------------------
(* serve() is cancelled from outside, at the await it is suspended at *)

Cancelled == cancels < MaxCancels /\ cancels' = cancels + 1

\* Mutant: create() stops its pool on errors only.
CancelLoad_KeepsPool ==
    /\ main \in LoadPcs /\ Cancelled
    /\ main' = "exited"
    /\ outcome' = "cancelled"
    /\ UNCHANGED <<pool, flags, task, asked, error, closeError>>

\* create() stops its pool and raises.
CancelLoad == main \in LoadPcs /\ Cancelled /\ StopPool("cancelled")

\* It no longer waits for the pool.
CancelStopPool ==
    /\ main = "stopPool" /\ Cancelled
    /\ main' = "exited"
    /\ outcome' = "cancelled"
    /\ UNCHANGED <<pool, flags, task, asked, error, closeError>>

\* _serve() stops its tasks without a time to drain.
CancelServe ==
    /\ main \in {"serve", "drain"} /\ Cancelled
    /\ ready' = FALSE
    /\ shouldExit' = TRUE
    /\ error' = "cancelled"
    /\ StartReap
    /\ UNCHANGED <<pool, forceExit, closeError, outcome>>

\* The tasks are no longer waited for; the engine still is.
CancelReap ==
    /\ main \in {"reap", "yield"} /\ Cancelled
    /\ error' = "cancelled"
    /\ LeaveServe
    /\ UNCHANGED <<pool, ready, shouldExit, forceExit, asked, closeError,
                   outcome>>

\* The close task is cancelled, and once more by _cancel_and_reap(), which waits
\* for it; a task that has ended in the same turn is not touched.
CancelClose ==
    /\ main = "close" /\ Cancelled
    /\ main' = "reapClose"
    /\ closeError' = "cancelled"
    /\ CancelTimes({"close"}, 2)
    /\ UNCHANGED <<pool, flags, task, error, outcome>>

\* The close task is no longer waited for.
CancelCloseReap ==
    /\ main \in {"reapClose", "yieldClose"} /\ Cancelled
    /\ Exit("cancelled")
    /\ UNCHANGED <<pool, flags, task, asked, error, closeError>>

-----------------------------------------------------------------------------
\* The close task takes its first step: engine.close() stops the pool.
CloseBegins ==
    /\ task["close"] = "running" /\ pool = "up" /\ asked["close"] = 0
    /\ pool' = "stopping"
    /\ UNCHANGED <<main, flags, task, asked, error, closeError, outcome, cancels>>

\* External: the tasks end by themselves, or when they are cancelled; a close
\* task that has not begun ends only by a cancellation.  A waiter for a fatal
\* error that returns is as bad as one that raises: "stopped unexpectedly".
TaskEnds(t) ==
    /\ task[t] = "running"
    /\ \E end \in Ends :
          /\ end = "cancelled" => asked[t] > 0
          /\ t = "close" /\ pool = "up" => end = "cancelled"
          /\ task' = [task EXCEPT ![t] = end]
          /\ pool' = IF t = "close" /\ end = "ok" THEN "stopped" ELSE pool
    /\ UNCHANGED <<main, flags, asked, error, closeError, outcome, cancels>>

MainStep ==
    \/ Wake \/ Drained \/ DrainTimeout \/ Reaped \/ ReapTimeout \/ Yielded
    \/ CloseBegins \/ CloseOver \/ CloseTimeout \/ CloseReaped
    \/ CloseReapTimeout \/ CloseYielded

CancelStep ==
    \/ CancelLoad \/ CancelStopPool \/ CancelServe \/ CancelReap
    \/ CancelClose \/ CancelCloseReap

Over == main = "exited" /\ UNCHANGED vars

Next ==
    \/ CreateFails \/ PoolStarts \/ Loads \/ LoadFails \/ PoolStopped
    \/ EngineCreated \/ ConstructionFails
    \/ Signal \/ MainStep \/ CancelStep
    \/ \E t \in Tasks : TaskEnds(t)
    \/ Over

\* The event loop wakes serve(), starts its tasks and fires its timers.  Nothing
\* is assumed of HTTP and the engine: they may drain and close, or not.
Spec == Init /\ [][Next]_vars /\ WF_vars(MainStep)

\* uvicorn ends once it has been asked to.
UvicornStops == WF_vars(shouldExit /\ TaskEnds("http"))

-----------------------------------------------------------------------------
TypeOK ==
    /\ main \in MainPcs
    /\ pool \in {"none", "up", "stopping", "stopped"}
    /\ ready \in BOOLEAN /\ handlers \in BOOLEAN
    /\ shouldExit \in BOOLEAN /\ forceExit \in BOOLEAN
    /\ task \in [Tasks -> {"none", "running"} \cup Ends]
    /\ asked \in [Tasks -> Nat]
    /\ asked["http"] <= 2 /\ asked["fatal"] <= 2
    /\ asked["close"] <= (IF closeError = "cancelled" THEN 3 ELSE 2)
    /\ error \in Errors
    /\ closeError \in {"none", "closeTimeout", "cancelled"}
    /\ outcome \in Outcomes
    /\ cancels \in 0..MaxCancels

\* /health says ready only while the server serves: not after a signal, not once
\* the end has been noticed, and always with the handlers in place that revoke it.
ReadyMeansServing == ready => main = "serve" /\ ~shouldExit /\ handlers

\* A pool that was started has been told to stop before serve() ends, on every
\* path: error while loading or composing, fatal error, signal, cancellation at
\* any await.  Only a cancellation in the very turn in which serve() starts to
\* close the engine can catch the close task before its first step.
PoolIsStopped ==
    main = "exited" /\ pool = "up" =>
        task["close"] # "none" /\ asked["close"] > 0 /\ cancels > 0

\* The engine is not closed under an HTTP server that nobody has told to stop:
\* it has ended or has been cancelled, twice unless serve() itself was cancelled.
HttpStopsFirst ==
    task["close"] # "none" /\ task["http"] = "running" =>
        asked["http"] = 2 \/ (asked["http"] = 1 /\ cancels > 0)

\* A fatal engine error that came before the waiter was cancelled, or a waiter
\* that stopped by itself, decides how serve() ends, also when HTTP ended in the
\* same turn and when closing fails; only a cancellation can take its place.
FatalDecidesOutcome ==
    main = "exited" /\ task["fatal"] \in {"ok", "error"} /\ asked["fatal"] = 0 =>
        outcome = "fatal" \/ (outcome = "cancelled" /\ cancels > 0)

\* After a fatal error serve() ends, even if HTTP never drains, ignores its
\* cancellation, and the engine never closes; after a signal it ends provided
\* that uvicorn does.
ServeEnds ==
    /\ task["fatal"] \in {"ok", "error"} ~> main = "exited"
    /\ UvicornStops => (shouldExit ~> main = "exited")
=============================================================================
