------------------------------- MODULE Companion -------------------------------
(***************************************************************************)
(* The preview companion (companions/botified, cli.py).  A host writes        *)
(* frames about what the user and the assistant say; run() turns them into     *)
(* one operation at a time, an operation opens, feeds, finishes or stops a     *)
(* speech session, and a session owns a player process.  A user message or a   *)
(* newer assistant turn pre-empts.  An action is the code between two awaits;  *)
(* while run() is between two of its own (pc = "loop") no other task runs.     *)
(*                                                                             *)
(* A provider is one turn of the assistant.  They are numbered in the order    *)
(* the host starts them, and each opens at most one session, which bears its   *)
(* number.                                                                     *)
(***************************************************************************)
EXTENDS Integers, FiniteSets, SequencesExt

CONSTANTS
    Turns,      \* bound: how many assistant turns the host starts
    MaxBacklog  \* bound: frames queued or pending

ASSUME CompanionAssumption == Turns \in Nat \ {0} /\ MaxBacklog \in Nat \ {0}

Providers == 1..Turns
None == 0

VARIABLES
    host,       \* external: where the host's stream of frames stands
    turn,       \* external: the provider the host is at
    queue,      \* queue
    pc,         \* where run() is: loop, wait, stopOp, stopSession, over
    held,       \* the frame run() dispatches when a pre-emption is over
    configured, \* configured
    pending,    \* pending_observations
    assembling, \* the assembler's provider_request_id
    op,         \* operation: its frame and where it is, or how it ended
    stop,       \* _TtsManager.cancel(): where the one in progress is
    active,     \* the manager's active session
    closed,     \* its closed flag
    broken,     \* its receiver has ended with an error
    drain,      \* its drain task
    player,     \* the player process of every session; "stopping" once it is
                \* terminated, "dropped" when then nobody waits for it any more
    interrupted \* history: the last turn a user message was taken up after

mainVars == <<pc, held, configured, pending, interrupted>>
sessionVars == <<active, closed, broken, drain>>
vars == <<host, turn, queue, mainVars, assembling, op, stop, sessionVars, player>>

Frame(kind, who) == [kind |-> kind, who |-> who]
NoFrame == Frame("none", None)
ResultKinds == {"ok", "refused"}
EndKinds == {"eof", "broken"}
TextKinds == {"part", "tail", "text"}
ObserveKinds == TextKinds \cup {"user", "done", "error"}
Frames == [kind : ResultKinds \cup EndKinds \cup ObserveKinds, who : Providers \cup {None}]

Op(frame, at) == [frame |-> frame, at |-> at]
NoOp == Op(NoFrame, "none")
OpDone == {"ok", "failed", "misfed", "cancelled"}
DrainDone == {"ok", "failed"}

Init ==
    /\ host = "new"
    /\ turn = None
    /\ queue = <<>>
    /\ pc = "loop"
    /\ held = NoFrame
    /\ configured = FALSE
    /\ pending = <<>>
    /\ assembling = None
    /\ op = NoOp
    /\ stop = "none"
    /\ active = None
    /\ closed = FALSE
    /\ broken = FALSE
    /\ drain = "none"
    /\ player = [p \in Providers |-> "none"]
    /\ interrupted = None

\* run() or an operation is in the middle of code without an await.
Busy ==
    \/ pc = "loop"
    \/ stop \in {"begin", "over", "raised"}
    \/ pc = "stopOp" /\ op = NoOp

-----------------------------------------------------------------------------
(* External: the host.  Its frames are in order: the observations of a turn one *)
(* after the other, in one piece or two, then done or error.  A user message or *)
(* the next turn may cut a turn off anywhere.                                   *)

Arrive(frame) ==
    /\ ~Busy /\ pc # "over"
    /\ Len(queue) + Len(pending) < MaxBacklog
    /\ queue' = Append(queue, frame)
    /\ UNCHANGED <<mainVars, assembling, op, stop, sessionVars, player>>

HostConfigures ==
    /\ host = "new"
    /\ \/ host' = "idle" /\ Arrive(Frame("ok", None))
       \/ host' = "closed" /\ Arrive(Frame("refused", None))
    /\ UNCHANGED turn

HostUser ==
    /\ host \in {"idle", "open", "half"}
    /\ host' = "idle"
    /\ Arrive(Frame("user", turn))
    /\ UNCHANGED turn

\* The next observation, of this turn or of a new one, whole or its first part.
HostText ==
    /\ \/ host = "open" /\ turn' = turn
       \/ host \in {"idle", "open", "half"} /\ turn < Turns /\ turn' = turn + 1
    /\ \/ host' = "open" /\ Arrive(Frame("text", turn'))
       \/ host' = "half" /\ Arrive(Frame("part", turn'))

HostTail ==
    /\ host = "half"
    /\ host' = "open"
    /\ Arrive(Frame("tail", turn))
    /\ UNCHANGED turn

HostTurnEnds ==
    /\ \/ host = "open" /\ Arrive(Frame("done", turn))
       \/ host \in {"open", "half"} /\ Arrive(Frame("error", turn))
    /\ host' = "idle"
    /\ UNCHANGED turn

HostCloses ==
    /\ host # "closed"
    /\ host' = "closed"
    /\ \E kind \in EndKinds : Arrive(Frame(kind, None))
    /\ UNCHANGED turn

HostStep ==
    \/ HostConfigures \/ HostUser \/ HostText \/ HostTail \/ HostTurnEnds
    \/ HostCloses

-----------------------------------------------------------------------------
(* External: the player processes and the server's end of a session. *)

\* It exits by itself, or after it was terminated.
PlayerExits(p) ==
    /\ ~Busy
    /\ player[p] \in {"playing", "stopping", "dropped"}
    /\ player' = [player EXCEPT ![p] = "gone"]
    /\ UNCHANGED <<host, turn, queue, mainVars, assembling, op, stop, sessionVars>>

\* The receiver ends with an error: connection lost, error event, bad event.
ReceiverFails ==
    /\ ~Busy
    /\ active # None /\ ~closed /\ ~broken /\ drain = "none"
    /\ broken' = TRUE
    /\ UNCHANGED <<host, turn, queue, mainVars, assembling, op, stop, active,
                   closed, drain, player>>

-----------------------------------------------------------------------------
(* _TtsManager.cancel().  It is run by the operation, or by run() when there is *)
(* no operation left; both wait at stop.                                        *)

Terminate(p) ==
    [player EXCEPT ![p] = IF @ = "playing" THEN "stopping" ELSE @]

\* Nothing to stop, the result of a drain that is over, or a session to stop.
StopBegins ==
    /\ stop = "begin"
    /\ \/ active = None /\ stop' = "over" /\ UNCHANGED active
       \/ /\ active # None /\ drain \in DrainDone
          /\ stop' = IF drain = "ok" THEN "over" ELSE "raised"
          /\ active' = None
       \/ /\ active # None /\ drain \notin DrainDone
          /\ stop' = IF closed THEN "drain" ELSE "send"
          /\ UNCHANGED active
    /\ UNCHANGED <<host, turn, queue, mainVars, assembling, op, closed, broken,
                   drain, player>>

\* The cancel message is out, or could not be sent.  _abort() terminates the
\* player, unless the drain task's _abort() was first.
StopSent ==
    /\ ~Busy
    /\ stop = "send"
    /\ stop' = IF closed THEN "drain" ELSE "player"
    /\ closed' = TRUE
    /\ player' = IF closed THEN player ELSE Terminate(active)
    /\ UNCHANGED <<host, turn, queue, mainVars, assembling, op, active, broken,
                   drain>>

\* Mutant: the player is terminated but not waited for.
StopPlayerGone_NotAwaited ==
    /\ ~Busy
    /\ stop = "player"
    /\ stop' = "drain"
    /\ UNCHANGED <<host, turn, queue, mainVars, assembling, op, sessionVars,
                   player>>

\* The player has ended, by itself or killed after 2 s.
StopPlayerGone ==
    /\ ~Busy
    /\ stop = "player" /\ player[active] = "gone"
    /\ stop' = "drain"
    /\ UNCHANGED <<host, turn, queue, mainVars, assembling, op, sessionVars,
                   player>>

\* The drain task, if there is one, is over too.
StopOver ==
    /\ ~Busy
    /\ stop = "drain" /\ drain \in DrainDone \cup {"none"}
    /\ stop' = "over"
    /\ active' = None
    /\ UNCHANGED <<host, turn, queue, mainVars, assembling, op, closed, broken,
                   drain, player>>

StopStep == StopBegins \/ StopSent \/ StopPlayerGone \/ StopOver

-----------------------------------------------------------------------------
(* The drain task: _TtsSession.finish() *)

\* The server has said done and the player has played everything.
DrainPlayedOut ==
    /\ ~Busy /\ drain = "running" /\ ~closed
    /\ drain' = "ok"
    /\ closed' = TRUE
    /\ player' = [player EXCEPT ![active] = "gone"]
    /\ UNCHANGED <<host, turn, queue, mainVars, assembling, op, stop, active,
                   broken>>

\* The session fails while it drains: the task's own _abort().
DrainFails ==
    /\ ~Busy /\ drain = "running" /\ ~closed
    /\ drain' = "aborting"
    /\ closed' = TRUE
    /\ player' = Terminate(active)
    /\ UNCHANGED <<host, turn, queue, mainVars, assembling, op, stop, active,
                   broken>>

\* The player is gone, or the one who stopped the session has let it go.
DrainOver ==
    /\ ~Busy
    /\ \/ drain = "aborting" /\ player[active] = "gone"
       \/ drain = "running" /\ closed /\ (player[active] = "gone" \/ stop # "player")
    /\ drain' = "failed"
    /\ UNCHANGED <<host, turn, queue, mainVars, assembling, op, stop, active,
                   closed, broken, player>>

DrainStep == DrainPlayedOut \/ DrainFails \/ DrainOver

-----------------------------------------------------------------------------
(* An operation: _handle_observe(frame) *)

OpEnds(at) == op' = [op EXCEPT !.at = at]

\* The assembler takes a first part of an observation only after the last one is
\* complete, and a tail only of the one it is at; a complete text is appended.
FeedRefused(frame) ==
    IF frame.kind = "tail" THEN assembling # frame.who ELSE assembling # None

\* Mutant: the session of an older turn is not stopped.
Appends_NextToOld(frame) ==
    IF active = frame.who
      THEN OpEnds(IF drain = "none" THEN "append" ELSE "failed") /\ UNCHANGED stop
      ELSE OpEnds("open") /\ UNCHANGED stop

\* append(): to its own session, unless that drains; else the old one is stopped
\* first and a new one opened.
Appends(frame) ==
    IF active = frame.who
      THEN OpEnds(IF drain = "none" THEN "append" ELSE "failed") /\ UNCHANGED stop
      ELSE OpEnds("stop") /\ stop' = "begin"

OpText ==
    /\ ~Busy /\ op.at = "new" /\ op.frame.kind \in TextKinds
    /\ IF FeedRefused(op.frame)
         THEN OpEnds("misfed") /\ UNCHANGED <<assembling, stop>>
         ELSE /\ assembling' = IF op.frame.kind = "part" THEN op.frame.who ELSE None
              /\ IF op.frame.kind = "part"
                   THEN OpEnds("ok") /\ UNCHANGED stop
                   ELSE Appends(op.frame)
    /\ UNCHANGED <<host, turn, queue, mainVars, sessionVars, player>>

\* finish() starts the drain task of its session; a user message stops whatever
\* is spoken, an error only its own session.
OpOther ==
    /\ ~Busy /\ op.at = "new" /\ op.frame.kind \notin TextKinds
    /\ assembling' = None
    /\ IF op.frame.kind = "user" \/ (op.frame.kind = "error" /\ active = op.frame.who)
         THEN OpEnds("stop") /\ stop' = "begin"
         ELSE OpEnds("ok") /\ UNCHANGED stop
    /\ drain' = IF op.frame.kind = "done" /\ active = op.frame.who /\ drain = "none"
                  THEN "running" ELSE drain
    /\ UNCHANGED <<host, turn, queue, mainVars, active, closed, broken, player>>

\* What it stopped is stopped, or the old drain task raises its error.
OpStopped ==
    /\ op.at = "stop" /\ stop \in {"over", "raised"}
    /\ stop' = "none"
    /\ OpEnds(IF pc = "stopOp" THEN "cancelled"
              ELSE IF stop = "raised" THEN "failed"
              ELSE IF op.frame.kind \in TextKinds THEN "open" ELSE "ok")
    /\ UNCHANGED <<host, turn, queue, mainVars, assembling, sessionVars, player>>

\* Connection, start, ready and player are there; then the text is sent.
OpOpens ==
    /\ ~Busy /\ op.at = "open"
    /\ OpEnds("append")
    /\ active' = op.frame.who
    /\ closed' = FALSE /\ broken' = FALSE /\ drain' = "none"
    /\ player' = [player EXCEPT ![op.frame.who] = "playing"]
    /\ UNCHANGED <<host, turn, queue, mainVars, assembling, stop>>

\* The text is sent; or it is not, or the session could not be opened.
OpSends ==
    /\ ~Busy /\ op.at \in {"open", "append"}
    /\ \/ op.at = "append" /\ OpEnds("ok")
       \/ OpEnds("failed")
    /\ UNCHANGED <<host, turn, queue, mainVars, assembling, stop, sessionVars, player>>

OpStep == OpText \/ OpOther \/ OpStopped \/ OpOpens \/ OpSends

-----------------------------------------------------------------------------
(* run() *)

\* The wait for a terminated player is cancelled: it is not killed after 2 s.
Drop(p) ==
    [player EXCEPT ![p] = IF @ = "stopping" THEN "dropped" ELSE @]

\* operation.cancel().  A new operation never runs.  One that waits for a player
\* lets it go, terminated but no longer to be killed, and waits for the drain
\* task; one that waits for the drain task cancels that.  One that is sending the
\* cancel message goes on with the rest of the stop.
CancelOperation ==
    \/ /\ op.at \in {"new", "open", "append"}
       /\ OpEnds("cancelled") /\ UNCHANGED <<stop, active, drain, player>>
    \/ /\ op.at = "stop" /\ stop = "player" /\ drain = "none"
       /\ OpEnds("cancelled") /\ stop' = "none" /\ active' = None
       /\ player' = Drop(active)
       /\ UNCHANGED drain
    \/ /\ op.at = "stop" /\ stop = "player" /\ drain # "none"
       /\ stop' = "drain" /\ player' = Drop(active)
       /\ UNCHANGED <<op, active, drain>>
    \/ /\ op.at = "stop" /\ stop = "drain"
       /\ OpEnds("cancelled") /\ stop' = "none" /\ active' = None
       /\ drain' = IF drain = "none" THEN "none" ELSE "failed"
       /\ player' = Drop(active)
    \/ /\ op = NoOp \/ op.at \in OpDone \/ (op.at = "stop" /\ stop = "send")
       /\ UNCHANGED <<op, stop, active, drain, player>>

\* Before it pre-empts with a frame, or ends, run() stops everything.
Stops(frame) ==
    /\ pc' = "stopOp"
    /\ held' = frame
    /\ CancelOperation
    /\ UNCHANGED <<configured, pending>>

\* The session's watcher or its drain task is done; only looked at without an
\* operation.
MonitorDone ==
    /\ op = NoOp /\ active # None
    /\ IF drain = "none" THEN broken \/ player[active] = "gone" ELSE drain \in DrainDone

\* What ended since: an error of it ends run().
ErrorCollected ==
    \/ op.at \in {"failed", "misfed"}
    \/ MonitorDone /\ drain # "ok"

OperationProvider == IF op.frame.kind = "user" THEN None ELSE op.frame.who

ActiveProvider ==
    IF OperationProvider # None THEN OperationProvider
    ELSE IF assembling # None THEN assembling ELSE active

Preempts(frame) ==
    /\ configured
    /\ \/ frame.kind = "user"
       \/ /\ ActiveProvider # None
          /\ \/ frame.kind \in TextKinds /\ frame.who # ActiveProvider
             \/ frame.kind = "error" /\ frame.who = ActiveProvider

\* Start an observation, or put it behind those that wait.
Dispatch(frame) ==
    LET running == op.at \notin OpDone \cup {"none"}
        next == IF running THEN op ELSE NoOp
        observes == configured /\ frame.kind \in ObserveKinds
    IN /\ pc' = "loop"
       /\ configured' = (configured \/ frame.kind = "ok")
       /\ op' = IF observes /\ ~running /\ pending = <<>> THEN Op(frame, "new") ELSE next
       /\ pending' = IF observes /\ (running \/ pending # <<>>)
                       THEN Append(pending, frame) ELSE pending
       /\ active' = IF MonitorDone THEN None ELSE active
       /\ UNCHANGED <<held, stop, drain, player>>

\* The queue is empty: the next pending observation starts, and run() waits.
Waits ==
    /\ pc = "loop" /\ queue = <<>>
    /\ pc' = "wait"
    /\ IF op = NoOp /\ pending # <<>>
         THEN op' = Op(Head(pending), "new") /\ pending' = Tail(pending)
         ELSE UNCHANGED <<op, pending>>
    /\ UNCHANGED <<host, turn, queue, held, configured, interrupted, assembling,
                   stop, sessionVars, player>>

\* Mutant: with an operation in flight only its end is waited for.
Woken_ByOperation ==
    (queue # <<>> /\ op.at \in OpDone \cup {"none"}) \/ op.at \in OpDone \/ MonitorDone

Woken == queue # <<>> \/ op.at \in OpDone \/ MonitorDone

\* A turn of the loop takes up a frame: the end of the input, a pre-emption, the
\* result of what has ended, or just the frame.
TakesUp(frame) ==
    /\ \/ frame.kind \in EndKinds /\ Stops(NoFrame)
       \/ frame.kind \notin EndKinds /\ Preempts(frame) /\ Stops(frame)
       \/ /\ frame.kind \notin EndKinds /\ ~Preempts(frame)
          /\ IF ErrorCollected \/ frame.kind = "refused"
               THEN Stops(NoFrame)
               ELSE Dispatch(frame)
    /\ interrupted' = IF configured /\ frame.kind = "user" THEN frame.who ELSE interrupted

\* It takes the next frame if there is one, else it looks at what has ended.
LoopTurn ==
    /\ \/ pc = "loop" /\ queue # <<>>
       \/ pc = "wait" /\ ~Busy /\ Woken
    /\ queue' = IF queue = <<>> THEN queue ELSE Tail(queue)
    /\ TakesUp(IF queue = <<>> THEN NoFrame ELSE Head(queue))
    /\ UNCHANGED <<host, turn, assembling, closed, broken>>

\* run() is cancelled from outside while it waits for a frame.
RunCancelled ==
    /\ pc = "wait" /\ ~Busy
    /\ Stops(NoFrame)
    /\ UNCHANGED <<host, turn, queue, interrupted, assembling, closed, broken>>

\* Mutant: the cancelled operation is not waited for.
StopsSession_AtOnce ==
    /\ pc = "stopOp"
    /\ pc' = "stopSession"
    /\ stop' = "begin"
    /\ UNCHANGED <<host, turn, queue, held, configured, pending, interrupted,
                   assembling, op, sessionVars, player>>

\* The operation has ended: the session is stopped.
StopsSession ==
    /\ pc = "stopOp" /\ op.at \in OpDone \cup {"none"}
    /\ pc' = "stopSession"
    /\ stop' = "begin"
    /\ UNCHANGED <<host, turn, queue, held, configured, pending, interrupted,
                   assembling, op, sessionVars, player>>

\* Mutant: what was pending before the pre-emption stays pending.
Preempted_KeepsPending ==
    /\ pc = "stopSession" /\ stop = "over" /\ held # NoFrame
    /\ pc' = "loop"
    /\ held' = NoFrame
    /\ stop' = "none"
    /\ op' = Op(held, "new")
    /\ assembling' = None
    /\ UNCHANGED <<host, turn, queue, configured, pending, interrupted, sessionVars,
                   player>>

\* All is stopped: what was pending or half assembled goes, the frame starts.
Preempted ==
    /\ pc = "stopSession" /\ stop = "over" /\ held # NoFrame
    /\ pc' = "loop"
    /\ held' = NoFrame
    /\ stop' = "none"
    /\ op' = Op(held, "new")
    /\ pending' = <<>>
    /\ assembling' = None
    /\ UNCHANGED <<host, turn, queue, configured, interrupted, sessionVars, player>>

\* run() returns or raises, the latter also when a pre-empted drain had failed.
Exits ==
    /\ pc = "stopSession" /\ stop \in {"over", "raised"}
    /\ stop = "raised" \/ held = NoFrame
    /\ pc' = "over"
    /\ held' = NoFrame
    /\ stop' = "none"
    /\ op' = NoOp
    /\ queue' = <<>> /\ pending' = <<>>
    /\ UNCHANGED <<host, turn, configured, interrupted, assembling, sessionVars, player>>

RunStep == Waits \/ LoopTurn \/ StopsSession \/ Preempted \/ Exits

Over == pc = "over" /\ UNCHANGED vars

Next ==
    \/ HostStep \/ ReceiverFails \/ \E p \in Providers : PlayerExits(p)
    \/ StopStep \/ DrainStep \/ OpStep \/ RunStep \/ RunCancelled
    \/ Over

\* run() and the stop of a session go on; a player that is waited for after its
\* termination is killed after 2 s.  The server owes nothing: a session may never
\* open, a text may never be taken, a drain may never end.
KilledPlayerExits ==
    /\ stop = "player" \/ drain = "aborting"
    /\ \E p \in {active} \ {None} : PlayerExits(p)

Spec ==
    /\ Init /\ [][Next]_vars
    /\ WF_vars(RunStep) /\ WF_vars(StopStep) /\ WF_vars(OpStopped)
    /\ WF_vars(DrainOver) /\ WF_vars(KilledPlayerExits)

-----------------------------------------------------------------------------
TypeOK ==
    /\ host \in {"new", "idle", "open", "half", "closed"}
    /\ turn \in 0..Turns
    /\ queue \in Seq(Frames) /\ pending \in Seq(Frames)
    /\ Len(queue) + Len(pending) <= MaxBacklog
    /\ pc \in {"loop", "wait", "stopOp", "stopSession", "over"}
    /\ held \in Frames \cup {NoFrame}
    /\ configured \in BOOLEAN
    /\ assembling \in 0..Turns
    /\ op.frame \in Frames \cup {NoFrame}
    /\ op.at \in {"none", "new", "stop", "open", "append"} \cup OpDone
    /\ stop \in {"none", "begin", "send", "player", "drain", "over", "raised"}
    /\ stop # "none" <=> op.at = "stop" \/ pc = "stopSession"
    /\ active \in 0..Turns
    /\ closed \in BOOLEAN /\ broken \in BOOLEAN
    /\ drain \in {"none", "running", "aborting"} \cup DrainDone
    /\ player \in [Providers -> {"none", "playing", "stopping", "dropped", "gone"}]
    /\ interrupted \in 0..Turns

\* Two turns are never heard at once, however operations, drains and
\* pre-emptions overlap: a player that was told to stop has ended before the next
\* starts, unless the operation that waited for it was cancelled.
OnePlayer ==
    Cardinality({p \in Providers : player[p] \in {"playing", "stopping"}}) <= 1

\* Once a user message has been taken up and what it interrupts is stopped,
\* nothing of an earlier turn is heard again, from no operation in flight and no
\* pending observation; and after the end of run() nothing is heard at all.
NothingOldSpoken ==
    \A p \in Providers :
        player[p] = "playing" /\ (p <= interrupted \/ pc = "over") =>
            pc \in {"stopOp", "stopSession"}

\* A user message that has arrived silences what was spoken before it, for good,
\* also when the server hangs in whatever it was asked.
InterruptStops ==
    \A turns \in Providers :
        (\E i \in DOMAIN queue : queue[i] = Frame("user", turns))
            ~> [](\A p \in 1..turns : player[p] # "playing")

\* What the test of provider replacement says: an observation that is cut off by
\* a new turn is forgotten.  Then an orderly host never makes the assembler fail.
AssemblerNeverFails == op.at # "misfed"
=============================================================================
