---------------------------- MODULE StreamSession ----------------------------
(***************************************************************************)
(* The WebSocket speech sessions of src/botified_tts/streaming.py.  Each   *)
(* session is one run() coroutine that, once admitted, owns two asyncio    *)
(* tasks: the receive loop (client messages, segmenter, timers) and the    *)
(* generate task (segment queue -> engine stream -> websocket).  Sessions  *)
(* share the admission counter of app.py.                                  *)
(*                                                                         *)
(* asyncio is cooperative: an action is the code between two awaits.  A    *)
(* task.cancel() is modelled by moving the task at once to the state it    *)
(* unwinds to, because nothing of the task's body can run between the      *)
(* cancel() and the CancelledError.  Text is counted in units: an append   *)
(* adds some, the segmenter cuts the accepted text into intervals.         *)
(***************************************************************************)
EXTENDS Naturals, Sequences, FiniteSets

CONSTANTS Sessions,  \* the websocket connections
          Limit,     \* max_num_seqs, the admission limit of _Admission
          MaxText,   \* the session text limit, in units of text
          MaxPcm     \* bound: PCM chunks the engine yields per segment

ASSUME LimitAssumption   == Limit \in Nat \ {0}
ASSUME SessionAssumption == IsFiniteSet(Sessions)
ASSUME BoundAssumption   == MaxText \in Nat \ {0} /\ MaxPcm \in Nat \ {0}

VARIABLES active,    \* _Admission._active
          run,       \* where run() is suspended
          holds,     \* the local "acquired" of run()
          terminal,  \* the terminal frame run() has decided on
          termSent,  \* the terminal frame has been written to the socket
          conn,      \* "up", or "gone" once the client has disconnected
          recv,      \* the receive task: running, or how it ended
          accepted,  \* accepted_bytes, in units
          cut,       \* units the segmenter has already given out
          segTimer,  \* segment_deadline is not None
          expired,   \* Segmenter._deadline_expired
          finished,  \* finish_event
          stopped,   \* cancel_event
          queue,     \* the asyncio.Queue between the two tasks
          gen,       \* where the generate task is suspended
          genOut,    \* how the generate task ends, once that is decided
          seg,       \* the segment the engine is speaking
          pcm,       \* chunks of seg already written to the socket
          heard,     \* the segments spoken completely, in order (history)
          req        \* the engine request: "idle", "live" or "closing"

textVars == <<accepted, cut, segTimer, expired, finished>>
runVars  == <<active, run, holds, terminal, termSent>>
recvVars == <<conn, recv, textVars>>
genVars  == <<gen, genOut, seg, pcm, heard, req>>
vars == <<runVars, recvVars, stopped, queue, genVars>>

Segments == [from : 0..MaxText, to : 0..MaxText]
\* _SEGMENT_END and "no segment": an interval no segment of text can be.
END == [from |-> 0, to |-> 0]

RecvRuns == {"none", "run"}
RecvEnds == {"stopped", "cancel", "too_large", "invalid", "disc"}
GenEnds  == {"ok", "slow", "invalid", "error", "disc", "cancelled"}
Verdicts == {"done", "cancelled", "slow", "too_large", "invalid", "error",
             "busy", "rejected", "disc"}
\* Suspension points of the generate task.
GenPcs   == {"none", "prepare", "wait", "engine", "send", "unwind",
             "closing", "done"}
RunPcs   == {"first", "ready", "coord", "stopGen", "finRecv", "finGen",
             "terminal", "close", "ended"}

Init ==
    /\ active = 0
    /\ run = [s \in Sessions |-> "first"]
    /\ holds = [s \in Sessions |-> FALSE]
    /\ terminal = [s \in Sessions |-> "none"]
    /\ termSent = [s \in Sessions |-> FALSE]
    /\ conn = [s \in Sessions |-> "up"]
    /\ recv = [s \in Sessions |-> "none"]
    /\ accepted = [s \in Sessions |-> 0]
    /\ cut = [s \in Sessions |-> 0]
    /\ segTimer = [s \in Sessions |-> FALSE]
    /\ expired = [s \in Sessions |-> FALSE]
    /\ finished = [s \in Sessions |-> FALSE]
    /\ stopped = [s \in Sessions |-> FALSE]
    /\ queue = [s \in Sessions |-> <<>>]
    /\ gen = [s \in Sessions |-> "none"]
    /\ genOut = [s \in Sessions |-> "ok"]
    /\ seg = [s \in Sessions |-> END]
    /\ pcm = [s \in Sessions |-> 0]
    /\ heard = [s \in Sessions |-> <<>>]
    /\ req = [s \in Sessions |-> "idle"]

-----------------------------------------------------------------------------
(* Shared pieces of the coroutines. *)

RecvDone(s) == recv[s] \in RecvEnds

\* finally: of run() writes the terminal frame (best effort) and then waits
\* for the write to drain; a disconnected client gets none.
EnterTerminal(s, verdict) ==
    /\ run' = [run EXCEPT ![s] = "terminal"]
    /\ terminal' = [terminal EXCEPT ![s] = verdict]
    /\ termSent' = [termSent EXCEPT ![s] = verdict # "disc" /\ conn[s] = "up"]

\* The effect of generate_task.cancel(): CancelledError is raised at the
\* await where the task is suspended.  Inside the engine it first unwinds
\* through raw_stream.aclose(); a second cancel may interrupt that.
CancelGen(s) ==
    \/ /\ gen[s] \in {"prepare", "wait"}
       /\ gen' = [gen EXCEPT ![s] = "closing"]
       /\ genOut' = [genOut EXCEPT ![s] = "cancelled"]
       /\ req' = req
    \/ /\ gen[s] = "engine"
       /\ gen' = [gen EXCEPT ![s] = "unwind"]
       /\ genOut' = [genOut EXCEPT ![s] = "cancelled"]
       /\ req' = [req EXCEPT ![s] = "closing"]
    \/ /\ gen[s] = "send"
       /\ gen' = [gen EXCEPT ![s] = "closing"]
       /\ genOut' = [genOut EXCEPT ![s] = "cancelled"]
       /\ req' = [req EXCEPT ![s] = "closing"]
    \/ /\ gen[s] = "unwind"
       /\ \E pc \in {"unwind", "closing"} : gen' = [gen EXCEPT ![s] = pc]
       /\ genOut' = [genOut EXCEPT ![s] = "cancelled"]
       /\ req' = req
    \/ /\ gen[s] = "closing"
       /\ gen' = [gen EXCEPT ![s] = "done"]
       /\ genOut' = [genOut EXCEPT ![s] = "cancelled"]
       /\ req' = req
    \/ /\ gen[s] = "done"
       /\ UNCHANGED <<gen, genOut, req>>

\* Entering finally: cancel_event.set() and receive_task.cancel() come
\* before its first await.
EnterFinally(s, verdict) ==
    /\ run' = [run EXCEPT ![s] = "finRecv"]
    /\ terminal' = [terminal EXCEPT ![s] = verdict]
    /\ stopped' = [stopped EXCEPT ![s] = TRUE]
    /\ recv' = [recv EXCEPT ![s] = IF @ = "run" THEN "stopped" ELSE @]

-----------------------------------------------------------------------------
(* run(): handshake. *)

\* The session ends before a slot is taken: authorization or readiness
\* refused, 60 s without a first message, a first message that is not a
\* valid start, or the client left.
EndBeforeStart(s) ==
    /\ run[s] = "first"
    /\ \E verdict \in {"rejected", "cancelled", "invalid", "too_large", "disc"} :
          /\ (verdict = "disc") => (conn[s] = "gone")
          /\ EnterTerminal(s, verdict)
    /\ UNCHANGED <<active, holds, recvVars, stopped, queue, genVars>>

\* A start arrives while every slot is taken: service_busy.
StartBusy(s) ==
    /\ run[s] = "first" /\ conn[s] = "up"
    /\ active >= Limit
    /\ EnterTerminal(s, "busy")
    /\ UNCHANGED <<active, holds, recvVars, stopped, queue, genVars>>

\* Mutant: the limit is not looked at.
StartAdmitted_Unchecked(s) ==
    /\ run[s] = "first" /\ conn[s] = "up"
    /\ active' = active + 1
    /\ holds' = [holds EXCEPT ![s] = TRUE]
    /\ run' = [run EXCEPT ![s] = "ready"]
    /\ UNCHANGED <<terminal, termSent, recvVars, stopped, queue, genVars>>

\* A start arrives and try_acquire() succeeds.
StartAdmitted(s) ==
    /\ run[s] = "first" /\ conn[s] = "up"
    /\ active < Limit
    /\ active' = active + 1
    /\ holds' = [holds EXCEPT ![s] = TRUE]
    /\ run' = [run EXCEPT ![s] = "ready"]
    /\ UNCHANGED <<terminal, termSent, recvVars, stopped, queue, genVars>>

\* The ready frame is out: both tasks are created.
SendReady(s) ==
    /\ run[s] = "ready"
    /\ run' = [run EXCEPT ![s] = "coord"]
    /\ recv' = [recv EXCEPT ![s] = "run"]
    /\ gen' = [gen EXCEPT ![s] = "prepare"]
    /\ UNCHANGED <<active, holds, terminal, termSent, conn, textVars, stopped,
                   queue, genOut, seg, pcm, heard, req>>

\* The ready frame does not drain in 5 s, or the client is gone.
ReadyFails(s) ==
    /\ run[s] = "ready"
    /\ \E verdict \in {"slow", "disc"} :
          /\ (verdict = "disc") => (conn[s] = "gone")
          /\ EnterTerminal(s, verdict)
    /\ stopped' = [stopped EXCEPT ![s] = TRUE]
    /\ UNCHANGED <<active, holds, recvVars, queue, genVars>>

-----------------------------------------------------------------------------
(* The receive loop. *)

\* Mutant: the segments of one append are queued in the wrong order.
Cuts_Swapped(old, mid, new) ==
    LET Piece(a, b) == IF a < b THEN << [from |-> a, to |-> b] >> ELSE <<>>
    IN  Piece(mid, new) \o Piece(old, mid)

\* Between 0 and 2 segments leave the segmenter: the accepted text up to
\* mid, then up to new.
Cuts(old, mid, new) ==
    LET Piece(a, b) == IF a < b THEN << [from |-> a, to |-> b] >> ELSE <<>>
    IN  Piece(old, mid) \o Piece(mid, new)

\* An append within the text limit.  The segmenter may give out segments
\* (a regular cut, or a deadline cut if the deadline has expired); the
\* deadline is then re-armed for what is left, or armed for new text.
Append_(s) ==
    /\ recv[s] = "run" /\ conn[s] = "up" /\ ~finished[s]
    /\ \E total \in accepted[s]..MaxText : \E mid, new \in cut[s]..total :
          /\ mid <= new
          /\ total = accepted[s] => new = cut[s]
          /\ accepted' = [accepted EXCEPT ![s] = total]
          /\ cut' = [cut EXCEPT ![s] = new]
          /\ queue' = [queue EXCEPT ![s] = @ \o Cuts(cut[s], mid, new)]
          /\ IF new > cut[s]
               THEN /\ expired' = [expired EXCEPT ![s] = FALSE]
                    /\ segTimer' = [segTimer EXCEPT ![s] = new < total]
               ELSE /\ segTimer' = IF new < total /\ ~expired[s]
                                     THEN [segTimer EXCEPT ![s] = TRUE]
                                     ELSE segTimer
                    /\ UNCHANGED expired
    /\ UNCHANGED <<runVars, conn, recv, finished, stopped, genVars>>

\* Mutant: the deadline is not re-armed for the text that remains.
SegmentDeadline_NotRearmed(s) ==
    /\ recv[s] = "run" /\ ~finished[s] /\ segTimer[s]
    /\ \E new \in cut[s]..accepted[s] :
          /\ cut' = [cut EXCEPT ![s] = new]
          /\ queue' = [queue EXCEPT ![s] = @ \o Cuts(cut[s], cut[s], new)]
          /\ expired' = [expired EXCEPT
                ![s] = new = cut[s] /\ cut[s] < accepted[s]]
          /\ segTimer' = [segTimer EXCEPT ![s] = FALSE]
    /\ UNCHANGED <<runVars, conn, recv, accepted, finished, stopped, genVars>>

\* segment_deadline passes: expire_deadline() cuts (long enough text) or
\* remembers that the deadline has expired (short text).
SegmentDeadline(s) ==
    /\ recv[s] = "run" /\ ~finished[s] /\ segTimer[s]
    /\ \E new \in cut[s]..accepted[s] :
          /\ cut' = [cut EXCEPT ![s] = new]
          /\ queue' = [queue EXCEPT ![s] = @ \o Cuts(cut[s], cut[s], new)]
          /\ expired' = [expired EXCEPT
                ![s] = new = cut[s] /\ cut[s] < accepted[s]]
          /\ segTimer' = [segTimer EXCEPT
                ![s] = new > cut[s] /\ new < accepted[s]]
    /\ UNCHANGED <<runVars, conn, recv, accepted, finished, stopped, genVars>>

\* Flush: all pending text leaves as one segment.
Flush(s) ==
    /\ recv[s] = "run" /\ conn[s] = "up" /\ ~finished[s]
    /\ cut' = [cut EXCEPT ![s] = accepted[s]]
    /\ queue' = [queue EXCEPT ![s] = @ \o Cuts(cut[s], cut[s], accepted[s])]
    /\ expired' = [expired EXCEPT ![s] = FALSE]
    /\ segTimer' = [segTimer EXCEPT ![s] = FALSE]
    /\ UNCHANGED <<runVars, conn, recv, accepted, finished, stopped, genVars>>

\* Mutant: the end marker is queued before the flushed text.
Finish_EndFirst(s) ==
    /\ recv[s] = "run" /\ conn[s] = "up" /\ ~finished[s]
    /\ cut' = [cut EXCEPT ![s] = accepted[s]]
    /\ queue' = [queue EXCEPT
          ![s] = Append(@, END) \o Cuts(cut[s], cut[s], accepted[s])]
    /\ expired' = [expired EXCEPT ![s] = FALSE]
    /\ segTimer' = [segTimer EXCEPT ![s] = FALSE]
    /\ finished' = [finished EXCEPT ![s] = TRUE]
    /\ UNCHANGED <<runVars, conn, recv, accepted, stopped, genVars>>

\* Mutant: finish_event is not set.
Finish_NoEvent(s) ==
    /\ recv[s] = "run" /\ conn[s] = "up" /\ ~finished[s]
    /\ cut' = [cut EXCEPT ![s] = accepted[s]]
    /\ queue' = [queue EXCEPT
          ![s] = Append(@ \o Cuts(cut[s], cut[s], accepted[s]), END)]
    /\ expired' = [expired EXCEPT ![s] = FALSE]
    /\ segTimer' = [segTimer EXCEPT ![s] = FALSE]
    /\ UNCHANGED <<runVars, conn, recv, accepted, finished, stopped, genVars>>

\* Finish: flush, then the end marker; from now on the loop only drains.
Finish(s) ==
    /\ recv[s] = "run" /\ conn[s] = "up" /\ ~finished[s]
    /\ cut' = [cut EXCEPT ![s] = accepted[s]]
    /\ queue' = [queue EXCEPT
          ![s] = Append(@ \o Cuts(cut[s], cut[s], accepted[s]), END)]
    /\ expired' = [expired EXCEPT ![s] = FALSE]
    /\ segTimer' = [segTimer EXCEPT ![s] = FALSE]
    /\ finished' = [finished EXCEPT ![s] = TRUE]
    /\ UNCHANGED <<runVars, conn, recv, accepted, stopped, genVars>>

\* The receive loop returns "cancel": nothing more is to be generated.
ReturnCancel(s) ==
    /\ recv' = [recv EXCEPT ![s] = "cancel"]
    /\ stopped' = [stopped EXCEPT ![s] = TRUE]
    /\ queue' = [queue EXCEPT ![s] = <<>>]
    /\ UNCHANGED <<runVars, conn, textVars, genVars>>

\* A cancel message, before or after finish.
Cancel(s) == recv[s] = "run" /\ conn[s] = "up" /\ ReturnCancel(s)

\* 60 s without a message before finish.  A pending segment deadline (0.8 s)
\* comes first.
IdleTimeout(s) ==
    /\ recv[s] = "run" /\ ~finished[s] /\ ~segTimer[s]
    /\ ReturnCancel(s)

\* A message the protocol does not allow here ends the loop with an error:
\* a second start or malformed JSON, anything but cancel after finish, or an
\* append over the limit.
BadMessage(s) ==
    /\ recv[s] = "run" /\ conn[s] = "up"
    /\ \E out \in {"invalid", "too_large"} : recv' = [recv EXCEPT ![s] = out]
    /\ UNCHANGED <<runVars, conn, textVars, stopped, queue, genVars>>

\* The receive loop notices that the client has left.
RecvDisconnect(s) ==
    /\ recv[s] = "run" /\ conn[s] = "gone"
    /\ recv' = [recv EXCEPT ![s] = "disc"]
    /\ UNCHANGED <<runVars, conn, textVars, stopped, queue, genVars>>

\* External: the client closes the connection, at any time.
Disconnect(s) ==
    /\ conn[s] = "up" /\ run[s] # "ended"
    /\ conn' = [conn EXCEPT ![s] = "gone"]
    /\ UNCHANGED <<runVars, recv, textVars, stopped, queue, genVars>>

-----------------------------------------------------------------------------
(* The generate task. *)

\* synthesize() resolves the voice (and encodes it) before the first segment.
Prepare(s) ==
    /\ gen[s] = "prepare"
    /\ gen' = [gen EXCEPT ![s] = "wait"]
    /\ UNCHANGED <<runVars, recvVars, stopped, queue, genOut, seg, pcm, heard,
                   req>>

\* The voice does not exist or lacks a transcript, or encoding fails.
PrepareFails(s) ==
    /\ gen[s] = "prepare"
    /\ \E out \in {"invalid", "error"} : genOut' = [genOut EXCEPT ![s] = out]
    /\ gen' = [gen EXCEPT ![s] = "closing"]
    /\ UNCHANGED <<runVars, recvVars, stopped, queue, seg, pcm, heard, req>>

\* _segment_source hands the next segment to the engine.
TakeSegment(s) ==
    /\ gen[s] = "wait" /\ queue[s] # <<>> /\ Head(queue[s]) # END
    /\ seg' = [seg EXCEPT ![s] = Head(queue[s])]
    /\ queue' = [queue EXCEPT ![s] = Tail(@)]
    /\ gen' = [gen EXCEPT ![s] = "engine"]
    /\ pcm' = [pcm EXCEPT ![s] = 0]
    /\ req' = [req EXCEPT ![s] = "live"]
    /\ UNCHANGED <<runVars, recvVars, stopped, genOut, heard>>

\* _segment_source reaches the end marker: the stream ends by itself.
TakeEnd(s) ==
    /\ gen[s] = "wait" /\ queue[s] # <<>> /\ Head(queue[s]) = END
    /\ queue' = [queue EXCEPT ![s] = Tail(@)]
    /\ gen' = [gen EXCEPT ![s] = "closing"]
    /\ UNCHANGED <<runVars, recvVars, stopped, genOut, seg, pcm, heard, req>>

\* A PCM chunk arrives after cancel_event was set: the loop returns and
\* closes the stream instead of sending it.
PcmDropped(s) ==
    /\ gen[s] = "engine" /\ pcm[s] < MaxPcm /\ stopped[s]
    /\ gen' = [gen EXCEPT ![s] = "closing"]
    /\ req' = [req EXCEPT ![s] = "closing"]
    /\ UNCHANGED <<runVars, recvVars, stopped, queue, genOut, seg, pcm, heard>>

\* A PCM chunk is written to the socket; the task waits for it to drain.
PcmSent(s) ==
    /\ gen[s] = "engine" /\ pcm[s] < MaxPcm /\ ~stopped[s]
    /\ gen' = [gen EXCEPT ![s] = "send"]
    /\ pcm' = [pcm EXCEPT ![s] = @ + 1]
    /\ UNCHANGED <<runVars, recvVars, stopped, queue, genOut, seg, heard, req>>

\* The chunk has drained.
SendDone(s) ==
    /\ gen[s] = "send"
    /\ gen' = [gen EXCEPT ![s] = "engine"]
    /\ UNCHANGED <<runVars, recvVars, stopped, queue, genOut, seg, pcm, heard,
                   req>>

\* send_bytes fails: it does not drain in 5 s, or the client is gone.
SendFails(s) ==
    /\ gen[s] = "send"
    /\ \E out \in {"slow", "disc"} :
          /\ (out = "disc") => (conn[s] = "gone")
          /\ genOut' = [genOut EXCEPT ![s] = out]
    /\ gen' = [gen EXCEPT ![s] = "closing"]
    /\ req' = [req EXCEPT ![s] = "closing"]
    /\ UNCHANGED <<runVars, recvVars, stopped, queue, seg, pcm, heard>>

\* The engine completes the segment (after some audio).  _segment_source
\* looks at cancel_event before it waits for the next one.
SegmentComplete(s) ==
    /\ gen[s] = "engine" /\ pcm[s] > 0
    /\ heard' = [heard EXCEPT ![s] = Append(@, seg[s])]
    /\ req' = [req EXCEPT ![s] = "idle"]
    /\ gen' = [gen EXCEPT ![s] = IF stopped[s] THEN "closing" ELSE "wait"]
    /\ UNCHANGED <<runVars, recvVars, stopped, queue, genOut, seg, pcm>>

\* The engine raises, ends without audio or completion, or emits an item the
\* service rejects; in the last case its stream is still to be closed.
EngineFails(s) ==
    /\ gen[s] = "engine"
    /\ genOut' = [genOut EXCEPT ![s] = "error"]
    /\ \/ /\ gen' = [gen EXCEPT ![s] = "closing"]
          /\ req' = [req EXCEPT ![s] = "idle"]
       \/ /\ gen' = [gen EXCEPT ![s] = "unwind"]
          /\ req' = [req EXCEPT ![s] = "closing"]
    /\ UNCHANGED <<runVars, recvVars, stopped, queue, seg, pcm, heard>>

\* External: the pool has closed the stream.
EngineClosed(s) ==
    /\ req[s] = "closing"
    /\ req' = [req EXCEPT ![s] = "idle"]
    /\ UNCHANGED <<runVars, recvVars, stopped, queue, gen, genOut, seg, pcm,
                   heard>>

\* raw_stream.aclose() has returned and the exception travels on.
UnwindDone(s) ==
    /\ gen[s] = "unwind" /\ req[s] = "idle"
    /\ gen' = [gen EXCEPT ![s] = "closing"]
    /\ UNCHANGED <<runVars, recvVars, stopped, queue, genOut, seg, pcm, heard,
                   req>>

\* _bounded_cleanup(stream.aclose()) succeeds and the task ends.
CloseDone(s) ==
    /\ gen[s] = "closing" /\ req[s] = "idle"
    /\ gen' = [gen EXCEPT ![s] = "done"]
    /\ UNCHANGED <<runVars, recvVars, stopped, queue, genOut, seg, pcm, heard,
                   req>>

\* aclose() takes longer than 1 s (it is left running) or raises: an
\* engine_error, unless the task is failing already.
CloseFails(s) ==
    /\ gen[s] = "closing" /\ req[s] = "closing"
    /\ gen' = [gen EXCEPT ![s] = "done"]
    /\ genOut' = [genOut EXCEPT ![s] = IF @ = "ok" THEN "error" ELSE @]
    /\ \E r \in {"closing", "idle"} : req' = [req EXCEPT ![s] = r]
    /\ UNCHANGED <<runVars, recvVars, stopped, queue, seg, pcm, heard>>

-----------------------------------------------------------------------------
(* run(): _coordinate and finally. *)

\* The generate task has failed: its exception is raised first.
CoordGenFailed(s) ==
    /\ run[s] = "coord" /\ gen[s] = "done" /\ genOut[s] # "ok"
    /\ EnterFinally(s, genOut[s])
    /\ UNCHANGED <<active, holds, termSent, conn, textVars, queue, genVars>>

\* The receive loop asked to cancel: set cancel_event, stop the generate task.
CoordCancel(s) ==
    /\ run[s] = "coord" /\ recv[s] = "cancel"
    /\ gen[s] = "done" => genOut[s] = "ok"
    /\ run' = [run EXCEPT ![s] = "stopGen"]
    /\ stopped' = [stopped EXCEPT ![s] = TRUE]
    /\ CancelGen(s)
    /\ UNCHANGED <<active, holds, terminal, termSent, recvVars, queue, seg,
                   pcm, heard>>

\* The receive loop failed: its exception is raised.
CoordRecvFailed(s) ==
    /\ run[s] = "coord" /\ recv[s] \in {"too_large", "invalid", "disc"}
    /\ gen[s] = "done" => genOut[s] = "ok"
    /\ EnterFinally(s, recv[s])
    /\ UNCHANGED <<active, holds, termSent, conn, textVars, queue, genVars>>

\* Mutant: _coordinate waits until both tasks are done.
CoordGenDone_WaitsForBoth(s) ==
    /\ run[s] = "coord" /\ gen[s] = "done" /\ genOut[s] = "ok"
    /\ RecvDone(s)
    /\ EnterFinally(s, IF finished[s] THEN "done" ELSE "error")
    /\ UNCHANGED <<active, holds, termSent, conn, textVars, queue, genVars>>

\* Generation ended while the receive loop runs: done after a finish, an
\* engine_error without one.
CoordGenDone(s) ==
    /\ run[s] = "coord" /\ gen[s] = "done" /\ genOut[s] = "ok"
    /\ ~RecvDone(s)
    /\ EnterFinally(s, IF finished[s] THEN "done" ELSE "error")
    /\ UNCHANGED <<active, holds, termSent, conn, textVars, queue, genVars>>

\* Mutant: the wait for the cancelled task has no timeout.
GenIsStopped_Unbounded(s) == gen[s] = "done"

\* _stop_task(generate_task) of _coordinate is over: the task has ended, or
\* 1 s passed while the engine stream was still closing.
GenIsStopped(s) == gen[s] = "done" \/ req[s] = "closing"

StopGenOver(s) ==
    /\ run[s] = "stopGen" /\ GenIsStopped(s)
    /\ EnterFinally(s, "cancelled")
    /\ UNCHANGED <<active, holds, termSent, conn, textVars, queue, genVars>>

\* Mutant: finally does not stop the generate task.
FinStopGen_Skipped(s) ==
    /\ run[s] = "finRecv"
    /\ EnterTerminal(s, terminal[s])
    /\ UNCHANGED <<active, holds, recvVars, stopped, queue, genVars>>

\* finally: the receive task has ended, cancel the generate task.
FinStopGen(s) ==
    /\ run[s] = "finRecv"
    /\ run' = [run EXCEPT ![s] = "finGen"]
    /\ CancelGen(s)
    /\ UNCHANGED <<active, holds, terminal, termSent, recvVars, stopped, queue,
                   seg, pcm, heard>>

\* finally: the generate task is stopped or abandoned, write the terminal.
FinGenOver(s) ==
    /\ run[s] = "finGen" /\ GenIsStopped(s)
    /\ EnterTerminal(s, terminal[s])
    /\ UNCHANGED <<active, holds, recvVars, stopped, queue, genVars>>

\* Mutant: every session releases a slot, admitted or not.
Release_Always(s) ==
    /\ run[s] = "terminal"
    /\ active' = active - 1
    /\ holds' = [holds EXCEPT ![s] = FALSE]
    /\ run' = [run EXCEPT ![s] = "close"]
    /\ UNCHANGED <<terminal, termSent, recvVars, stopped, queue, genVars>>

\* The terminal frame has drained, or its 5 s are over: return the slot,
\* then close the socket.
Release(s) ==
    /\ run[s] = "terminal"
    /\ active' = IF holds[s] THEN active - 1 ELSE active
    /\ holds' = [holds EXCEPT ![s] = FALSE]
    /\ run' = [run EXCEPT ![s] = "close"]
    /\ UNCHANGED <<terminal, termSent, recvVars, stopped, queue, genVars>>

\* _bounded_cleanup(websocket.close()) is over.
CloseSocket(s) ==
    /\ run[s] = "close"
    /\ run' = [run EXCEPT ![s] = "ended"]
    /\ UNCHANGED <<active, holds, terminal, termSent, recvVars, stopped, queue,
                   genVars>>

-----------------------------------------------------------------------------
\* The client's first message, or its absence.
HandshakeStep(s) == EndBeforeStart(s) \/ StartBusy(s) \/ StartAdmitted(s)

\* Later messages, or 60 s without one.
MessageStep(s) ==
    \/ Append_(s) \/ Flush(s) \/ Finish(s)
    \/ Cancel(s) \/ IdleTimeout(s) \/ BadMessage(s)

\* The receive loop's own steps: its segment timer, a lost connection.
RecvStep(s) == SegmentDeadline(s) \/ RecvDisconnect(s)

\* What the generate task does without the engine: send, time out, unwind.
GenStep(s) ==
    \/ TakeSegment(s) \/ TakeEnd(s)
    \/ SendDone(s) \/ SendFails(s) \/ UnwindDone(s) \/ CloseDone(s)
    \/ CloseFails(s)

\* What the engine owes the generate task.
EngineStep(s) ==
    \/ Prepare(s) \/ PrepareFails(s)
    \/ PcmDropped(s) \/ PcmSent(s) \/ SegmentComplete(s) \/ EngineFails(s)
    \/ EngineClosed(s)

RunStep(s) ==
    \/ SendReady(s) \/ ReadyFails(s)
    \/ CoordGenFailed(s) \/ CoordCancel(s) \/ CoordRecvFailed(s)
    \/ CoordGenDone(s) \/ StopGenOver(s) \/ FinStopGen(s) \/ FinGenOver(s)
    \/ Release(s) \/ CloseSocket(s)

\* Every session is over and no engine request is left.
AllOver ==
    /\ \A s \in Sessions : run[s] = "ended" /\ gen[s] \in {"none", "done"}
                             /\ req[s] = "idle"
    /\ UNCHANGED vars

Next ==
    \/ \E s \in Sessions :
          \/ HandshakeStep(s) \/ MessageStep(s) \/ Disconnect(s)
          \/ RecvStep(s) \/ GenStep(s) \/ EngineStep(s) \/ RunStep(s)
    \/ AllOver

Spec == Init /\ [][Next]_vars

\* The event loop runs every ready coroutine and fires every timer; the
\* client and the engine may do nothing for ever.
ServerFairness ==
    \A s \in Sessions : WF_vars(RunStep(s)) /\ WF_vars(GenStep(s))
                          /\ WF_vars(RecvStep(s))
ServerSpec == Spec /\ ServerFairness

\* The engine keeps working on a request it has accepted.
EngineWorks == \A s \in Sessions : WF_vars(EngineStep(s))

-----------------------------------------------------------------------------
(* Properties. *)

RunTypes ==
    /\ run \in [Sessions -> RunPcs]
    /\ holds \in [Sessions -> BOOLEAN]
    /\ terminal \in [Sessions -> Verdicts \cup {"none"}]
    /\ termSent \in [Sessions -> BOOLEAN]
RecvTypes ==
    /\ conn \in [Sessions -> {"up", "gone"}]
    /\ recv \in [Sessions -> RecvRuns \cup RecvEnds]
    /\ stopped \in [Sessions -> BOOLEAN]
TextTypes ==
    /\ accepted \in [Sessions -> 0..MaxText]
    /\ cut \in [Sessions -> 0..MaxText]
    /\ segTimer \in [Sessions -> BOOLEAN]
    /\ expired \in [Sessions -> BOOLEAN]
    /\ finished \in [Sessions -> BOOLEAN]
GenTypes ==
    /\ gen \in [Sessions -> GenPcs]
    /\ genOut \in [Sessions -> GenEnds]
    /\ pcm \in [Sessions -> 0..MaxPcm]
    /\ req \in [Sessions -> {"idle", "live", "closing"}]
SpeechTypes ==
    /\ queue \in [Sessions -> Seq(Segments)]
    /\ seg \in [Sessions -> Segments]
    /\ heard \in [Sessions -> Seq(Segments)]

\* Every variable has its type; in particular the admission counter never
\* goes below 0.
TypeOK ==
    /\ active \in Nat
    /\ RunTypes /\ RecvTypes /\ TextTypes /\ GenTypes /\ SpeechTypes

Holders == {s \in Sessions : holds[s]}

\* The counter is exactly the number of admitted sessions on every path
\* through run() and its finally, so no exit leaks or returns a slot twice.
SlotAccounting == active = Cardinality(Holders) /\ active <= Limit

\* A generation that nobody has asked to stop belongs to a session that still
\* holds its slot: finally stops the generate task before release().
LiveRequestHoldsSlot == \A s \in Sessions : req[s] = "live" => holds[s]

\* Segments q follow each other without gap or overlap from a to b.
Chain(q, a, b) ==
    IF q = <<>> THEN a = b
    ELSE /\ q[1].from = a /\ q[Len(q)].to = b
         /\ \A i \in 1..(Len(q) - 1) : q[i].to = q[i + 1].from

\* What was spoken is the accepted text from its start, in order, nothing
\* twice and nothing skipped, however session and engine end.
SpokenInOrder ==
    \A s \in Sessions : \E b \in 0..cut[s] : Chain(heard[s], 0, b)

\* done(cancelled = false) is only decided when every accepted unit of text
\* was spoken completely: nothing is left in the segmenter or the queue.
DoneMeansAllSpoken ==
    \A s \in Sessions : terminal[s] = "done" =>
        Chain(heard[s], 0, accepted[s]) /\ queue[s] = <<>>

\* Text waiting in the segmenter always has exactly one reason to leave it:
\* an armed deadline, or an expired one that the next append honours.
PendingTextIsTimed ==
    \A s \in Sessions : recv[s] = "run" =>
        IF cut[s] < accepted[s] THEN segTimer[s] # expired[s]
                                ELSE ~segTimer[s] /\ ~expired[s]

\* The terminal frame is the last one: after it no audio is being written,
\* not even by a generate task that run() has given up waiting for.
TerminalIsLast == \A s \in Sessions : termSent[s] => gen[s] # "send"

\* engine_error is never reported for a generation that ended well: the
\* "ended before client finish" branch of _coordinate is not reachable.
EngineErrorIsReal ==
    \A s \in Sessions : terminal[s] = "error" => genOut[s] = "error"

\* The sessions' slots behave like the abstract admission.
Slots == INSTANCE Admission WITH Clients <- Sessions, holders <- Holders
RefinesAdmission == Slots!Spec

\* A session ends and returns its slot.  Cancel, idle timeout, protocol error or
\* disconnect need nothing else for that: the engine may never answer again, and
\* run() may be anywhere.  After finish the engine has to make progress.
SessionEnds ==
    /\ \A s \in Sessions : RecvDone(s) ~> run[s] = "ended" /\ ~holds[s]
    /\ \A s \in Sessions : conn[s] = "gone" /\ holds[s] ~> ~holds[s]
    /\ EngineWorks => \A s \in Sessions : finished[s] ~> run[s] = "ended"

\* The documented capacity, read as a bound on requests inside the engine.
EngineLoadWithinLimit ==
    Cardinality({s \in Sessions : req[s] # "idle"}) <= Limit
=============================================================================
