------------------------------ MODULE HttpSpeech ------------------------------
(***************************************************************************)
(* POST /v1/speech of src/botified_tts/app.py: a request takes a slot, its *)
(* speech is written to a PCM file in a directory of its own, a worker     *)
(* thread encodes the file, and the directory goes to the response that    *)
(* sends the result.  The handler is a coroutine: an action is the code    *)
(* between two awaits.  Only the encoder runs beside it, in a thread that  *)
(* a cancellation of the handler does not stop.                            *)
(***************************************************************************)
EXTENDS Naturals, FiniteSets

CONSTANTS Requests,    \* the requests that arrive
          Limit,       \* max_num_seqs, the admission limit of _Admission
          MaxSegments  \* bound: segments the text of a request is cut into

ASSUME RequestAssumption == IsFiniteSet(Requests)
ASSUME HttpBounds == Limit \in Nat \ {0} /\ MaxSegments \in Nat \ {0}

VARIABLES active,     \* _Admission._active
          pc,         \* where synthesize(), then the response, is suspended
          result,     \* the result of the request's summary
          spoken,     \* segments the engine has completed
          engine,     \* the engine stream: "idle", "live" or "closing"
          dir,        \* the request's directory: "none", "there", "gone", or
                      \* "stuck": the disk refused to remove it (what is
                      \* still in it is left out)
          output,     \* speech.wav or speech.ogg: "none", "part" or "whole"
          encoder     \* the worker thread: "none", "queued", "writing" or how
                      \* it ended

speechVars == <<spoken, engine>>
fileVars == <<dir, output, encoder>>
vars == <<active, pc, result, speechVars, fileVars>>

\* The places between try_acquire() and release().
Holding == {"body", "synth", "unwind", "bounded", "encode", "unlink", "rmdir"}
Pcs == Holding \cup {"new", "send", "over"}
EncoderEnds == {"failed", "done"}
Results == {"none", "ok", "busy", "invalid", "error", "cancelled"}

Init ==
    /\ active = 0
    /\ pc = [r \in Requests |-> "new"]
    /\ result = [r \in Requests |-> "none"]
    /\ spoken = [r \in Requests |-> 0]
    /\ engine = [r \in Requests |-> "idle"]
    /\ dir = [r \in Requests |-> "none"]
    /\ output = [r \in Requests |-> "none"]
    /\ encoder = [r \in Requests |-> "none"]

-----------------------------------------------------------------------------

\* The finally of synthesize(): remove the directory the handler owns, if
\* there is one, then release.
Leave(r, verdict) ==
    /\ result' = [result EXCEPT ![r] = verdict]
    /\ IF dir[r] = "there"
       THEN pc' = [pc EXCEPT ![r] = "unlink"] /\ UNCHANGED active
       ELSE pc' = [pc EXCEPT ![r] = "over"] /\ active' = active - 1

\* Wrong credentials, service not ready, or an Accept it does not serve.
Refuse(r) ==
    /\ pc[r] = "new"
    /\ pc' = [pc EXCEPT ![r] = "over"]
    /\ result' = [result EXCEPT ![r] = "invalid"]
    /\ UNCHANGED <<active, speechVars, fileVars>>

\* try_acquire() fails: 503 service_busy.
Busy(r) ==
    /\ pc[r] = "new" /\ active >= Limit
    /\ pc' = [pc EXCEPT ![r] = "over"]
    /\ result' = [result EXCEPT ![r] = "busy"]
    /\ UNCHANGED <<active, speechVars, fileVars>>

\* Mutant: the slot is taken only once the body has been read.
Admit_Late(r) ==
    /\ pc[r] = "new" /\ active < Limit
    /\ pc' = [pc EXCEPT ![r] = "body"]
    /\ UNCHANGED <<active, result, speechVars, fileVars>>

\* try_acquire(); the body is still to be read.
Admit(r) ==
    /\ pc[r] = "new" /\ active < Limit
    /\ active' = active + 1
    /\ pc' = [pc EXCEPT ![r] = "body"]
    /\ UNCHANGED <<result, speechVars, fileVars>>

\* The body is not valid (400, 413), the client goes away before its end, or
\* mkdtemp() fails.
BadBody(r) ==
    /\ pc[r] = "body"
    /\ \E verdict \in {"invalid", "error"} : Leave(r, verdict)
    /\ UNCHANGED <<speechVars, fileVars>>

\* The body is read and parsed; mkdtemp().
ReadBody(r) ==
    /\ pc[r] = "body"
    /\ pc' = [pc EXCEPT ![r] = "synth"]
    /\ dir' = [dir EXCEPT ![r] = "there"]
    /\ UNCHANGED <<active, result, speechVars, output, encoder>>

-----------------------------------------------------------------------------
(* Speech: the loop over speech.synthesize(). *)

\* The voice or the mode is refused, its encoding fails or speech.pcm cannot be
\* opened, before any segment.
VoiceFails(r) ==
    /\ pc[r] = "synth" /\ engine[r] = "idle" /\ spoken[r] = 0
    /\ \E verdict \in {"invalid", "error"} : Leave(r, verdict)
    /\ UNCHANGED <<speechVars, fileVars>>

SegmentStarts(r) ==
    /\ pc[r] = "synth" /\ engine[r] = "idle" /\ spoken[r] < MaxSegments
    /\ engine' = [engine EXCEPT ![r] = "live"]
    /\ UNCHANGED <<active, pc, result, spoken, fileVars>>

\* The segment's chunks have been written and the engine completes it.
SegmentEnds(r) ==
    /\ pc[r] = "synth" /\ engine[r] = "live"
    /\ engine' = [engine EXCEPT ![r] = "idle"]
    /\ spoken' = [spoken EXCEPT ![r] = @ + 1]
    /\ UNCHANGED <<active, pc, result, fileVars>>

\* The engine fails, or emits what the service rejects: its stream is closed
\* on the way out.
EngineFails(r) ==
    /\ pc[r] = "synth" /\ engine[r] = "live"
    /\ engine' = [engine EXCEPT ![r] = "closing"]
    /\ pc' = [pc EXCEPT ![r] = "unwind"]
    /\ result' = [result EXCEPT ![r] = "error"]
    /\ UNCHANGED <<active, spoken, fileVars>>

\* pcm.write() raises: the stream is closed in a task of its own, for 1 s.
WriteFails(r) ==
    /\ pc[r] = "synth" /\ engine[r] = "live"
    /\ engine' = [engine EXCEPT ![r] = "closing"]
    /\ pc' = [pc EXCEPT ![r] = "bounded"]
    /\ UNCHANGED <<active, result, spoken, fileVars>>

\* External: the pool has closed the stream.
EngineCloses(r) ==
    /\ engine[r] = "closing"
    /\ engine' = [engine EXCEPT ![r] = "idle"]
    /\ UNCHANGED <<active, pc, result, spoken, fileVars>>

\* The exception has left synthesize(): raw_stream.aclose() is over.
Unwound(r) ==
    /\ pc[r] = "unwind" /\ engine[r] = "idle"
    /\ Leave(r, result[r])
    /\ UNCHANGED <<speechVars, fileVars>>

\* Mutant: the cleanup waits for aclose() without a timeout.
CleanupOver_Unbounded(r) ==
    /\ pc[r] = "bounded" /\ engine[r] = "idle"
    /\ Leave(r, "error")
    /\ UNCHANGED <<speechVars, fileVars>>

\* _bounded_cleanup() returns: the stream is closed, or the second is over and
\* aclose() was cancelled; _CleanupFailed is suppressed.
CleanupOver(r) ==
    /\ pc[r] = "bounded"
    /\ Leave(r, "error")
    /\ UNCHANGED <<speechVars, fileVars>>

\* The text is spoken, but closing speech.pcm raises.
PcmFails(r) ==
    /\ pc[r] = "synth" /\ engine[r] = "idle" /\ spoken[r] > 0
    /\ Leave(r, "error")
    /\ UNCHANGED <<speechVars, fileVars>>

\* The text is spoken: the PCM file is closed and the encoder gets its job.
SpeechOver(r) ==
    /\ pc[r] = "synth" /\ engine[r] = "idle" /\ spoken[r] > 0
    /\ pc' = [pc EXCEPT ![r] = "encode"]
    /\ encoder' = [encoder EXCEPT ![r] = "queued"]
    /\ UNCHANGED <<active, result, speechVars, dir, output>>

-----------------------------------------------------------------------------
(* The encoder thread: pcm_s16le_file_to_wav, or ffmpeg. *)

\* It opens speech.pcm, if rmtree() has not removed it yet.
EncoderOpens(r) ==
    /\ encoder[r] = "queued"
    /\ encoder' = [encoder EXCEPT ![r] =
                      IF pc[r] \in {"rmdir", "over"} /\ dir[r] # "stuck"
                      THEN "failed" ELSE "opened"]
    /\ UNCHANGED <<active, pc, result, speechVars, dir, output>>

\* The output appears in the directory, if that still exists.
EncoderCreates(r) ==
    /\ encoder[r] = "opened"
    /\ IF dir[r] \in {"there", "stuck"}
       THEN /\ encoder' = [encoder EXCEPT ![r] = "writing"]
            /\ output' = [output EXCEPT ![r] = "part"]
       ELSE /\ encoder' = [encoder EXCEPT ![r] = "failed"]
            /\ UNCHANGED output
    /\ UNCHANGED <<active, pc, result, speechVars, dir>>

\* The file is complete; a file unlinked under the thread stays unlinked.
EncoderDone(r) ==
    /\ encoder[r] = "writing"
    /\ encoder' = [encoder EXCEPT ![r] = "done"]
    /\ output' = [output EXCEPT ![r] = IF @ = "part" THEN "whole" ELSE @]
    /\ UNCHANGED <<active, pc, result, speechVars, dir>>

\* Mutant: ffmpeg runs without a timeout; it still fails if it cannot start.
EncoderFails_NoTimeout(r) ==
    /\ encoder[r] = "queued"
    /\ encoder' = [encoder EXCEPT ![r] = "failed"]
    /\ UNCHANGED <<active, pc, result, speechVars, dir, output>>

\* ffmpeg fails or runs for more than 30 s; the disk is full.
EncoderFails(r) ==
    /\ encoder[r] \in {"queued", "opened", "writing"}
    /\ encoder' = [encoder EXCEPT ![r] = "failed"]
    /\ UNCHANGED <<active, pc, result, speechVars, dir, output>>

-----------------------------------------------------------------------------
(* The handler after the encoder, the response, and cancellation. *)

\* Mutant: only a successful encoding removes the directory.
EncodingFailed_KeepsDirectory(r) ==
    /\ pc[r] = "encode" /\ encoder[r] = "failed"
    /\ pc' = [pc EXCEPT ![r] = "over"]
    /\ result' = [result EXCEPT ![r] = "error"]
    /\ active' = active - 1
    /\ UNCHANGED <<speechVars, fileVars>>

\* The encoder raised: 500.
EncodingFailed(r) ==
    /\ pc[r] = "encode" /\ encoder[r] = "failed"
    /\ Leave(r, "error")
    /\ UNCHANGED <<speechVars, fileVars>>

\* Mutant: the handler keeps the directory after giving it to the response.
HandOver_KeepsDirectory(r) ==
    /\ pc[r] = "encode" /\ encoder[r] = "done"
    /\ pc' = [pc EXCEPT ![r] = "send"]
    /\ result' = [result EXCEPT ![r] = "ok"]
    /\ dir' = [dir EXCEPT ![r] = "gone"]
    /\ output' = [output EXCEPT ![r] = "none"]
    /\ active' = active - 1
    /\ UNCHANGED <<speechVars, encoder>>

\* speech.pcm is removed, the directory now belongs to the response, the slot
\* is released and the response starts.
HandOver(r) ==
    /\ pc[r] = "encode" /\ encoder[r] = "done"
    /\ pc' = [pc EXCEPT ![r] = "send"]
    /\ result' = [result EXCEPT ![r] = "ok"]
    /\ active' = active - 1
    /\ UNCHANGED <<speechVars, fileVars>>

\* Mutant: the handler gives the directory up before the response is made.
HandOverFails_Disowns(r) ==
    /\ pc[r] = "encode" /\ encoder[r] = "done"
    /\ pc' = [pc EXCEPT ![r] = "over"]
    /\ result' = [result EXCEPT ![r] = "error"]
    /\ active' = active - 1
    /\ UNCHANGED <<speechVars, fileVars>>

\* Removing speech.pcm or making the response raises: the handler still owns
\* the directory.
HandOverFails(r) ==
    /\ pc[r] = "encode" /\ encoder[r] = "done"
    /\ Leave(r, "error")
    /\ UNCHANGED <<speechVars, fileVars>>

\* The response is sent, fails or is cancelled; its finally removes the
\* directory, unless the disk refuses.
ResponseOver(r) ==
    /\ pc[r] = "send"
    /\ pc' = [pc EXCEPT ![r] = "over"]
    /\ \E left \in {"gone", "stuck"} : dir' = [dir EXCEPT ![r] = left]
    /\ output' = [output EXCEPT ![r] = "none"]
    /\ UNCHANGED <<active, result, speechVars, encoder>>

\* Mutant: the slot is given back at once, before the stream has closed.
Cancel_Releases(r) ==
    /\ pc[r] \in {"body", "synth", "unwind", "bounded", "encode"}
    /\ Leave(r, "cancelled")
    /\ UNCHANGED <<speechVars, fileVars>>

\* The server cancels the request (shutdown).  A live stream is closed while
\* the exception unwinds; the encoder thread goes on, and so does a close that
\* the handler was waiting for.
Cancel(r) ==
    /\ pc[r] \in {"body", "synth", "unwind", "bounded", "encode"}
    /\ IF engine[r] = "live"
       THEN /\ engine' = [engine EXCEPT ![r] = "closing"]
            /\ pc' = [pc EXCEPT ![r] = "unwind"]
            /\ result' = [result EXCEPT ![r] = "cancelled"]
            /\ UNCHANGED <<active, spoken, fileVars>>
       ELSE Leave(r, "cancelled") /\ UNCHANGED <<speechVars, fileVars>>

\* rmtree(): the files it found are gone, or the disk refuses, which Rmdir sees.
Unlink(r) ==
    /\ pc[r] = "unlink"
    /\ pc' = [pc EXCEPT ![r] = "rmdir"]
    /\ output' = [output EXCEPT ![r] = "none"]
    /\ UNCHANGED <<active, result, speechVars, dir, encoder>>

\* Mutant: an error of rmtree() reaches the caller and the slot is kept.
Rmdir_Raises(r) ==
    /\ pc[r] = "rmdir"
    /\ pc' = [pc EXCEPT ![r] = "over"]
    /\ dir' = [dir EXCEPT ![r] = IF output[r] = "none" THEN "gone" ELSE @]
    /\ active' = IF output[r] = "none" THEN active - 1 ELSE active
    /\ UNCHANGED <<result, speechVars, output, encoder>>

\* rmtree() removes the directory if it is empty and the disk refused nothing;
\* errors are ignored, and the slot is released.
Rmdir(r) ==
    /\ pc[r] = "rmdir"
    /\ pc' = [pc EXCEPT ![r] = "over"]
    /\ \/ dir' = [dir EXCEPT ![r] = "stuck"]
       \/ dir' = [dir EXCEPT ![r] = IF output[r] = "none" THEN "gone" ELSE @]
    /\ active' = active - 1
    /\ UNCHANGED <<result, speechVars, output, encoder>>

-----------------------------------------------------------------------------

ArrivalStep(r) == Refuse(r) \/ Busy(r) \/ Admit(r)

BodyStep(r) == BadBody(r) \/ ReadBody(r)

SpeechStep(r) ==
    SegmentStarts(r) \/ Unwound(r) \/ CleanupOver(r) \/ SpeechOver(r)

EngineStep(r) == SegmentEnds(r) \/ EngineFails(r) \/ EngineCloses(r)

EncoderStep(r) ==
    EncoderOpens(r) \/ EncoderCreates(r) \/ EncoderDone(r) \/ EncoderFails(r)

EndStep(r) ==
    EncodingFailed(r) \/ HandOver(r) \/ Unlink(r) \/ Rmdir(r)

\* Failures and cancellations, which need not happen, and the client.
OtherStep(r) ==
    \/ VoiceFails(r) \/ WriteFails(r) \/ PcmFails(r) \/ HandOverFails(r)
    \/ Cancel(r) \/ ResponseOver(r)

AllOver ==
    /\ \A r \in Requests : /\ pc[r] = "over" /\ engine[r] = "idle"
                           /\ encoder[r] \in {"none"} \cup EncoderEnds
    /\ UNCHANGED vars

RequestStep(r) ==
    \/ ArrivalStep(r) \/ BodyStep(r) \/ SpeechStep(r) \/ EngineStep(r)
    \/ EncoderStep(r) \/ EndStep(r) \/ OtherStep(r)

Next == (\E r \in Requests : RequestStep(r)) \/ AllOver

Spec == Init /\ [][Next]_vars

\* The event loop runs what is ready, a timer fires, and the encoder thread
\* starts; it need not succeed, but its timeout ends it.  Nothing is assumed of
\* the client.
EncoderProgress(r) == EncoderOpens(r) \/ EncoderCreates(r) \/ EncoderFails(r)

ServerSpec ==
    /\ Spec
    /\ \A r \in Requests : /\ WF_vars(SpeechStep(r))
                           /\ WF_vars(EndStep(r))
                           /\ WF_vars(EncoderProgress(r))

\* The engine makes progress on every stream.
EngineWorks == \A r \in Requests : WF_vars(EngineStep(r))

-----------------------------------------------------------------------------
Holders == {r \in Requests : pc[r] \in Holding}

TypeOK ==
    /\ active \in 0..Limit
    /\ pc \in [Requests -> Pcs]
    /\ result \in [Requests -> Results]
    /\ spoken \in [Requests -> 0..MaxSegments]
    /\ engine \in [Requests -> {"idle", "live", "closing"}]
    /\ dir \in [Requests -> {"none", "there", "gone", "stuck"}]
    /\ output \in [Requests -> {"none", "part", "whole"}]
    /\ encoder \in [Requests -> {"none", "queued", "opened", "writing"}
                                \cup EncoderEnds]

\* An engine stream that still speaks belongs to a handler with a slot, and no
\* file is encoded or sent while a stream of its request is open.
LiveStreamHoldsSlot ==
    \A r \in Requests :
        /\ engine[r] = "live" => pc[r] \in Holding \ {"unlink", "rmdir"}
        /\ engine[r] # "idle" => encoder[r] = "none"

\* While the response is being sent its file is there, complete, and no thread
\* is working on it.
ResponseFileWhole ==
    \A r \in Requests : pc[r] = "send" =>
        dir[r] = "there" /\ output[r] = "whole" /\ encoder[r] = "done"

\* Where the disk lets files be removed, a directory survives its request only
\* if the request was cancelled while the encoder thread was at work.
DirectoryReclaimed ==
    \A r \in Requests : pc[r] = "over" /\ dir[r] = "there" =>
        result[r] = "cancelled" /\ encoder[r] # "none"

\* The ownership plan: the handler removes the paths it owns after a hand-over,
\* a generation error, an encoding error and a cancellation.  It does not when
\* the encoder thread creates its output between the two halves of rmtree().  A
\* directory the disk refuses to remove is not held against it.
NoDirectoryLeft ==
    \A r \in Requests : pc[r] = "over" => dir[r] # "there"

\* A handler returns its slot, whatever the client does: after a failed write even
\* if the engine never closes its stream, and once it has its body if the engine
\* makes progress.
HandlerReturnsSlot ==
    /\ \A r \in Requests : pc[r] = "bounded" ~> pc[r] = "over"
    /\ EngineWorks => \A r \in Requests : pc[r] = "synth" ~> pc[r] \notin Holding
=============================================================================
