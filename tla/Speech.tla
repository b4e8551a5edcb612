-------------------------------- MODULE Speech --------------------------------
(***************************************************************************)
(* One call of SpeechService.synthesize() (speech.py) on top of             *)
(* VoxCPMEngine.generate() (engine.py): two asynchronous generators, the    *)
(* outer one driven by a session or a handler, the inner one by a stream of *)
(* the GPU server pool.  An action is the code of both between two awaits.  *)
(* The pool is external: it may send anything, end early, fail, hang, or    *)
(* fail to close a stream.                                                  *)
(***************************************************************************)
EXTENDS Naturals, Sequences

CONSTANTS MaxSegments,  \* bound: segments of the text
          MaxChunks     \* bound: chunks of a segment

ASSUME SpeechBounds == MaxSegments \in Nat /\ MaxChunks \in Nat \ {0}

VARIABLES
    options,   \* the validated SynthesisOptions
    length,    \* how many segments the iterator of the text gives
    pc,        \* the await or yield synthesize() is suspended at
    prompt,    \* prompt_latents and prompt_text
    reference, \* reference_latents are set
    asked,     \* the calls of pool.generate(), with their arguments (history)
    raw,       \* the pool's stream of the last call
    chunks,    \* chunks yielded from it; saw_waveform is chunks > 0
    complete,  \* its completion has arrived
    error,     \* what unwinds the two generators while the stream is closed
    result,    \* how synthesize() ended
    closed     \* VoxCPMEngine._closed

input == <<options, length>>
voiceVars == <<input, prompt, reference>>
streamVars == <<raw, chunks, complete>>
vars == <<voiceVars, streamVars, pc, asked, error, result, closed>>

-----------------------------------------------------------------------------
(* Options: schemas.py and _control_instruction(). *)

\* What a request can say.  A text of brackets only is not blank.
Requests ==
    [voice : {"absent", "profile", "design"},
     mode : {"absent", "controllable", "faithful"},
     style : {"absent", "brackets", "words"},
     description : {"brackets", "words"}]

\* parse_synthesis_options() does not raise.
Accepted(r) ==
    /\ r.mode # "absent" => r.voice = "profile"
    /\ r.mode = "faithful" => r.style = "absent"

\* _control_instruction() is not empty: _clean_control() drops brackets.
Control(r) ==
    \/ r.voice = "design" /\ r.description = "words"
    \/ r.style = "words"

IsProfile == options.voice = "profile"
Faithful == options.mode = "faithful"

-----------------------------------------------------------------------------
(* Where latents and texts come from: nowhere, a segment, or the profile. *)

None == 0
Profile == MaxSegments + 1
Text(source, control) == [segment |-> source, control |-> control]
Prompt(source) == [latents |-> source, text |-> Text(source, FALSE)]

Sources == None..Profile
Texts == [segment : Sources, control : BOOLEAN]
Prompts == [latents : Sources, text : Texts]

Pcs == {"new", "reference", "prompt", "segment", "item", "yield", "closing",
        "over"}
Unwinding == {"none", "error", "closed", "cancelled"}

Init ==
    /\ options \in {r \in Requests : Accepted(r)}
    /\ length \in 0..MaxSegments
    /\ pc = "new"
    /\ prompt = Prompt(None)
    /\ reference = FALSE
    /\ asked = <<>>
    /\ raw = "none"
    /\ chunks = 0
    /\ complete = FALSE
    /\ error = "none"
    /\ result = "none"
    /\ closed = FALSE

End(how) == pc' = "over" /\ result' = how

-----------------------------------------------------------------------------
(* The voice, before the first segment *)

\* The voice does not exist, or has no transcript to be faithful to.
Refused ==
    /\ pc = "new" /\ IsProfile
    /\ End("invalid")
    /\ UNCHANGED <<voiceVars, streamVars, asked, error, closed>>

\* The default voice or a design: nothing to prepare.
NoVoice ==
    /\ pc = "new" /\ ~IsProfile
    /\ pc' = "segment"
    /\ UNCHANGED <<voiceVars, streamVars, asked, error, result, closed>>

\* _voice_latent() has nothing cached: encode(), which a closed engine refuses.
Await(role) ==
    IF closed THEN End("error") ELSE pc' = role /\ UNCHANGED result

PromptFound ==
    /\ pc' = "segment"
    /\ prompt' = Prompt(Profile)
    /\ UNCHANGED result

ReferenceFound ==
    /\ reference' = TRUE
    /\ IF Faithful
         THEN PromptFound \/ (Await("prompt") /\ UNCHANGED prompt)
         ELSE pc' = "segment" /\ UNCHANGED <<prompt, result>>

ResolveVoice ==
    /\ pc = "new" /\ IsProfile
    /\ ReferenceFound \/ (Await("reference") /\ UNCHANGED <<prompt, reference>>)
    /\ UNCHANGED <<input, streamVars, asked, error, closed>>

\* The pool has encoded the reference recording in one of its two roles.
Encoded ==
    /\ \/ pc = "reference" /\ ReferenceFound
       \/ pc = "prompt" /\ PromptFound /\ UNCHANGED reference
    /\ UNCHANGED <<input, streamVars, asked, error, closed>>

\* It fails, or returns no latents.
EncodingFails ==
    /\ pc \in {"reference", "prompt"}
    /\ End("error")
    /\ UNCHANGED <<voiceVars, streamVars, asked, error, closed>>

-----------------------------------------------------------------------------
(* A segment *)

\* The instruction goes with every segment of a cloned voice, else with the first.
Controlled(k) == Control(options) /\ (k = 1 \/ (IsProfile /\ ~Faithful))

\* The arguments of pool.generate() for segment k.
Call(k) == [target |-> Text(k, Controlled(k)), prompt |-> prompt,
            reference |-> reference]

\* The next segment: generate() calls the pool.
NextSegment ==
    /\ pc = "segment" /\ Len(asked) < length /\ ~closed
    /\ pc' = "item"
    /\ asked' = Append(asked, Call(Len(asked) + 1))
    /\ raw' = "open"
    /\ chunks' = 0
    /\ complete' = FALSE
    /\ UNCHANGED <<voiceVars, error, result, closed>>

\* Mutant: a closed engine ends the text as if it were over.
SegmentRefused_EndsText ==
    /\ pc = "segment" /\ Len(asked) < length /\ closed
    /\ End("ok")
    /\ UNCHANGED <<voiceVars, streamVars, asked, error, closed>>

\* A closed engine refuses it.
SegmentRefused ==
    /\ pc = "segment" /\ Len(asked) < length /\ closed
    /\ End("error")
    /\ UNCHANGED <<voiceVars, streamVars, asked, error, closed>>

\* There are no more segments.
TextOver ==
    /\ pc = "segment" /\ Len(asked) = length
    /\ End("ok")
    /\ UNCHANGED <<voiceVars, streamVars, asked, error, closed>>

\* raw_stream.aclose() starts, on the way out with an exception or without.
Unwind(why) ==
    /\ pc' = "closing"
    /\ error' = why
    /\ UNCHANGED <<voiceVars, asked, raw, complete, result, closed>>

\* A waveform: converted and yielded, unless it comes after the completion.
Waveform ==
    /\ pc = "item" /\ ~complete /\ chunks < MaxChunks
    /\ pc' = "yield"
    /\ chunks' = chunks + 1
    /\ UNCHANGED <<voiceVars, asked, raw, complete, error, result, closed>>

\* The completion, with the latents of the segment.
Completion ==
    /\ pc = "item" /\ ~complete
    /\ complete' = TRUE
    /\ UNCHANGED <<voiceVars, pc, asked, raw, chunks, error, result, closed>>

\* An item of another kind, shape or type, without latents or with samples that
\* are no numbers; any item after the completion; or the stream raises.
BadItem ==
    /\ pc = "item"
    /\ Unwind("error")
    /\ UNCHANGED chunks

\* Mutant: audio alone makes a segment, whether its completion came or not.
RawEnds_Uncompleted ==
    /\ pc = "item"
    /\ Unwind(IF chunks > 0 THEN "none" ELSE "error")
    /\ UNCHANGED chunks

\* Mutant: a segment without audio is as good as any.
RawEnds_Silent ==
    /\ pc = "item"
    /\ Unwind(IF complete THEN "none" ELSE "error")
    /\ UNCHANGED chunks

\* The stream ends; without audio or completion that is an error.
RawEnds ==
    /\ pc = "item"
    /\ Unwind(IF complete /\ chunks > 0 THEN "none" ELSE "error")
    /\ UNCHANGED chunks

-----------------------------------------------------------------------------
(* The end of a segment's stream *)

\* Mutant: the latest completion becomes the prompt of the next segment.
Anchor_Rolling == IF IsProfile THEN prompt ELSE Prompt(Len(asked))

\* The prompt of the following segments: the first one's latents and raw text.
Anchor == IF IsProfile \/ Len(asked) > 1 THEN prompt ELSE Prompt(1)

\* The stream is closed; what was unwinding goes on.
RawClosed ==
    /\ pc = "closing"
    /\ raw' = "closed"
    /\ IF error = "none"
         THEN pc' = "segment" /\ prompt' = Anchor /\ UNCHANGED result
         ELSE End(error) /\ UNCHANGED prompt
    /\ UNCHANGED <<input, reference, asked, chunks, complete, error, closed>>

\* Mutant: a failed close never takes the place of what unwinds.
CloseFails_Suppressed ==
    /\ pc = "closing"
    /\ raw' = "lost"
    /\ End(error)
    /\ UNCHANGED <<voiceVars, asked, chunks, complete, error, closed>>

\* It does not close: an error, unless another one, or a cancellation, is raised.
CloseFails ==
    /\ pc = "closing"
    /\ raw' = "lost"
    /\ End(IF error \in {"none", "closed"} THEN "error" ELSE error)
    /\ UNCHANGED <<voiceVars, asked, chunks, complete, error, closed>>

-----------------------------------------------------------------------------
(* The consumer *)

\* It asks for the next chunk.
Resume ==
    /\ pc = "yield"
    /\ pc' = "item"
    /\ UNCHANGED <<voiceVars, streamVars, asked, error, result, closed>>

\* Mutant: closing the outer generator leaves the inner one alone.
Close_LeavesInner ==
    /\ pc = "yield"
    /\ End("closed")
    /\ UNCHANGED <<voiceVars, streamVars, asked, error, closed>>

\* aclose() at a chunk: GeneratorExit runs through both generators.
Close ==
    /\ pc = "yield"
    /\ Unwind("closed")
    /\ UNCHANGED chunks

\* aclose() before the first chunk was asked for.
CloseUnstarted ==
    /\ pc = "new"
    /\ End("closed")
    /\ UNCHANGED <<voiceVars, streamVars, asked, error, closed>>

\* The consumer's task is cancelled at an await that has no stream.
CancelWaiting ==
    /\ pc \in {"reference", "prompt", "segment"}
    /\ End("cancelled")
    /\ UNCHANGED <<voiceVars, streamVars, asked, error, closed>>

\* It is cancelled while an item is awaited: the stream is closed.
CancelItem ==
    /\ pc = "item"
    /\ Unwind("cancelled")
    /\ UNCHANGED chunks

\* It is cancelled while the stream is closed: nobody waits for that any more.
CancelClosing ==
    /\ pc = "closing"
    /\ raw' = "lost"
    /\ End("cancelled")
    /\ UNCHANGED <<voiceVars, asked, chunks, complete, error, closed>>

\* VoxCPMEngine.close(), when the server stops.
EngineClose ==
    /\ ~closed
    /\ closed' = TRUE
    /\ UNCHANGED <<voiceVars, streamVars, pc, asked, error, result>>

-----------------------------------------------------------------------------
VoiceStep == Refused \/ NoVoice \/ ResolveVoice \/ Encoded \/ EncodingFails
SegmentStep == NextSegment \/ SegmentRefused \/ TextOver
PoolStep ==
    Waveform \/ Completion \/ BadItem \/ RawEnds \/ RawClosed \/ CloseFails
ConsumerStep ==
    \/ Resume \/ Close \/ CloseUnstarted
    \/ CancelWaiting \/ CancelItem \/ CancelClosing

Over == pc = "over" /\ UNCHANGED vars

Next ==
    VoiceStep \/ SegmentStep \/ PoolStep \/ ConsumerStep \/ EngineClose \/ Over

Spec == Init /\ [][Next]_vars

-----------------------------------------------------------------------------
TypeOK ==
    /\ options \in Requests
    /\ length \in 0..MaxSegments
    /\ pc \in Pcs
    /\ prompt \in Prompts
    /\ reference \in BOOLEAN
    /\ asked \in Seq([target : Texts, prompt : Prompts, reference : BOOLEAN])
    /\ Len(asked) <= length
    /\ raw \in {"none", "open", "closed", "lost"}
    /\ chunks \in 0..MaxChunks
    /\ complete \in BOOLEAN
    /\ error \in Unwinding
    /\ result \in Unwinding \cup {"ok", "invalid"}
    /\ closed \in BOOLEAN
    /\ pc = "over" <=> result # "none"

\* The table of voices, modes and styles: a request has one immutable anchor,
\* that of its profile or its own first segment, whose text is the one its
\* latents speak, without the instruction; faithful speech never has one.
Conditioning ==
    \A k \in 1..Len(asked) :
        LET call == asked[k]
            anchor == IF Faithful THEN Profile
                      ELSE IF IsProfile \/ k = 1 THEN None ELSE 1
        IN /\ call.prompt = Prompt(anchor)
           /\ call.reference = IsProfile
           /\ call.target.segment = k
           /\ call.target.control =>
                 Control(options) /\ ~Faithful /\ (IsProfile \/ k = 1)
           /\ Control(options) /\ (IsProfile \/ k = 1) => call.target.control

\* One stream at a time: no segment follows, and synthesize() does not end, while
\* a stream is open; one that could not be closed ends it and is reported.
StreamsClosed ==
    /\ raw = "open" => pc \in {"item", "yield", "closing"}
    /\ raw = "lost" => pc = "over" /\ result \in {"error", "cancelled"}

\* The session or handler sees what Utterance promises.
Contract == INSTANCE Utterance WITH segment <- Len(asked), completed <- complete
RefinesUtterance == Contract!Spec
=============================================================================
