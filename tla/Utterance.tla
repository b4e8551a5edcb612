------------------------------ MODULE Utterance ------------------------------
(***************************************************************************)
(* What SpeechService.synthesize() of src/botified_tts/speech.py promises   *)
(* to the session or handler that iterates over it: segments come one after *)
(* the other, each is heard and completed before the next, and the          *)
(* iteration ends well only when the whole text was spoken so; the client   *)
(* is blamed only while nothing has been heard; after the end there is      *)
(* nothing more.                                                            *)
(***************************************************************************)
EXTENDS Naturals

VARIABLES length,    \* segments of the text
          segment,   \* the segment being spoken, 0 before the first
          chunks,    \* chunks of it that were heard
          completed, \* the engine has said that it is complete
          result     \* how the iteration ended

speech == <<segment, chunks, completed>>
vars == <<length, speech, result>>

Init ==
    /\ length \in Nat
    /\ segment = 0
    /\ chunks = 0
    /\ completed = FALSE
    /\ result = "none"

\* No segment is open that has not been heard to its end.
Spoken == segment = 0 \/ (chunks > 0 /\ completed)

\* The next segment starts.
Begin ==
    /\ result = "none" /\ Spoken /\ segment < length
    /\ segment' = segment + 1
    /\ chunks' = 0
    /\ completed' = FALSE
    /\ UNCHANGED <<length, result>>

\* A chunk of audio is given out.
Chunk ==
    /\ result = "none" /\ segment > 0 /\ ~completed
    /\ chunks' = chunks + 1
    /\ UNCHANGED <<length, segment, completed, result>>

\* The engine completes the segment: no more audio of it.
Complete ==
    /\ result = "none" /\ segment > 0 /\ ~completed
    /\ completed' = TRUE
    /\ UNCHANGED <<length, segment, chunks, result>>

\* The iteration ends: well, for good, or with what the caller has to report.
End ==
    /\ result = "none"
    /\ \/ result' = "ok" /\ Spoken /\ segment = length
       \/ result' = "invalid" /\ segment = 0
       \/ result' \in {"error", "closed", "cancelled"}
    /\ UNCHANGED <<length, speech>>

Next == Begin \/ Chunk \/ Complete \/ End

Spec == Init /\ [][Next]_vars
=============================================================================
