---------------------------- MODULE VoiceRegistry ----------------------------
(***************************************************************************)
(* What the voice store of src/botified_tts/voices.py promises its users,  *)
(* across crashes and restarts: a voice appears at once and complete, and  *)
(* after it is deleted it never comes back.                                *)
(***************************************************************************)
CONSTANT Voices

VARIABLES listed,  \* the voices a client can use
          removed  \* the voices that were deleted

Init == listed = {} /\ removed = {}

Publish(v) ==
    /\ v \notin listed \cup removed
    /\ listed' = listed \cup {v}
    /\ UNCHANGED removed

Remove(v) ==
    /\ v \in listed
    /\ listed' = listed \ {v}
    /\ removed' = removed \cup {v}

Next == \E v \in Voices : Publish(v) \/ Remove(v)

Spec == Init /\ [][Next]_<<listed, removed>>
=============================================================================
