------------------------------ MODULE Admission ------------------------------
(***************************************************************************)
(* What the admission counter of src/botified_tts/app.py promises: at any  *)
(* time at most Limit clients hold a synthesis slot, a slot is granted at  *)
(* once or refused, only its holder gives it back, and the counter knows   *)
(* how many are out.                                                       *)
(***************************************************************************)
EXTENDS Naturals, FiniteSets

CONSTANTS Clients,  \* who may ask for a slot
          Limit     \* max_num_seqs

VARIABLES holders,  \* the clients that hold a slot
          active    \* _active

vars == <<holders, active>>

Init == holders = {} /\ active = 0

\* try_acquire() by c returns True.
Acquire(c) ==
    /\ c \notin holders
    /\ Cardinality(holders) < Limit
    /\ holders' = holders \cup {c}
    /\ active' = active + 1

\* release() by c.
Return(c) ==
    /\ c \in holders
    /\ holders' = holders \ {c}
    /\ active' = active - 1

Next == \E c \in Clients : Acquire(c) \/ Return(c)

Spec == Init /\ [][Next]_vars
=============================================================================
