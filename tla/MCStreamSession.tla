---------------------------- MODULE MCStreamSession ----------------------------
(* Instances of StreamSession for TLC. *)
EXTENDS StreamSession

\* Sessions whose client asks for a slot, but does not take the ready frame.
CONSTANT Guests

ASSUME GuestsAssumption == Guests \subseteq Sessions

\* All that can happen to such a session.
GuestStep(s) ==
    \/ StartBusy(s) \/ StartAdmitted(s) \/ ReadyFails(s) \/ Release(s)
    \/ CloseSocket(s)

MCNext ==
    \/ \E s \in Sessions \ Guests :
          \/ HandshakeStep(s) \/ MessageStep(s) \/ Disconnect(s)
          \/ RecvStep(s) \/ GenStep(s) \/ EngineStep(s) \/ RunStep(s)
    \/ \E s \in Guests : GuestStep(s)
    \/ AllOver

MCSpec == Init /\ [][MCNext]_vars /\ ServerFairness
================================================================================
