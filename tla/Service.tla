-------------------------------- MODULE Service --------------------------------
(***************************************************************************)
(* One service: the stream sessions and the HTTP requests of create_app(),  *)
(* which share the admission counter and nothing else.  One event loop runs *)
(* them all, a step of either at a time.                                    *)
(***************************************************************************)
EXTENDS Naturals, FiniteSets

CONSTANTS Sessions, Requests, Limit, MaxText, MaxPcm, MaxSegments

ASSUME ClientsAssumption ==
    /\ IsFiniteSet(Sessions) /\ IsFiniteSet(Requests)
    /\ Sessions \cap Requests = {}

VARIABLES active,
          run, holds, terminal, termSent, conn, recv, accepted, cut, segTimer,
          expired, finished, stopped, queue, gen, genOut, seg, pcm, heard, req,
          pc, result, spoken, engine, dir, output, encoder

Stream == INSTANCE StreamSession
Http == INSTANCE HttpSpeech

streamVars == <<run, holds, terminal, termSent, conn, recv, accepted, cut,
                segTimer, expired, finished, stopped, queue, gen, genOut, seg,
                pcm, heard, req>>
httpVars == <<pc, result, spoken, engine, dir, output, encoder>>
vars == <<active, streamVars, httpVars>>

Init == Stream!Init /\ Http!Init

StreamStep ==
    /\ \E s \in Sessions :
          \/ Stream!HandshakeStep(s) \/ Stream!MessageStep(s)
          \/ Stream!Disconnect(s) \/ Stream!RecvStep(s) \/ Stream!GenStep(s)
          \/ Stream!EngineStep(s) \/ Stream!RunStep(s)
    /\ UNCHANGED httpVars

HttpStep == (\E r \in Requests : Http!RequestStep(r)) /\ UNCHANGED streamVars

\* Nobody has anything left to do.
AllOver == Stream!AllOver /\ Http!AllOver

Next == StreamStep \/ HttpStep \/ AllOver

Spec == Init /\ [][Next]_vars

-------------------------------------------------------------------------------
Holders == Stream!Holders \cup Http!Holders

\* Sessions and handlers together see the admission they are promised: the one
\* counter is the number of those between their acquire and their release, it
\* stays within the limit, and neither kind returns a slot of the other.
Slots == INSTANCE Admission WITH Clients <- Sessions \cup Requests,
                                 holders <- Holders
RefinesAdmission == Slots!Spec
================================================================================
