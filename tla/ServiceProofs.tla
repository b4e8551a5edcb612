----------------------------- MODULE ServiceProofs -----------------------------
(***************************************************************************)
(* What TLAPS proves of Service: for any finite sets of stream sessions and *)
(* HTTP requests and any limit, all of them together see one admission.     *)
(***************************************************************************)
EXTENDS Service, FiniteSetTheorems, TLAPS

-----------------------------------------------------------------------------
(* The inductive invariant. *)

\* Where the clients stand, as far as their slots depend on it.
Places ==
    /\ run \in [Sessions -> Stream!RunPcs]
    /\ holds \in [Sessions -> BOOLEAN]
    /\ pc \in [Requests -> Http!Pcs]

\* A session asks for a slot only while it has none; the counter knows how many
\* clients of both kinds are inside.
SlotInv ==
    /\ \A s \in Sessions : run[s] = "first" => ~holds[s]
    /\ active = Cardinality(Holders)

LEMMA HoldersFinite ==
    /\ IsFiniteSet(Holders) /\ Cardinality(Holders) \in Nat
    /\ Stream!Holders \subseteq Sessions /\ Http!Holders \subseteq Requests
<1>1. Stream!Holders \subseteq Sessions /\ Http!Holders \subseteq Requests
  BY DEF Stream!Holders, Http!Holders
<1>2. IsFiniteSet(Stream!Holders) /\ IsFiniteSet(Http!Holders)
  BY <1>1, ClientsAssumption, FS_Subset
<1>3. IsFiniteSet(Holders)
  BY <1>2, FS_Union DEF Holders
<1> QED
  BY <1>1, <1>3, FS_CardinalityType

-----------------------------------------------------------------------------
(* What a step does to the counter and to the clients inside. *)

Takes(c) ==
    /\ c \notin Holders /\ active < Limit
    /\ Holders' = Holders \cup {c} /\ active' = active + 1
Gives(c) ==
    /\ c \in Holders
    /\ Holders' = Holders \ {c} /\ active' = active - 1
Keeps == Holders' = Holders /\ active' = active

SlotStep(c) == Takes(c) \/ Gives(c) \/ Keeps

\* A session step that is neither an admission nor a release.
LEMMA OtherSessionSteps ==
    ASSUME Places, NEW s \in Sessions,
           \/ Stream!EndBeforeStart(s) \/ Stream!StartBusy(s)
           \/ Stream!MessageStep(s) \/ Stream!Disconnect(s)
           \/ Stream!RecvStep(s) \/ Stream!GenStep(s) \/ Stream!EngineStep(s)
           \/ Stream!RunStep(s) /\ ~Stream!Release(s)
    PROVE  /\ active' = active /\ holds' = holds
           /\ run' \in [Sessions -> Stream!RunPcs]
           /\ \A r \in Sessions : run'[r] = "first" => run[r] = "first"
<1> USE DEF Places, Stream!RunPcs
<1>1. CASE Stream!EndBeforeStart(s) \/ Stream!StartBusy(s)
  BY <1>1 DEF Stream!EndBeforeStart, Stream!StartBusy, Stream!EnterTerminal
<1>2. CASE Stream!MessageStep(s)
  BY <1>2 DEF Stream!MessageStep, Stream!Append_, Stream!Flush, Stream!Finish,
     Stream!Cancel, Stream!IdleTimeout, Stream!BadMessage, Stream!ReturnCancel,
     Stream!runVars
<1>3. CASE Stream!Disconnect(s) \/ Stream!RecvStep(s)
  BY <1>3 DEF Stream!Disconnect, Stream!RecvStep, Stream!SegmentDeadline,
     Stream!RecvDisconnect, Stream!runVars
<1>4. CASE Stream!GenStep(s)
  BY <1>4 DEF Stream!GenStep, Stream!TakeSegment, Stream!TakeEnd,
     Stream!SendDone, Stream!SendFails, Stream!UnwindDone, Stream!CloseDone,
     Stream!CloseFails, Stream!runVars
<1>5. CASE Stream!EngineStep(s)
  BY <1>5 DEF Stream!EngineStep, Stream!Prepare, Stream!PrepareFails,
     Stream!PcmDropped, Stream!PcmSent, Stream!SegmentComplete,
     Stream!EngineFails, Stream!EngineClosed, Stream!runVars
<1>6. CASE Stream!RunStep(s) /\ ~Stream!Release(s)
  BY <1>6 DEF Stream!RunStep, Stream!SendReady, Stream!ReadyFails,
     Stream!CoordGenFailed, Stream!CoordCancel, Stream!CoordRecvFailed,
     Stream!CoordGenDone, Stream!StopGenOver, Stream!FinStopGen,
     Stream!FinGenOver, Stream!CloseSocket, Stream!EnterTerminal,
     Stream!EnterFinally
<1> QED
  BY <1>1, <1>2, <1>3, <1>4, <1>5, <1>6

LEMMA StreamSlots ==
    ASSUME Places, SlotInv, NEW s \in Sessions, UNCHANGED httpVars,
           \/ Stream!HandshakeStep(s) \/ Stream!MessageStep(s)
           \/ Stream!Disconnect(s) \/ Stream!RecvStep(s) \/ Stream!GenStep(s)
           \/ Stream!EngineStep(s) \/ Stream!RunStep(s)
    PROVE  /\ SlotStep(s) /\ Places'
           /\ \A r \in Sessions : run'[r] = "first" => ~holds'[r]
<1>1. Http!Holders' = Http!Holders /\ pc' = pc
  BY DEF httpVars, Http!Holders
<1>2. s \notin Http!Holders
  BY HoldersFinite, ClientsAssumption
<1>3. CASE Stream!StartAdmitted(s)
  <2>1. /\ run[s] = "first" /\ active < Limit /\ active' = active + 1
        /\ run' = [run EXCEPT ![s] = "ready"]
        /\ holds' = [holds EXCEPT ![s] = TRUE]
    BY <1>3 DEF Stream!StartAdmitted
  <2>2. s \notin Stream!Holders /\ Stream!Holders' = Stream!Holders \cup {s}
    BY <2>1 DEF Places, SlotInv, Stream!Holders
  <2>3. Takes(s)
    BY <1>1, <1>2, <2>1, <2>2 DEF Takes, Holders
  <2>4. Places'
    BY <1>1, <2>1 DEF Places, Stream!RunPcs
  <2>5. \A r \in Sessions : run'[r] = "first" => ~holds'[r]
    BY <2>1 DEF Places, SlotInv
  <2> QED
    BY <2>3, <2>4, <2>5 DEF SlotStep
<1>4. CASE Stream!Release(s)
  <2>1. /\ active' = IF holds[s] THEN active - 1 ELSE active
        /\ run' = [run EXCEPT ![s] = "close"]
        /\ holds' = [holds EXCEPT ![s] = FALSE]
    BY <1>4 DEF Stream!Release
  <2>2. /\ (s \in Stream!Holders) <=> holds[s]
        /\ Stream!Holders' = Stream!Holders \ {s}
    BY <2>1 DEF Places, Stream!Holders
  <2>3. SlotStep(s)
    BY <1>1, <1>2, <2>1, <2>2 DEF SlotStep, Gives, Keeps, Holders
  <2>4. Places'
    BY <1>1, <2>1 DEF Places, Stream!RunPcs
  <2>5. \A r \in Sessions : run'[r] = "first" => ~holds'[r]
    BY <2>1 DEF Places, SlotInv
  <2> QED
    BY <2>3, <2>4, <2>5
<1>5. CASE \/ Stream!EndBeforeStart(s) \/ Stream!StartBusy(s)
           \/ Stream!MessageStep(s) \/ Stream!Disconnect(s)
           \/ Stream!RecvStep(s) \/ Stream!GenStep(s) \/ Stream!EngineStep(s)
           \/ Stream!RunStep(s) /\ ~Stream!Release(s)
  <2>1. /\ active' = active /\ holds' = holds
        /\ run' \in [Sessions -> Stream!RunPcs]
        /\ \A r \in Sessions : run'[r] = "first" => run[r] = "first"
    BY <1>5, OtherSessionSteps
  <2>2. Keeps
    BY <1>1, <2>1 DEF Keeps, Holders, Stream!Holders
  <2>3. Places'
    BY <1>1, <2>1 DEF Places
  <2>4. \A r \in Sessions : run'[r] = "first" => ~holds'[r]
    BY <2>1 DEF SlotInv
  <2> QED
    BY <2>2, <2>3, <2>4 DEF SlotStep
<1> QED
  BY <1>3, <1>4, <1>5 DEF Stream!HandshakeStep, Stream!RunStep

LEMMA HttpSlots ==
    ASSUME Places, NEW r \in Requests, UNCHANGED streamVars,
           Http!RequestStep(r)
    PROVE  SlotStep(r) /\ Places'
<1> USE DEF Places
<1>1. Stream!Holders' = Stream!Holders /\ run' = run /\ holds' = holds
  BY DEF streamVars, Stream!Holders
<1>2. r \notin Stream!Holders
  BY HoldersFinite, ClientsAssumption
<1>3. ASSUME active' = active, pc' = pc PROVE Keeps /\ Places'
  BY <1>1, <1>3 DEF Keeps, Holders, Http!Holders
<1>4. ASSUME NEW at \in Http!Pcs, pc' = [pc EXCEPT ![r] = at],
             active' = active, pc[r] \in Http!Holding <=> at \in Http!Holding
      PROVE  Keeps /\ Places'
  <2>1. Http!Holders' = Http!Holders
    BY <1>4 DEF Http!Holders
  <2> QED
    BY <1>1, <1>4, <2>1 DEF Keeps, Holders
<1>5. ASSUME NEW at \in Http!Pcs, pc' = [pc EXCEPT ![r] = at],
             active' = active - 1, pc[r] \in Http!Holding,
             at \notin Http!Holding
      PROVE  Gives(r) /\ Places'
  <2>1. r \in Http!Holders /\ Http!Holders' = Http!Holders \ {r}
    BY <1>5 DEF Http!Holders
  <2> QED
    BY <1>1, <1>2, <1>5, <2>1 DEF Gives, Holders
<1> USE DEF Http!Pcs, Http!Holding
<1>6. ASSUME NEW verdict, Http!Leave(r, verdict), pc[r] \in Http!Holding
      PROVE  SlotStep(r) /\ Places'
  <2>1. CASE dir[r] = "there"
    BY <1>4, <1>6, <2>1 DEF Http!Leave, SlotStep
  <2>2. CASE dir[r] # "there"
    BY <1>5, <1>6, <2>2 DEF Http!Leave, SlotStep
  <2> QED
    BY <2>1, <2>2
<1>7. CASE Http!Admit(r)
  <2>1. /\ pc[r] = "new" /\ pc' = [pc EXCEPT ![r] = "body"]
        /\ active < Limit /\ active' = active + 1
    BY <1>7 DEF Http!Admit
  <2>2. r \notin Http!Holders /\ Http!Holders' = Http!Holders \cup {r}
    BY <2>1 DEF Http!Holders
  <2>3. Takes(r)
    BY <1>1, <1>2, <2>1, <2>2 DEF Takes, Holders
  <2> QED
    BY <1>1, <2>1, <2>3 DEF SlotStep
<1>8. CASE \/ Http!SegmentStarts(r) \/ Http!SegmentEnds(r)
           \/ Http!EngineCloses(r) \/ Http!EncoderStep(r)
  BY <1>3, <1>8 DEF Http!SegmentStarts, Http!SegmentEnds, Http!EngineCloses,
     Http!EncoderStep, Http!EncoderOpens, Http!EncoderCreates,
     Http!EncoderDone, Http!EncoderFails, SlotStep
<1>9. CASE \/ Http!Refuse(r) \/ Http!Busy(r) \/ Http!ReadBody(r)
           \/ Http!EngineFails(r) \/ Http!WriteFails(r) \/ Http!SpeechOver(r)
           \/ Http!Unlink(r) \/ Http!ResponseOver(r)
  BY <1>4, <1>9 DEF Http!Refuse, Http!Busy, Http!ReadBody, Http!EngineFails,
     Http!WriteFails, Http!SpeechOver, Http!Unlink, Http!ResponseOver,
     SlotStep
<1>10. CASE Http!HandOver(r) \/ Http!Rmdir(r)
  BY <1>5, <1>10 DEF Http!HandOver, Http!Rmdir, SlotStep
<1>11. CASE \/ Http!BadBody(r) \/ Http!VoiceFails(r) \/ Http!Unwound(r)
            \/ Http!CleanupOver(r) \/ Http!PcmFails(r)
            \/ Http!EncodingFailed(r) \/ Http!HandOverFails(r)
  BY <1>6, <1>11 DEF Http!BadBody, Http!VoiceFails, Http!Unwound,
     Http!CleanupOver, Http!PcmFails, Http!EncodingFailed, Http!HandOverFails
<1>12. CASE Http!Cancel(r)
  <2>1. CASE engine[r] = "live"
    BY <1>4, <1>12, <2>1 DEF Http!Cancel, SlotStep
  <2>2. CASE engine[r] # "live"
    BY <1>6, <1>12, <2>2 DEF Http!Cancel
  <2> QED
    BY <2>1, <2>2
<1> QED
  BY <1>7, <1>8, <1>9, <1>10, <1>11, <1>12
  DEF Http!RequestStep, Http!ArrivalStep, Http!BodyStep, Http!SpeechStep,
      Http!EngineStep, Http!EndStep, Http!OtherStep

-----------------------------------------------------------------------------
(* The service implements the admission. *)

LEMMA InitInv == Init => Places /\ SlotInv
<1> SUFFICES ASSUME Init PROVE Places /\ SlotInv
  OBVIOUS
<1>1. Places
  BY DEF Init, Stream!Init, Http!Init, Places, Stream!RunPcs, Http!Pcs
<1>2. Holders = {}
  BY DEF Init, Stream!Init, Http!Init, Holders, Stream!Holders, Http!Holders,
     Http!Holding
<1>3. SlotInv
  BY <1>2, FS_EmptySet DEF Init, Stream!Init, SlotInv
<1> QED
  BY <1>1, <1>3

\* The count follows the clients.
LEMMA CountFollows ==
    ASSUME SlotInv, NEW c, SlotStep(c)
    PROVE  active' = Cardinality(Holders')
<1>1. CASE Takes(c)
  <2>1. Cardinality(Holders') = Cardinality(Holders) + 1
    BY <1>1, HoldersFinite, FS_AddElement DEF Takes
  <2> QED
    BY <1>1, <2>1 DEF Takes, SlotInv
<1>2. CASE Gives(c)
  <2>1. Cardinality(Holders') = Cardinality(Holders) - 1
    BY <1>2, HoldersFinite, FS_RemoveElement DEF Gives
  <2> QED
    BY <1>2, <2>1 DEF Gives, SlotInv
<1>3. CASE Keeps
  BY <1>3 DEF Keeps, SlotInv
<1> QED
  BY <1>1, <1>2, <1>3 DEF SlotStep

\* Each step is one of a client, or changes nothing.
LEMMA NextInv ==
    ASSUME Places, SlotInv, [Next]_vars
    PROVE  /\ \/ \E c \in Sessions \cup Requests : SlotStep(c)
              \/ Keeps
           /\ Places' /\ SlotInv'
<1>1. CASE StreamStep
  <2>1. PICK s \in Sessions :
           /\ SlotStep(s) /\ Places'
           /\ \A r \in Sessions : run'[r] = "first" => ~holds'[r]
    BY <1>1, StreamSlots DEF StreamStep
  <2>2. active' = Cardinality(Holders')
    BY <2>1, CountFollows
  <2> QED
    BY <2>1, <2>2 DEF SlotInv
<1>2. CASE HttpStep
  <2>1. PICK r \in Requests : SlotStep(r) /\ Places'
    BY <1>2, HttpSlots DEF HttpStep
  <2>2. active' = Cardinality(Holders')
    BY <2>1, CountFollows
  <2>3. run' = run /\ holds' = holds
    BY <1>2 DEF HttpStep, streamVars
  <2> QED
    BY <2>1, <2>2, <2>3 DEF SlotInv
<1>3. CASE AllOver \/ UNCHANGED vars
  <2>1. UNCHANGED <<active, run, holds, pc>>
    BY <1>3 DEF AllOver, Stream!AllOver, Http!AllOver, Stream!vars,
       Stream!runVars, Http!vars, vars, streamVars, httpVars
  <2>2. Keeps
    BY <2>1 DEF Keeps, Holders, Stream!Holders, Http!Holders
  <2> QED
    BY <2>1, <2>2 DEF Keeps, Places, SlotInv
<1> QED
  BY <1>1, <1>2, <1>3 DEF Next

LEMMA SameCardinality == \A S : Slots!Cardinality(S) = Cardinality(S)
  BY DEF Slots!Cardinality, Cardinality

\* Sessions and requests together implement the abstract admission, whatever
\* their number: no step of either kind takes a slot above the limit, gives back
\* one that its client does not hold, or makes the common counter wrong
\* (app.py _Admission, used by create_app and by streaming.py).
THEOREM ServiceRefinesAdmission == Spec => RefinesAdmission
<1>1. Init => Slots!Init
  BY DEF Init, Stream!Init, Http!Init, Slots!Init, Holders, Stream!Holders,
     Http!Holders, Http!Holding
<1>2. Places /\ SlotInv /\ [Next]_vars => [Slots!Next]_(Slots!vars)
  <2> SUFFICES ASSUME Places, SlotInv, [Next]_vars
               PROVE  [Slots!Next]_(Slots!vars)
    OBVIOUS
  <2>1. ASSUME NEW c \in Sessions \cup Requests, Takes(c) PROVE Slots!Next
    <3>1. Slots!Acquire(c)
      BY <2>1, SameCardinality DEF Takes, SlotInv, Slots!Acquire
    <3> QED
      BY <2>1, <3>1 DEF Slots!Next
  <2>2. ASSUME NEW c \in Sessions \cup Requests, Gives(c) PROVE Slots!Next
    <3>1. Slots!Return(c)
      BY <2>2 DEF Gives, Slots!Return
    <3> QED
      BY <2>2, <3>1 DEF Slots!Next
  <2>3. ASSUME Keeps PROVE UNCHANGED Slots!vars
    BY <2>3 DEF Keeps, Slots!vars
  <2> QED
    BY <2>1, <2>2, <2>3, NextInv DEF SlotStep
<1>3. Places /\ SlotInv /\ [Next]_vars => Places' /\ SlotInv'
  BY NextInv
<1> QED
  BY <1>1, <1>2, <1>3, InitInv, PTL DEF Spec, RefinesAdmission, Slots!Spec
=============================================================================
