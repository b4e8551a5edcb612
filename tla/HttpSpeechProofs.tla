---------------------------- MODULE HttpSpeechProofs ----------------------------
(***************************************************************************)
(* Proofs about HttpSpeech, for any finite set of requests, any limit and    *)
(* any number of segments.                                                  *)
(***************************************************************************)
EXTENDS HttpSpeech, FiniteSetTheorems, TLAPS

-----------------------------------------------------------------------------
(* Types *)

HandlerTypes == pc \in [Requests -> Pcs] /\ result \in [Requests -> Results]
SpeechTypes ==
    /\ spoken \in [Requests -> Nat]
    /\ engine \in [Requests -> {"idle", "live", "closing"}]
FileTypes ==
    /\ dir \in [Requests -> {"none", "there", "gone", "stuck"}]
    /\ output \in [Requests -> {"none", "part", "whole"}]
    /\ encoder \in [Requests -> {"none", "queued", "opened", "writing"}
                                \cup EncoderEnds]

Types == HandlerTypes /\ SpeechTypes /\ FileTypes

USE DEF Pcs, Holding, Results, EncoderEnds

LEMMA InitTypes == Init => Types
  BY DEF Init, Types, HandlerTypes, SpeechTypes, FileTypes

\* Leave only moves the handler.
LEMMA LeaveTypes ==
    ASSUME HandlerTypes, NEW r \in Requests, NEW verdict \in Results,
           Leave(r, verdict)
    PROVE  HandlerTypes'
  BY DEF Leave, HandlerTypes

LEMMA StepTypes ==
    ASSUME Types, NEW r \in Requests, RequestStep(r)
    PROVE  Types'
<1> USE DEF Types
<1>1. CASE ArrivalStep(r) \/ ReadBody(r)
  BY <1>1 DEF ArrivalStep, Refuse, Busy, Admit, ReadBody, HandlerTypes,
              SpeechTypes, FileTypes, speechVars, fileVars
<1>2. CASE BadBody(r) \/ VoiceFails(r) \/ Unwound(r) \/ CleanupOver(r)
           \/ PcmFails(r) \/ EncodingFailed(r) \/ HandOverFails(r)
  <2>1. \E verdict \in Results : Leave(r, verdict)
    BY <1>2 DEF BadBody, VoiceFails, Unwound, CleanupOver, PcmFails,
                EncodingFailed, HandOverFails, HandlerTypes
  <2> QED
    BY <1>2, <2>1, LeaveTypes
    DEF BadBody, VoiceFails, Unwound, CleanupOver, PcmFails, EncodingFailed,
        HandOverFails, SpeechTypes, FileTypes, speechVars, fileVars
<1>3. CASE SegmentStarts(r) \/ EngineStep(r) \/ WriteFails(r)
  <2>1. HandlerTypes' /\ FileTypes'
    BY <1>3 DEF SegmentStarts, EngineStep, SegmentEnds, EngineFails,
                EngineCloses, WriteFails, HandlerTypes, FileTypes, fileVars
  <2>2. SpeechTypes'
    BY <1>3 DEF SegmentStarts, EngineStep, SegmentEnds, EngineFails,
                EngineCloses, WriteFails, SpeechTypes
  <2> QED
    BY <2>1, <2>2
<1>4. CASE SpeechOver(r) \/ EncoderStep(r)
  <2>1. HandlerTypes' /\ SpeechTypes'
    BY <1>4 DEF SpeechOver, EncoderStep, EncoderOpens, EncoderCreates,
                EncoderDone, EncoderFails, HandlerTypes, SpeechTypes, speechVars
  <2>2. FileTypes'
    BY <1>4 DEF SpeechOver, EncoderStep, EncoderOpens, EncoderCreates,
                EncoderDone, EncoderFails, FileTypes
  <2> QED
    BY <2>1, <2>2
<1>5. CASE HandOver(r) \/ Unlink(r) \/ Rmdir(r) \/ ResponseOver(r)
  BY <1>5 DEF HandOver, Unlink, Rmdir, ResponseOver, HandlerTypes, SpeechTypes,
              FileTypes, speechVars, fileVars
<1>6. CASE Cancel(r)
  <2>1. CASE engine[r] = "live"
    BY <1>6, <2>1 DEF Cancel, HandlerTypes, SpeechTypes, FileTypes, fileVars
  <2>2. CASE engine[r] # "live"
    BY <1>6, <2>2, LeaveTypes DEF Cancel, SpeechTypes, FileTypes, speechVars,
                                  fileVars
  <2> QED
    BY <2>1, <2>2
<1> QED
  BY <1>1, <1>2, <1>3, <1>4, <1>5, <1>6
  DEF RequestStep, BodyStep, SpeechStep, EndStep, OtherStep

LEMMA NextTypes == Types /\ [Next]_vars => Types'
<1>1. Types /\ UNCHANGED vars => Types'
  BY DEF vars, speechVars, fileVars, Types, HandlerTypes, SpeechTypes, FileTypes
<1> QED
  BY <1>1, StepTypes DEF Next, AllOver

LEMMA AlwaysTypes == Spec => []Types
  BY InitTypes, NextTypes, PTL DEF Spec

-----------------------------------------------------------------------------
(* A request's own state *)

\* Where the engine stream and the encoder thread can be.
StreamInv(r) ==
    /\ engine[r] = "live" => pc[r] = "synth" /\ spoken[r] < MaxSegments
    /\ engine[r] # "idle" => encoder[r] = "none"
    /\ spoken[r] <= MaxSegments
    /\ encoder[r] # "none" => pc[r] \in {"encode", "unlink", "rmdir", "send", "over"}

\* Whose the directory is and what is in it.
FileInv(r) ==
    /\ pc[r] \in {"new", "body"} => dir[r] = "none"
    /\ pc[r] \in {"synth", "unwind", "bounded", "encode", "unlink", "rmdir"}
          => dir[r] = "there"
    /\ encoder[r] \in {"none", "queued", "opened"} => output[r] = "none"
    /\ pc[r] = "encode" /\ encoder[r] = "writing" => output[r] = "part"
    /\ pc[r] = "encode" /\ encoder[r] = "done" => output[r] = "whole"
    /\ pc[r] = "encode" => encoder[r] # "none"
    /\ pc[r] = "send" =>
          dir[r] = "there" /\ output[r] = "whole" /\ encoder[r] = "done"
    /\ pc[r] \in {"unlink", "rmdir"} /\ result[r] # "cancelled" =>
          encoder[r] \in {"none"} \cup EncoderEnds
    /\ pc[r] = "rmdir" /\ result[r] # "cancelled" => output[r] = "none"
    /\ pc[r] = "over" /\ dir[r] = "there" =>
          result[r] = "cancelled" /\ encoder[r] # "none"

RequestInv == \A r \in Requests : StreamInv(r) /\ FileInv(r)

\* A step of one request is not seen by another.
Same(q) ==
    /\ pc'[q] = pc[q] /\ result'[q] = result[q]
    /\ spoken'[q] = spoken[q] /\ engine'[q] = engine[q]
    /\ dir'[q] = dir[q] /\ output'[q] = output[q] /\ encoder'[q] = encoder[q]

LEMMA OthersSame ==
    ASSUME Types, NEW r \in Requests, RequestStep(r), NEW q \in Requests, q # r
    PROVE  Same(q)
<1> USE DEF Types, HandlerTypes, SpeechTypes, FileTypes, Same, speechVars, fileVars
<1>1. CASE ArrivalStep(r) \/ BodyStep(r)
  BY <1>1 DEF ArrivalStep, Refuse, Busy, Admit, BodyStep, ReadBody, BadBody, Leave
<1>2. CASE SpeechStep(r)
  BY <1>2 DEF SpeechStep, SegmentStarts, Unwound, CleanupOver, SpeechOver, Leave
<1>3. CASE EngineStep(r)
  BY <1>3 DEF EngineStep, SegmentEnds, EngineFails, EngineCloses
<1>4. CASE EncoderStep(r)
  BY <1>4 DEF EncoderStep, EncoderOpens, EncoderCreates, EncoderDone, EncoderFails
<1>5. CASE EndStep(r)
  BY <1>5 DEF EndStep, EncodingFailed, HandOver, Unlink, Rmdir, Leave
<1>6. CASE OtherStep(r)
  BY <1>6 DEF OtherStep, VoiceFails, WriteFails, PcmFails, HandOverFails, Cancel,
              ResponseOver, Leave
<1> QED
  BY <1>1, <1>2, <1>3, <1>4, <1>5, <1>6 DEF RequestStep

LEMMA InitRequestInv == Init => RequestInv
  BY HttpBounds DEF Init, RequestInv, StreamInv, FileInv

LEMMA OwnStreamInv ==
    ASSUME Types, NEW r \in Requests, StreamInv(r), FileInv(r), RequestStep(r)
    PROVE  StreamInv(r)'
<1> USE HttpBounds DEF Types, HandlerTypes, SpeechTypes, FileTypes, StreamInv,
                       speechVars, fileVars
<1>1. CASE ArrivalStep(r) \/ BodyStep(r)
  BY <1>1 DEF ArrivalStep, Refuse, Busy, Admit, BodyStep, ReadBody, BadBody, Leave
<1>2. CASE SegmentStarts(r) \/ SpeechOver(r)
  BY <1>2 DEF SegmentStarts, SpeechOver
<1>3. CASE Unwound(r) \/ CleanupOver(r) \/ VoiceFails(r) \/ PcmFails(r)
  BY <1>3 DEF Unwound, CleanupOver, VoiceFails, PcmFails, Leave
<1>4. CASE EngineStep(r) \/ WriteFails(r)
  BY <1>4 DEF EngineStep, SegmentEnds, EngineFails, EngineCloses, WriteFails
<1>5. CASE EncoderStep(r)
  BY <1>5 DEF EncoderStep, EncoderOpens, EncoderCreates, EncoderDone, EncoderFails
<1>6. CASE EndStep(r) \/ HandOverFails(r) \/ ResponseOver(r)
  BY <1>6 DEF EndStep, EncodingFailed, HandOver, HandOverFails, Unlink, Rmdir,
              ResponseOver, Leave
<1>7. CASE Cancel(r)
  BY <1>7 DEF Cancel, Leave
<1> QED
  BY <1>1, <1>2, <1>3, <1>4, <1>5, <1>6, <1>7
  DEF RequestStep, SpeechStep, OtherStep

LEMMA OwnFileInv ==
    ASSUME Types, NEW r \in Requests, StreamInv(r), FileInv(r), RequestStep(r)
    PROVE  FileInv(r)'
<1> USE DEF Types, HandlerTypes, SpeechTypes, FileTypes, FileInv, speechVars,
            fileVars
<1>1. CASE ArrivalStep(r) \/ BodyStep(r)
  BY <1>1 DEF ArrivalStep, Refuse, Busy, Admit, BodyStep, ReadBody, BadBody,
              Leave, StreamInv
<1>2. CASE SegmentStarts(r) \/ SpeechOver(r)
  BY <1>2 DEF SegmentStarts, SpeechOver, StreamInv
<1>3. CASE Unwound(r) \/ CleanupOver(r) \/ VoiceFails(r) \/ PcmFails(r)
  BY <1>3 DEF Unwound, CleanupOver, VoiceFails, PcmFails, Leave, StreamInv
<1>4. CASE EngineStep(r) \/ WriteFails(r)
  BY <1>4 DEF EngineStep, SegmentEnds, EngineFails, EngineCloses, WriteFails
<1>5. CASE EncoderOpens(r) \/ EncoderFails(r)
  BY <1>5 DEF EncoderOpens, EncoderFails, StreamInv
<1>6. CASE EncoderCreates(r)
  BY <1>6 DEF EncoderCreates, StreamInv
<1>7. CASE EncoderDone(r)
  BY <1>7 DEF EncoderDone, StreamInv
<1>8. CASE EncodingFailed(r) \/ HandOver(r) \/ HandOverFails(r)
  BY <1>8 DEF EncodingFailed, HandOver, HandOverFails, Leave
<1>9. CASE Unlink(r) \/ Rmdir(r)
  BY <1>9 DEF Unlink, Rmdir
<1>10. CASE ResponseOver(r)
  BY <1>10 DEF ResponseOver
<1>11. CASE Cancel(r)
  BY <1>11 DEF Cancel, Leave, StreamInv
<1> QED
  BY <1>1, <1>2, <1>3, <1>4, <1>5, <1>6, <1>7, <1>8, <1>9, <1>10, <1>11
  DEF RequestStep, SpeechStep, EncoderStep, EndStep, OtherStep

LEMMA NextRequestInv == Types /\ RequestInv /\ [Next]_vars => RequestInv'
<1> SUFFICES ASSUME Types, RequestInv, [Next]_vars, NEW q \in Requests
             PROVE  (StreamInv(q) /\ FileInv(q))'
  BY DEF RequestInv
<1>1. StreamInv(q) /\ FileInv(q)
  BY DEF RequestInv
<1>2. ASSUME Same(q) PROVE (StreamInv(q) /\ FileInv(q))'
  BY <1>1, <1>2 DEF Same, StreamInv, FileInv
<1>3. ASSUME NEW r \in Requests, RequestStep(r) PROVE (StreamInv(q) /\ FileInv(q))'
  <2>1. CASE r = q
    BY <1>1, <1>3, <2>1, OwnStreamInv, OwnFileInv
  <2>2. CASE r # q
    BY <1>2, <1>3, <2>2, OthersSame
  <2> QED
    BY <2>1, <2>2
<1>4. CASE UNCHANGED vars
  BY <1>2, <1>4 DEF vars, speechVars, fileVars, Same
<1> QED
  BY <1>3, <1>4 DEF Next, AllOver

LEMMA AlwaysRequestInv == Spec => []RequestInv
<1>1. Types /\ RequestInv /\ [Next]_vars => RequestInv'
  BY NextRequestInv
<1> QED
  BY <1>1, InitRequestInv, AlwaysTypes, PTL DEF Spec

\* A stream that speaks belongs to a handler with a slot, and nothing is encoded
\* while one is open (app.py synthesize).
THEOREM LiveStreamHoldsSlotHolds == Spec => []LiveStreamHoldsSlot
<1>1. RequestInv => LiveStreamHoldsSlot
  BY DEF RequestInv, StreamInv, LiveStreamHoldsSlot
<1> QED
  BY <1>1, AlwaysRequestInv, PTL

\* What a response sends is complete and nobody works on it (app.py
\* _OwnedFileResponse).
THEOREM ResponseFileWholeHolds == Spec => []ResponseFileWhole
<1>1. RequestInv => ResponseFileWhole
  BY DEF RequestInv, FileInv, ResponseFileWhole
<1> QED
  BY <1>1, AlwaysRequestInv, PTL

\* No directory the disk lets go outlives its request, save one in which the
\* encoder thread of a cancelled request was at work (app.py synthesize, finally).
THEOREM DirectoryReclaimedHolds == Spec => []DirectoryReclaimed
<1>1. RequestInv => DirectoryReclaimed
  BY DEF RequestInv, FileInv, DirectoryReclaimed
<1> QED
  BY <1>1, AlwaysRequestInv, PTL

-----------------------------------------------------------------------------
(* Slots *)

\* What a step does to the counter and to the set of handlers with a slot.
Takes(r) ==
    /\ r \notin Holders /\ active < Limit
    /\ Holders' = Holders \cup {r} /\ active' = active + 1
Gives(r) ==
    /\ r \in Holders
    /\ Holders' = Holders \ {r} /\ active' = active - 1
Keeps == Holders' = Holders /\ active' = active

LEMMA PcKeepsHolders ==
    ASSUME Types, NEW r \in Requests,
           \A q \in Requests : q # r => pc'[q] = pc[q],
           pc[r] \in Holding <=> pc'[r] \in Holding
    PROVE  Holders' = Holders
  BY DEF Holders

LEMMA StepOnSlots ==
    ASSUME Types, NEW r \in Requests, RequestStep(r)
    PROVE  Takes(r) \/ Gives(r) \/ Keeps
<1>1. \A q \in Requests : q # r => pc'[q] = pc[q]
  BY OthersSame DEF Same
<1>2. pc' \in [Requests -> Pcs]
  BY StepTypes DEF Types, HandlerTypes
<1>3. ASSUME active' = active, pc[r] \in Holding <=> pc'[r] \in Holding
      PROVE  Keeps
  BY <1>1, <1>3, PcKeepsHolders DEF Keeps
<1>4. ASSUME active' = active - 1, pc[r] \in Holding, pc'[r] \notin Holding
      PROVE  Gives(r)
  BY <1>1, <1>4 DEF Gives, Holders
<1>5. ASSUME NEW verdict, Leave(r, verdict), pc[r] \in Holding
      PROVE  Gives(r) \/ Keeps
  BY <1>3, <1>4, <1>5 DEF Leave, Types, HandlerTypes
<1>6. CASE Refuse(r) \/ Busy(r) \/ ReadBody(r) \/ SegmentStarts(r)
           \/ SegmentEnds(r) \/ EngineFails(r) \/ EngineCloses(r)
           \/ WriteFails(r) \/ SpeechOver(r) \/ EncoderStep(r) \/ Unlink(r)
           \/ ResponseOver(r)
  BY <1>3, <1>6
  DEF Refuse, Busy, ReadBody, SegmentStarts, SegmentEnds, EngineFails,
      EngineCloses, WriteFails, SpeechOver, EncoderStep, EncoderOpens,
      EncoderCreates, EncoderDone, EncoderFails, Unlink, ResponseOver, Types,
      HandlerTypes
<1>7. CASE Admit(r)
  <2>1. pc[r] = "new" /\ pc'[r] = "body" /\ active' = active + 1 /\ active < Limit
    BY <1>7 DEF Admit, Types, HandlerTypes
  <2> QED
    BY <1>1, <2>1 DEF Takes, Holders
<1>8. CASE HandOver(r) \/ Rmdir(r)
  BY <1>4, <1>8 DEF HandOver, Rmdir, Types, HandlerTypes
<1>9. CASE BadBody(r) \/ VoiceFails(r) \/ Unwound(r) \/ CleanupOver(r)
           \/ PcmFails(r) \/ EncodingFailed(r) \/ HandOverFails(r)
  BY <1>5, <1>9 DEF BadBody, VoiceFails, Unwound, CleanupOver, PcmFails,
                    EncodingFailed, HandOverFails
<1>10. CASE Cancel(r)
  <2>1. CASE engine[r] = "live"
    BY <1>3, <1>10, <2>1 DEF Cancel, Types, HandlerTypes
  <2>2. CASE engine[r] # "live"
    BY <1>5, <1>10, <2>2 DEF Cancel
  <2> QED
    BY <2>1, <2>2
<1> QED
  BY <1>6, <1>7, <1>8, <1>9, <1>10
  DEF RequestStep, ArrivalStep, BodyStep, SpeechStep, EngineStep, EndStep,
      OtherStep

SlotInv == active = Cardinality(Holders) /\ active <= Limit

LEMMA HoldersFinite ==
    IsFiniteSet(Holders) /\ Cardinality(Holders) \in Nat
<1>1. Holders \subseteq Requests
  BY DEF Holders
<1> QED
  BY <1>1, RequestAssumption, FS_Subset, FS_CardinalityType

LEMMA InitSlotInv == Init => SlotInv
<1> SUFFICES ASSUME Init PROVE SlotInv
  OBVIOUS
<1>1. Holders = {}
  BY DEF Init, Holders
<1> QED
  BY <1>1, FS_EmptySet, HttpBounds DEF Init, SlotInv

LEMMA NextSlotInv == Types /\ SlotInv /\ [Next]_vars => SlotInv'
<1> SUFFICES ASSUME Types, SlotInv, [Next]_vars PROVE SlotInv'
  OBVIOUS
<1> USE HoldersFinite, HttpBounds DEF SlotInv
<1>1. ASSUME NEW r \in Requests, Takes(r) PROVE SlotInv'
  <2>1. Cardinality(Holders') = Cardinality(Holders) + 1
    BY <1>1, FS_AddElement DEF Takes
  <2> QED
    BY <1>1, <2>1 DEF Takes
<1>2. ASSUME NEW r \in Requests, Gives(r) PROVE SlotInv'
  <2>1. Cardinality(Holders') = Cardinality(Holders) - 1
    BY <1>2, FS_RemoveElement DEF Gives
  <2> QED
    BY <1>2, <2>1 DEF Gives
<1>3. ASSUME Keeps PROVE SlotInv'
  BY <1>3 DEF Keeps
<1>4. CASE UNCHANGED vars
  BY <1>3, <1>4 DEF vars, Keeps, Holders
<1> QED
  BY <1>1, <1>2, <1>3, <1>4, StepOnSlots DEF Next, AllOver

LEMMA AlwaysSlotInv == Spec => []SlotInv
<1>1. Types /\ SlotInv /\ [Next]_vars => SlotInv'
  BY NextSlotInv
<1> QED
  BY <1>1, InitSlotInv, AlwaysTypes, PTL DEF Spec

\* Every reachable state is well typed; in particular the counter stays within
\* 0..Limit on every path of every handler.
THEOREM TypeCorrect == Spec => []TypeOK
<1>1. Types /\ RequestInv /\ SlotInv => TypeOK
  <2> SUFFICES ASSUME Types, RequestInv, SlotInv PROVE TypeOK
    OBVIOUS
  <2>1. active \in 0..Limit
    BY HoldersFinite, HttpBounds DEF SlotInv
  <2>2. spoken \in [Requests -> 0..MaxSegments]
    BY HttpBounds DEF Types, SpeechTypes, RequestInv, StreamInv
  <2> QED
    BY <2>1, <2>2 DEF Types, HandlerTypes, SpeechTypes, FileTypes, TypeOK
<1> QED
  BY <1>1, AlwaysTypes, AlwaysRequestInv, AlwaysSlotInv, PTL
=============================================================================
