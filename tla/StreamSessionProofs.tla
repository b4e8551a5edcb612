------------------------- MODULE StreamSessionProofs -------------------------
(***************************************************************************)
(* What TLAPS proves of StreamSession for every finite set of sessions,    *)
(* every limit and every bound on text and audio: first its types, its     *)
(* slots and its frames; then that the text is spoken in order and         *)
(* completely, and that the terminal frame tells the truth about it.       *)
(***************************************************************************)
EXTENDS StreamSession, FiniteSetTheorems, SequenceTheorems, TLAPS

-----------------------------------------------------------------------------
(* Frames: what each kind of step leaves alone. *)

\* Variables no such step changes.
LEMMA HandshakeStepFrame == ASSUME NEW s, HandshakeStep(s) PROVE UNCHANGED
   <<recvVars, stopped, queue, genVars>>
  BY DEF HandshakeStep, EndBeforeStart, StartBusy, StartAdmitted,
         EnterTerminal, runVars, recvVars, textVars, genVars

\* Variables no such step changes.
LEMMA MessageStepFrame == ASSUME NEW s, MessageStep(s) PROVE UNCHANGED
   <<runVars, conn, genVars>>
  BY DEF MessageStep, Append_, Flush, Finish, Cancel, IdleTimeout, BadMessage,
         ReturnCancel, runVars, recvVars, textVars, genVars

\* Variables no such step changes.
LEMMA DisconnectFrame == ASSUME NEW s, Disconnect(s) PROVE UNCHANGED
   <<runVars, recv, textVars, stopped, queue, genVars>>
  BY DEF Disconnect, runVars, recvVars, textVars, genVars

\* Variables no such step changes.
LEMMA RecvStepFrame == ASSUME NEW s, RecvStep(s) PROVE UNCHANGED <<runVars,
   conn, stopped, genVars>>
  BY DEF RecvStep, SegmentDeadline, RecvDisconnect, runVars, recvVars,
         textVars, genVars

\* Variables no such step changes.
LEMMA GenStepFrame == ASSUME NEW s, GenStep(s) PROVE UNCHANGED <<runVars,
   recvVars, stopped>>
  BY DEF GenStep, TakeSegment, TakeEnd, SendDone, SendFails, UnwindDone,
         CloseDone, CloseFails, runVars, recvVars, textVars, genVars

\* Variables no such step changes.
LEMMA EngineStepFrame == ASSUME NEW s, EngineStep(s) PROVE UNCHANGED
   <<runVars, recvVars, stopped, queue>>
  BY DEF EngineStep, Prepare, PrepareFails, PcmDropped, PcmSent,
         SegmentComplete, EngineFails, EngineClosed, runVars, recvVars,
         textVars, genVars

\* Variables no such step changes.
LEMMA RunStepFrame == ASSUME NEW s, RunStep(s) PROVE UNCHANGED <<conn,
   textVars, queue, seg, pcm, heard>>
  BY DEF RunStep, SendReady, ReadyFails, CoordGenFailed, CoordCancel,
         CoordRecvFailed, CoordGenDone, StopGenOver, FinStopGen, FinGenOver,
         Release, CloseSocket, CancelGen, EnterFinally, EnterTerminal, runVars,
         recvVars, textVars, genVars

-----------------------------------------------------------------------------
(* Types, one group of variables at a time. *)

\* The end marker is well typed.
LEMMA EndType == END \in Segments
  BY BoundAssumption DEF END, Segments

\* The segments of one cut are well typed.
LEMMA CutsType ==
    ASSUME NEW a \in 0..MaxText, NEW b \in 0..MaxText, NEW c \in 0..MaxText
    PROVE  Cuts(a, b, c) \in Seq(Segments)
<1>1. /\ [from |-> a, to |-> b] \in Segments
      /\ [from |-> b, to |-> c] \in Segments
  BY DEF Segments
<1> QED
  BY <1>1 DEF Cuts

\* What a segment deadline queues is well typed.
LEMMA DeadlineSpeech ==
    ASSUME SpeechTypes, TextTypes, NEW s \in Sessions, SegmentDeadline(s)
    PROVE  SpeechTypes'
<1>1. PICK new \in cut[s]..accepted[s] :
        queue' = [queue EXCEPT ![s] = @ \o Cuts(cut[s], cut[s], new)]
  BY DEF SegmentDeadline
<1>2. new \in 0..MaxText /\ cut[s] \in 0..MaxText
  BY BoundAssumption DEF TextTypes
<1>3. Cuts(cut[s], cut[s], new) \in Seq(Segments)
  BY <1>2, CutsType
<1>4. UNCHANGED <<seg, heard>>
  BY DEF SegmentDeadline, genVars
<1> QED
  BY <1>1, <1>3, <1>4 DEF SpeechTypes

\* What an append queues is well typed.
LEMMA AppendSpeech ==
    ASSUME SpeechTypes, TextTypes, NEW s \in Sessions, Append_(s)
    PROVE  SpeechTypes'
<1>1. PICK total \in accepted[s]..MaxText : \E mid, new \in cut[s]..total :
        queue' = [queue EXCEPT ![s] = @ \o Cuts(cut[s], mid, new)]
  BY DEF Append_
<1>5. PICK mid \in cut[s]..total, new \in cut[s]..total :
        queue' = [queue EXCEPT ![s] = @ \o Cuts(cut[s], mid, new)]
  BY <1>1
<1>2. new \in 0..MaxText /\ cut[s] \in 0..MaxText /\ mid \in 0..MaxText
  BY BoundAssumption DEF TextTypes
<1>3. Cuts(cut[s], mid, new) \in Seq(Segments)
  BY <1>2, CutsType
<1>4. UNCHANGED <<seg, heard>>
  BY DEF Append_, genVars
<1> QED
  BY <1>5, <1>3, <1>4 DEF SpeechTypes

\* What a flush or a finish queues is well typed.
LEMMA FlushSpeech ==
    ASSUME SpeechTypes, TextTypes, NEW s \in Sessions, Flush(s) \/ Finish(s)
    PROVE  SpeechTypes'
<1> DEFINE out == Cuts(cut[s], cut[s], accepted[s])
<1>1. out \in Seq(Segments)
  BY CutsType DEF TextTypes
<1>2. \/ queue' = [queue EXCEPT ![s] = @ \o out]
      \/ queue' = [queue EXCEPT ![s] = Append(@ \o out, END)]
  BY DEF Flush, Finish
<1>3. UNCHANGED <<seg, heard>>
  BY DEF Flush, Finish, genVars
<1> HIDE DEF out
<1>4. queue[s] \o out \in Seq(Segments)
  BY <1>1 DEF SpeechTypes
<1>5. Append(queue[s] \o out, END) \in Seq(Segments)
  BY <1>4, EndType
<1> QED
  BY <1>2, <1>3, <1>4, <1>5 DEF SpeechTypes

\* An append keeps the segmenter's variables well typed.
LEMMA AppendText ==
    ASSUME TextTypes, NEW s \in Sessions, Append_(s)
    PROVE  TextTypes'
<1> USE BoundAssumption DEF TextTypes, Append_
<1>1. accepted' \in [Sessions -> 0..MaxText]
  OBVIOUS
<1>2. cut' \in [Sessions -> 0..MaxText]
  OBVIOUS
<1>3. segTimer' \in [Sessions -> BOOLEAN]
  <2>1. PICK total \in accepted[s]..MaxText : \E new \in cut[s]..total :
          \/ segTimer' = [segTimer EXCEPT ![s] = new < total]
          \/ segTimer' = [segTimer EXCEPT ![s] = TRUE]
          \/ segTimer' = segTimer
    BY Zenon
  <2>2. PICK new \in cut[s]..total :
          \/ segTimer' = [segTimer EXCEPT ![s] = new < total]
          \/ segTimer' = [segTimer EXCEPT ![s] = TRUE]
          \/ segTimer' = segTimer
    BY <2>1
  <2>3. (new < total) \in BOOLEAN
    OBVIOUS
  <2> HIDE DEF Append_
  <2> QED
    BY <2>2, <2>3, Zenon
<1>4. expired' \in [Sessions -> BOOLEAN]
  OBVIOUS
<1>5. finished' \in [Sessions -> BOOLEAN]
  OBVIOUS
<1> QED
  BY <1>1, <1>2, <1>3, <1>4, <1>5

\* One group of variables keeps its types in every step.
LEMMA RunTypesStep ==
    RunTypes /\ RecvTypes /\ GenTypes /\ [Next]_vars => RunTypes'
<1> SUFFICES ASSUME RunTypes, RecvTypes, GenTypes, [Next]_vars
             PROVE  RunTypes'
  OBVIOUS
<1> USE BoundAssumption DEF RunTypes, RunPcs, Verdicts, RecvRuns, RecvEnds,
   GenPcs, GenEnds, RecvTypes, GenTypes
<1>1. ASSUME NEW s \in Sessions, HandshakeStep(s) PROVE RunTypes'
  <2>1. CASE EndBeforeStart(s)
    BY <2>1 DEF EndBeforeStart, EnterTerminal, runVars, recvVars, textVars,
       genVars
  <2>2. CASE StartBusy(s)
    BY <2>2 DEF StartBusy, EnterTerminal, runVars, recvVars, textVars, genVars
  <2>3. CASE StartAdmitted(s)
    BY <2>3 DEF StartAdmitted, runVars, recvVars, textVars, genVars
  <2> QED
    BY <1>1, <2>1, <2>2, <2>3 DEF HandshakeStep
<1>2. ASSUME NEW s \in Sessions, MessageStep(s) PROVE RunTypes'
  BY <1>2, MessageStepFrame DEF runVars, recvVars, textVars, genVars
<1>3. ASSUME NEW s \in Sessions, Disconnect(s) PROVE RunTypes'
  BY <1>3, DisconnectFrame DEF runVars, recvVars, textVars, genVars
<1>4. ASSUME NEW s \in Sessions, RecvStep(s) PROVE RunTypes'
  BY <1>4, RecvStepFrame DEF runVars, recvVars, textVars, genVars
<1>5. ASSUME NEW s \in Sessions, GenStep(s) PROVE RunTypes'
  BY <1>5, GenStepFrame DEF runVars, recvVars, textVars, genVars
<1>6. ASSUME NEW s \in Sessions, EngineStep(s) PROVE RunTypes'
  BY <1>6, EngineStepFrame DEF runVars, recvVars, textVars, genVars
<1>7. ASSUME NEW s \in Sessions, RunStep(s) PROVE RunTypes'
  <2>1. CASE SendReady(s)
    BY <2>1 DEF SendReady, runVars, recvVars, textVars, genVars
  <2>2. CASE ReadyFails(s)
    BY <2>2 DEF ReadyFails, EnterTerminal, runVars, recvVars, textVars, genVars
  <2>3. CASE CoordGenFailed(s)
    BY <2>3 DEF CoordGenFailed, EnterFinally, runVars, recvVars, textVars,
       genVars
  <2>4. CASE CoordCancel(s)
    BY <2>4 DEF CoordCancel, CancelGen, runVars, recvVars, textVars, genVars
  <2>5. CASE CoordRecvFailed(s)
    BY <2>5 DEF CoordRecvFailed, EnterFinally, runVars, recvVars, textVars,
       genVars
  <2>6. CASE CoordGenDone(s)
    BY <2>6 DEF CoordGenDone, EnterFinally, runVars, recvVars, textVars,
       genVars
  <2>7. CASE StopGenOver(s)
    BY <2>7 DEF StopGenOver, EnterFinally, runVars, recvVars, textVars, genVars
  <2>8. CASE FinStopGen(s)
    BY <2>8 DEF FinStopGen, CancelGen, runVars, recvVars, textVars, genVars
  <2>9. CASE FinGenOver(s)
    BY <2>9 DEF FinGenOver, EnterTerminal, runVars, recvVars, textVars, genVars
  <2>10. CASE Release(s)
    BY <2>10 DEF Release, runVars, recvVars, textVars, genVars
  <2>11. CASE CloseSocket(s)
    BY <2>11 DEF CloseSocket, runVars, recvVars, textVars, genVars
  <2> QED
    BY <1>7, <2>1, <2>2, <2>3, <2>4, <2>5, <2>6, <2>7, <2>8, <2>9, <2>10,
       <2>11 DEF RunStep
<1>8. CASE UNCHANGED vars
  BY <1>8 DEF vars, runVars, recvVars, textVars, genVars
<1> QED
  BY <1>1, <1>2, <1>3, <1>4, <1>5, <1>6, <1>7, <1>8 DEF Next, AllOver

\* One group of variables keeps its types in every step.
LEMMA RecvTypesStep ==
    RecvTypes /\ [Next]_vars => RecvTypes'
<1> SUFFICES ASSUME RecvTypes, [Next]_vars
             PROVE  RecvTypes'
  OBVIOUS
<1> USE BoundAssumption DEF RecvTypes, RecvRuns, RecvEnds
<1>1. ASSUME NEW s \in Sessions, HandshakeStep(s) PROVE RecvTypes'
  BY <1>1, HandshakeStepFrame DEF runVars, recvVars, textVars, genVars
<1>2. ASSUME NEW s \in Sessions, MessageStep(s) PROVE RecvTypes'
  <2>1. CASE Cancel(s)
    BY <2>1 DEF Cancel, ReturnCancel, runVars, recvVars, textVars, genVars
  <2>2. CASE IdleTimeout(s)
    BY <2>2 DEF IdleTimeout, ReturnCancel, runVars, recvVars, textVars, genVars
  <2>3. CASE BadMessage(s)
    BY <2>3 DEF BadMessage, runVars, recvVars, textVars, genVars
  <2>4. CASE Append_(s) \/ Flush(s) \/ Finish(s)
    BY <2>4
    DEF Append_, Flush, Finish, runVars, recvVars, textVars, genVars
  <2> QED
    BY <1>2, <2>1, <2>2, <2>3, <2>4 DEF MessageStep
<1>3. ASSUME NEW s \in Sessions, Disconnect(s) PROVE RecvTypes'
  BY <1>3 DEF Disconnect, textVars
<1>4. ASSUME NEW s \in Sessions, RecvStep(s) PROVE RecvTypes'
  <2>1. CASE RecvDisconnect(s)
    BY <2>1 DEF RecvDisconnect, runVars, recvVars, textVars, genVars
  <2>2. CASE SegmentDeadline(s)
    BY <2>2
    DEF SegmentDeadline, runVars, recvVars, textVars, genVars
  <2> QED
    BY <1>4, <2>1, <2>2 DEF RecvStep
<1>5. ASSUME NEW s \in Sessions, GenStep(s) PROVE RecvTypes'
  BY <1>5, GenStepFrame DEF runVars, recvVars, textVars, genVars
<1>6. ASSUME NEW s \in Sessions, EngineStep(s) PROVE RecvTypes'
  BY <1>6, EngineStepFrame DEF runVars, recvVars, textVars, genVars
<1>7. ASSUME NEW s \in Sessions, RunStep(s) PROVE RecvTypes'
  <2>1. CASE SendReady(s)
    BY <2>1 DEF SendReady, runVars, recvVars, textVars, genVars
  <2>2. CASE ReadyFails(s)
    BY <2>2 DEF ReadyFails, EnterTerminal, runVars, recvVars, textVars, genVars
  <2>3. CASE CoordGenFailed(s)
    BY <2>3 DEF CoordGenFailed, EnterFinally, runVars, recvVars, textVars,
       genVars
  <2>4. CASE CoordCancel(s)
    BY <2>4 DEF CoordCancel, CancelGen, runVars, recvVars, textVars, genVars
  <2>5. CASE CoordRecvFailed(s)
    BY <2>5 DEF CoordRecvFailed, EnterFinally, runVars, recvVars, textVars,
       genVars
  <2>6. CASE CoordGenDone(s)
    BY <2>6 DEF CoordGenDone, EnterFinally, runVars, recvVars, textVars,
       genVars
  <2>7. CASE StopGenOver(s)
    BY <2>7 DEF StopGenOver, EnterFinally, runVars, recvVars, textVars, genVars
  <2>8. CASE FinStopGen(s) \/ FinGenOver(s) \/ Release(s) \/ CloseSocket(s)
    BY <2>8
    DEF FinStopGen, FinGenOver, Release, CloseSocket, CancelGen,
       EnterTerminal, runVars, recvVars, textVars, genVars
  <2> QED
    BY <1>7, <2>1, <2>2, <2>3, <2>4, <2>5, <2>6, <2>7, <2>8 DEF RunStep
<1>8. CASE UNCHANGED vars
  BY <1>8 DEF vars, runVars, recvVars, textVars, genVars
<1> QED
  BY <1>1, <1>2, <1>3, <1>4, <1>5, <1>6, <1>7, <1>8 DEF Next, AllOver

\* One group of variables keeps its types in every step.
LEMMA TextTypesStep ==
    TextTypes /\ [Next]_vars => TextTypes'
<1> SUFFICES ASSUME TextTypes, [Next]_vars
             PROVE  TextTypes'
  OBVIOUS
<1> USE BoundAssumption DEF TextTypes
<1>1. ASSUME NEW s \in Sessions, HandshakeStep(s) PROVE TextTypes'
  BY <1>1, HandshakeStepFrame DEF runVars, recvVars, textVars, genVars
<1>2. ASSUME NEW s \in Sessions, MessageStep(s) PROVE TextTypes'
  <2>1. CASE Append_(s)
    BY <2>1, AppendText
  <2>2. CASE Flush(s)
    BY <2>2 DEF Flush, Cuts, runVars, recvVars, textVars, genVars
  <2>3. CASE Finish(s)
    BY <2>3 DEF Finish, Cuts, runVars, recvVars, textVars, genVars
  <2>4. CASE Cancel(s) \/ IdleTimeout(s) \/ BadMessage(s)
    BY <2>4
    DEF Cancel, IdleTimeout, BadMessage, ReturnCancel, runVars, recvVars,
       textVars, genVars
  <2> QED
    BY <1>2, <2>1, <2>2, <2>3, <2>4 DEF MessageStep
<1>3. ASSUME NEW s \in Sessions, Disconnect(s) PROVE TextTypes'
  BY <1>3, DisconnectFrame DEF runVars, recvVars, textVars, genVars
<1>4. ASSUME NEW s \in Sessions, RecvStep(s) PROVE TextTypes'
  <2>1. CASE SegmentDeadline(s)
    BY <2>1 DEF SegmentDeadline, Cuts, runVars, recvVars, textVars, genVars
  <2>2. CASE RecvDisconnect(s)
    BY <2>2
    DEF RecvDisconnect, runVars, recvVars, textVars, genVars
  <2> QED
    BY <1>4, <2>1, <2>2 DEF RecvStep
<1>5. ASSUME NEW s \in Sessions, GenStep(s) PROVE TextTypes'
  BY <1>5, GenStepFrame DEF runVars, recvVars, textVars, genVars
<1>6. ASSUME NEW s \in Sessions, EngineStep(s) PROVE TextTypes'
  BY <1>6, EngineStepFrame DEF runVars, recvVars, textVars, genVars
<1>7. ASSUME NEW s \in Sessions, RunStep(s) PROVE TextTypes'
  BY <1>7, RunStepFrame DEF runVars, recvVars, textVars, genVars
<1>8. CASE UNCHANGED vars
  BY <1>8 DEF vars, runVars, recvVars, textVars, genVars
<1> QED
  BY <1>1, <1>2, <1>3, <1>4, <1>5, <1>6, <1>7, <1>8 DEF Next, AllOver

\* One group of variables keeps its types in every step.
LEMMA GenTypesStep ==
    GenTypes /\ [Next]_vars => GenTypes'
<1> SUFFICES ASSUME GenTypes, [Next]_vars
             PROVE  GenTypes'
  OBVIOUS
<1> USE BoundAssumption DEF GenTypes, GenPcs, GenEnds
<1>1. ASSUME NEW s \in Sessions, HandshakeStep(s) PROVE GenTypes'
  BY <1>1, HandshakeStepFrame DEF runVars, recvVars, textVars, genVars
<1>2. ASSUME NEW s \in Sessions, MessageStep(s) PROVE GenTypes'
  BY <1>2, MessageStepFrame DEF runVars, recvVars, textVars, genVars
<1>3. ASSUME NEW s \in Sessions, Disconnect(s) PROVE GenTypes'
  BY <1>3, DisconnectFrame DEF runVars, recvVars, textVars, genVars
<1>4. ASSUME NEW s \in Sessions, RecvStep(s) PROVE GenTypes'
  BY <1>4, RecvStepFrame DEF runVars, recvVars, textVars, genVars
<1>5. ASSUME NEW s \in Sessions, GenStep(s) PROVE GenTypes'
  <2>1. CASE TakeSegment(s)
    BY <2>1 DEF TakeSegment, runVars, recvVars, textVars, genVars
  <2>2. CASE TakeEnd(s)
    BY <2>2 DEF TakeEnd, runVars, recvVars, textVars, genVars
  <2>3. CASE SendDone(s)
    BY <2>3 DEF SendDone, runVars, recvVars, textVars, genVars
  <2>4. CASE SendFails(s)
    BY <2>4 DEF SendFails, runVars, recvVars, textVars, genVars
  <2>5. CASE UnwindDone(s)
    BY <2>5 DEF UnwindDone, runVars, recvVars, textVars, genVars
  <2>6. CASE CloseDone(s)
    BY <2>6 DEF CloseDone, runVars, recvVars, textVars, genVars
  <2>7. CASE CloseFails(s)
    BY <2>7 DEF CloseFails, runVars, recvVars, textVars, genVars
  <2> QED
    BY <1>5, <2>1, <2>2, <2>3, <2>4, <2>5, <2>6, <2>7 DEF GenStep
<1>6. ASSUME NEW s \in Sessions, EngineStep(s) PROVE GenTypes'
  <2>1. CASE Prepare(s)
    BY <2>1 DEF Prepare, runVars, recvVars, textVars, genVars
  <2>2. CASE PrepareFails(s)
    BY <2>2 DEF PrepareFails, runVars, recvVars, textVars, genVars
  <2>3. CASE PcmDropped(s)
    BY <2>3 DEF PcmDropped, runVars, recvVars, textVars, genVars
  <2>4. CASE PcmSent(s)
    BY <2>4 DEF PcmSent, runVars, recvVars, textVars, genVars
  <2>5. CASE SegmentComplete(s)
    BY <2>5 DEF SegmentComplete, runVars, recvVars, textVars, genVars
  <2>6. CASE EngineFails(s)
    BY <2>6 DEF EngineFails, runVars, recvVars, textVars, genVars
  <2>7. CASE EngineClosed(s)
    BY <2>7 DEF EngineClosed, runVars, recvVars, textVars, genVars
  <2> QED
    BY <1>6, <2>1, <2>2, <2>3, <2>4, <2>5, <2>6, <2>7 DEF EngineStep
<1>7. ASSUME NEW s \in Sessions, RunStep(s) PROVE GenTypes'
  <2>1. CASE SendReady(s)
    BY <2>1 DEF SendReady, runVars, recvVars, textVars, genVars
  <2>2. CASE CoordCancel(s)
    BY <2>2 DEF CoordCancel, CancelGen, runVars, recvVars, textVars, genVars
  <2>3. CASE FinStopGen(s)
    BY <2>3 DEF FinStopGen, CancelGen, runVars, recvVars, textVars, genVars
  <2>4. CASE ReadyFails(s) \/ CoordGenFailed(s) \/ CoordRecvFailed(s) \/
     CoordGenDone(s) \/ StopGenOver(s) \/ FinGenOver(s) \/ Release(s) \/
     CloseSocket(s)
    BY <2>4
    DEF ReadyFails, CoordGenFailed, CoordRecvFailed, CoordGenDone,
       StopGenOver, FinGenOver, Release, CloseSocket, EnterFinally,
       EnterTerminal, runVars, recvVars, textVars, genVars
  <2> QED
    BY <1>7, <2>1, <2>2, <2>3, <2>4 DEF RunStep
<1>8. CASE UNCHANGED vars
  BY <1>8 DEF vars, runVars, recvVars, textVars, genVars
<1> QED
  BY <1>1, <1>2, <1>3, <1>4, <1>5, <1>6, <1>7, <1>8 DEF Next, AllOver

\* One group of variables keeps its types in every step.
LEMMA SpeechTypesStep ==
    SpeechTypes /\ TextTypes /\ [Next]_vars => SpeechTypes'
<1> SUFFICES ASSUME SpeechTypes, TextTypes, [Next]_vars
             PROVE  SpeechTypes'
  OBVIOUS
<1> USE BoundAssumption DEF SpeechTypes
<1>1. ASSUME NEW s \in Sessions, HandshakeStep(s) PROVE SpeechTypes'
  BY <1>1, HandshakeStepFrame DEF runVars, recvVars, textVars, genVars
<1>2. ASSUME NEW s \in Sessions, MessageStep(s) PROVE SpeechTypes'
  <2>1. CASE Append_(s)
    BY <2>1, AppendSpeech
  <2>2. CASE Flush(s)
    BY <2>2, FlushSpeech
  <2>3. CASE Finish(s)
    BY <2>3, FlushSpeech
  <2>4. CASE Cancel(s)
    BY <2>4 DEF Cancel, ReturnCancel, runVars, recvVars, textVars, genVars
  <2>5. CASE IdleTimeout(s)
    BY <2>5 DEF IdleTimeout, ReturnCancel, runVars, recvVars, textVars, genVars
  <2>6. CASE BadMessage(s)
    BY <2>6
    DEF BadMessage, runVars, recvVars, textVars, genVars
  <2> QED
    BY <1>2, <2>1, <2>2, <2>3, <2>4, <2>5, <2>6 DEF MessageStep
<1>3. ASSUME NEW s \in Sessions, Disconnect(s) PROVE SpeechTypes'
  BY <1>3, DisconnectFrame DEF runVars, recvVars, textVars, genVars
<1>4. ASSUME NEW s \in Sessions, RecvStep(s) PROVE SpeechTypes'
  <2>1. CASE SegmentDeadline(s)
    BY <2>1, DeadlineSpeech
  <2>2. CASE RecvDisconnect(s)
    BY <2>2
    DEF RecvDisconnect, runVars, recvVars, textVars, genVars
  <2> QED
    BY <1>4, <2>1, <2>2 DEF RecvStep
<1>5. ASSUME NEW s \in Sessions, GenStep(s) PROVE SpeechTypes'
  <2>1. CASE TakeSegment(s)
    BY <2>1 DEF TakeSegment, runVars, recvVars, textVars, genVars
  <2>2. CASE TakeEnd(s)
    BY <2>2 DEF TakeEnd, runVars, recvVars, textVars, genVars
  <2>3. CASE SendDone(s) \/ SendFails(s) \/ UnwindDone(s) \/ CloseDone(s) \/
     CloseFails(s)
    BY <2>3
    DEF SendDone, SendFails, UnwindDone, CloseDone, CloseFails, runVars,
       recvVars, textVars, genVars
  <2> QED
    BY <1>5, <2>1, <2>2, <2>3 DEF GenStep
<1>6. ASSUME NEW s \in Sessions, EngineStep(s) PROVE SpeechTypes'
  <2>1. CASE SegmentComplete(s)
    BY <2>1 DEF SegmentComplete, runVars, recvVars, textVars, genVars
  <2>2. CASE Prepare(s) \/ PrepareFails(s) \/ PcmDropped(s) \/ PcmSent(s) \/
     EngineFails(s) \/ EngineClosed(s)
    BY <2>2
    DEF Prepare, PrepareFails, PcmDropped, PcmSent, EngineFails, EngineClosed,
       runVars, recvVars, textVars, genVars
  <2> QED
    BY <1>6, <2>1, <2>2 DEF EngineStep
<1>7. ASSUME NEW s \in Sessions, RunStep(s) PROVE SpeechTypes'
  BY <1>7, RunStepFrame DEF runVars, recvVars, textVars, genVars
<1>8. CASE UNCHANGED vars
  BY <1>8 DEF vars, runVars, recvVars, textVars, genVars
<1> QED
  BY <1>1, <1>2, <1>3, <1>4, <1>5, <1>6, <1>7, <1>8 DEF Next, AllOver

\* The type invariant without the counter, which needs the slot accounting.
Types == RunTypes /\ RecvTypes /\ TextTypes /\ GenTypes /\ SpeechTypes

LEMMA InitTypes == Init => Types
<1> SUFFICES ASSUME Init PROVE Types
  OBVIOUS
<1>1. RunTypes /\ RecvTypes /\ TextTypes /\ GenTypes
  BY BoundAssumption
  DEF Init, RunTypes, RecvTypes, TextTypes, GenTypes, RunPcs, RecvRuns, GenPcs,
      GenEnds
<1>2. SpeechTypes
  BY EndType DEF Init, SpeechTypes
<1> QED
  BY <1>1, <1>2 DEF Types

LEMMA NextTypes == Types /\ [Next]_vars => Types'
  BY RunTypesStep, RecvTypesStep, TextTypesStep, GenTypesStep, SpeechTypesStep
  DEF Types

LEMMA AlwaysTypes == Spec => []Types
  BY InitTypes, NextTypes, PTL DEF Spec

-----------------------------------------------------------------------------
(* Slots. *)

\* Strengthening: where run() is tells whether the session holds a slot (only
\* in "terminal" it may or may not).
HoldsByPhase ==
    \A s \in Sessions :
        /\ run[s] \in {"first", "close", "ended"} => ~holds[s]
        /\ run[s] \in {"ready", "coord", "stopGen", "finRecv", "finGen"}
              => holds[s]

SlotInv == HoldsByPhase /\ SlotAccounting

LEMMA HoldersFinite == IsFiniteSet(Holders) /\ Cardinality(Holders) \in Nat
<1>1. Holders \subseteq Sessions
  BY DEF Holders
<1> QED
  BY <1>1, SessionAssumption, FS_Subset, FS_CardinalityType

LEMMA InitSlotInv == Init => SlotInv
<1> SUFFICES ASSUME Init PROVE SlotInv
  OBVIOUS
<1>1. Holders = {}
  BY DEF Init, Holders
<1> QED
  BY <1>1, FS_EmptySet, LimitAssumption
  DEF Init, SlotInv, HoldsByPhase, SlotAccounting

\* Only StartAdmitted and Release touch a slot.
LEMMA OtherStepsKeepSlots ==
    ASSUME NEW s \in Sessions,
           \/ EndBeforeStart(s) \/ StartBusy(s) \/ MessageStep(s)
           \/ Disconnect(s) \/ RecvStep(s) \/ GenStep(s) \/ EngineStep(s)
           \/ RunStep(s) /\ ~Release(s)
    PROVE  UNCHANGED <<active, holds>>
  BY MessageStepFrame, DisconnectFrame, RecvStepFrame, GenStepFrame,
     EngineStepFrame
  DEF EndBeforeStart, StartBusy, EnterTerminal, RunStep, SendReady, ReadyFails,
      CoordGenFailed, CoordCancel, CoordRecvFailed, CoordGenDone, StopGenOver,
      FinStopGen, FinGenOver, CloseSocket, EnterFinally, runVars

\* A session that is admitted moves from outside to inside Holders.
LEMMA AdmittedHolders ==
    ASSUME Types, SlotInv, NEW s \in Sessions, StartAdmitted(s)
    PROVE  /\ s \notin Holders /\ Holders' = Holders \cup {s}
           /\ Cardinality(Holders) < Limit
           /\ Cardinality(Holders') = Cardinality(Holders) + 1
<1>1. s \notin Holders /\ Holders' = Holders \cup {s}
  BY DEF SlotInv, HoldsByPhase, StartAdmitted, Holders, Types, RunTypes
<1>2. Cardinality(Holders') = Cardinality(Holders) + 1
  BY <1>1, HoldersFinite, FS_AddElement
<1>3. Cardinality(Holders) < Limit
  BY DEF StartAdmitted, SlotInv, SlotAccounting
<1> QED
  BY <1>1, <1>2, <1>3

\* A session that releases leaves Holders if it was there.
LEMMA ReleaseHolders ==
    ASSUME Types, NEW s \in Sessions, Release(s)
    PROVE  /\ Holders' = Holders \ {s}
           /\ Cardinality(Holders') =
                 Cardinality(Holders) - (IF holds[s] THEN 1 ELSE 0)
<1>1. Holders' = Holders \ {s}
  BY DEF Release, Holders, Types, RunTypes
<1>2. (s \in Holders) <=> holds[s]
  BY DEF Holders
<1>3. CASE holds[s]
  <2>1. Cardinality(Holders \ {s}) = Cardinality(Holders) - 1
    BY <1>2, <1>3, HoldersFinite, FS_RemoveElement
  <2> QED
    BY <1>1, <1>3, <2>1
<1>4. CASE ~holds[s]
  <2>1. Holders \ {s} = Holders
    BY <1>2, <1>4
  <2> QED
    BY <1>1, <1>4, <2>1, HoldersFinite
<1> QED
  BY <1>3, <1>4

LEMMA NextHoldsByPhase ==
    Types /\ HoldsByPhase /\ [Next]_vars => HoldsByPhase'
<1> SUFFICES ASSUME Types, HoldsByPhase, [Next]_vars PROVE HoldsByPhase'
  OBVIOUS
<1> USE DEF HoldsByPhase, Types, RunTypes
<1>1. ASSUME NEW s \in Sessions, HandshakeStep(s) PROVE HoldsByPhase'
  BY <1>1
  DEF HandshakeStep, EndBeforeStart, StartBusy, StartAdmitted, EnterTerminal
<1>2. ASSUME NEW s \in Sessions, RunStep(s) PROVE HoldsByPhase'
  BY <1>2
  DEF RunStep, SendReady, ReadyFails, CoordGenFailed, CoordCancel,
      CoordRecvFailed, CoordGenDone, StopGenOver, FinStopGen, FinGenOver,
      Release, CloseSocket, EnterTerminal, EnterFinally
<1>3. ASSUME NEW s \in Sessions,
             \/ MessageStep(s) \/ Disconnect(s) \/ RecvStep(s)
             \/ GenStep(s) \/ EngineStep(s)
      PROVE  HoldsByPhase'
  BY <1>3, MessageStepFrame, DisconnectFrame, RecvStepFrame, GenStepFrame,
     EngineStepFrame DEF runVars
<1>4. CASE UNCHANGED vars
  BY <1>4 DEF vars, runVars
<1> QED
  BY <1>1, <1>2, <1>3, <1>4 DEF Next, AllOver

LEMMA NextSlotInv == Types /\ SlotInv /\ [Next]_vars => SlotInv'
<1> SUFFICES ASSUME Types, SlotInv, [Next]_vars PROVE SlotInv'
  OBVIOUS
<1>1. HoldsByPhase'
  BY NextHoldsByPhase DEF SlotInv
<1>2. ASSUME NEW s \in Sessions, StartAdmitted(s) PROVE SlotAccounting'
  <2>1. active' = active + 1 /\ active < Limit
    BY <1>2 DEF StartAdmitted
  <2>2. Cardinality(Holders') = Cardinality(Holders) + 1
    BY <1>2, AdmittedHolders
  <2> QED
    BY <2>1, <2>2, HoldersFinite, LimitAssumption DEF SlotInv, SlotAccounting
<1>3. ASSUME NEW s \in Sessions, Release(s) PROVE SlotAccounting'
  <2>1. active' = IF holds[s] THEN active - 1 ELSE active
    BY <1>3 DEF Release
  <2>2. Cardinality(Holders') =
           Cardinality(Holders) - (IF holds[s] THEN 1 ELSE 0)
    BY <1>3, ReleaseHolders
  <2> QED
    BY <2>1, <2>2, HoldersFinite, LimitAssumption DEF SlotInv, SlotAccounting
<1>4. ASSUME UNCHANGED <<active, holds>> PROVE SlotAccounting'
  <2>1. Holders' = Holders
    BY <1>4 DEF Holders
  <2> QED
    BY <1>4, <2>1 DEF SlotInv, SlotAccounting
<1>5. ASSUME UNCHANGED vars PROVE SlotAccounting'
  BY <1>4, <1>5 DEF vars, runVars
<1> QED
  BY <1>1, <1>2, <1>3, <1>4, <1>5, OtherStepsKeepSlots
  DEF SlotInv, Next, HandshakeStep, AllOver

LEMMA AlwaysSlotInv == Spec => []SlotInv
<1>1. Init => SlotInv
  BY InitSlotInv
<1>2. Types /\ SlotInv /\ [Next]_vars => SlotInv'
  BY NextSlotInv
<1> QED
  BY <1>1, <1>2, AlwaysTypes, PTL DEF Spec

\* The admission counter always equals the number of admitted sessions and
\* never exceeds the limit, for any number of sessions (app.py _Admission).
THEOREM SlotAccountingHolds == Spec => []SlotAccounting
<1>1. SlotInv => SlotAccounting
  BY DEF SlotInv
<1> QED
  BY <1>1, AlwaysSlotInv, PTL

\* Every reachable state is well typed; the counter is a natural number.
THEOREM TypeCorrect == Spec => []TypeOK
<1>1. Types /\ SlotInv => TypeOK
  BY HoldersFinite DEF Types, SlotInv, SlotAccounting, TypeOK
<1> QED
  BY <1>1, AlwaysTypes, AlwaysSlotInv, PTL

\* The instance counts as this module does.
LEMMA SameCardinality == \A S : Slots!Cardinality(S) = Cardinality(S)
  BY DEF Slots!Cardinality, Cardinality

\* The sessions implement the abstract admission: every step acquires a free
\* slot, returns a held one or leaves slots and counter alone.
THEOREM SessionsRefineAdmission == Spec => RefinesAdmission
<1>1. Init => Slots!Init
  BY DEF Init, Slots!Init, Holders
<1>2. Types /\ SlotInv /\ [Next]_vars => [Slots!Next]_(Slots!vars)
  <2> SUFFICES ASSUME Types, SlotInv, [Next]_vars
               PROVE  Slots!Next \/ UNCHANGED <<Holders, active>>
    BY DEF Slots!vars
  <2>1. ASSUME NEW s \in Sessions, StartAdmitted(s) PROVE Slots!Next
    <3>1. Slots!Acquire(s)
      BY <2>1, AdmittedHolders, SameCardinality
      DEF Slots!Acquire, StartAdmitted
    <3> QED
      BY <3>1 DEF Slots!Next
  <2>2. ASSUME NEW s \in Sessions, Release(s)
        PROVE  Slots!Next \/ UNCHANGED <<Holders, active>>
    <3>1. Holders' = Holders \ {s}
      BY <2>2, ReleaseHolders
    <3>2. active' = IF s \in Holders THEN active - 1 ELSE active
      BY <2>2 DEF Release, Holders
    <3> QED
      BY <3>1, <3>2 DEF Slots!Next, Slots!Return
  <2>3. CASE UNCHANGED <<active, holds>>
    BY <2>3 DEF Holders
  <2>4. CASE UNCHANGED vars
    BY <2>3, <2>4 DEF vars, runVars
  <2> QED
    BY <2>1, <2>2, <2>3, <2>4, OtherStepsKeepSlots
    DEF Next, HandshakeStep, AllOver
<1> QED
  BY <1>1, <1>2, AlwaysTypes, AlwaysSlotInv, PTL
  DEF Spec, RefinesAdmission, Slots!Spec

-----------------------------------------------------------------------------
(* The order of finally: stop the tasks, send the terminal, release. *)

\* Strengthening: what the generate task may be doing in each phase of run().
GenByPhase ==
    \A s \in Sessions :
        /\ run[s] \in {"first", "ready"} => gen[s] = "none"
        /\ run[s] \in {"coord", "stopGen", "finRecv", "finGen"}
              => gen[s] # "none"
        /\ run[s] \in {"stopGen", "finGen", "terminal", "close", "ended"}
              => gen[s] \in {"none", "unwind", "closing", "done"}
        /\ req[s] = "live" => gen[s] \in {"engine", "send"}
        /\ termSent[s] => run[s] \in {"terminal", "close", "ended"}

LEMMA InitGenByPhase == Init => GenByPhase
  BY DEF Init, GenByPhase

\* After a cancel the generate task only unwinds.
LEMMA CancelledGen ==
    ASSUME Types, NEW s \in Sessions, CancelGen(s)
    PROVE  /\ gen[s] # "none"
           /\ gen'[s] \in {"unwind", "closing", "done"}
           /\ req[s] = "live" /\ gen[s] \in {"engine", "send"}
                => req'[s] # "live"
           /\ req[s] # "live" => req'[s] # "live"
           /\ \A r \in Sessions \ {s} : gen'[r] = gen[r] /\ req'[r] = req[r]
  BY DEF CancelGen, Types, GenTypes

LEMMA NextGenByPhase == Types /\ GenByPhase /\ [Next]_vars => GenByPhase'
<1> SUFFICES ASSUME Types, GenByPhase, [Next]_vars PROVE GenByPhase'
  OBVIOUS
<1> USE DEF GenByPhase, Types, RunTypes, GenTypes
<1>1. ASSUME NEW s \in Sessions, HandshakeStep(s) PROVE GenByPhase'
  BY <1>1
  DEF HandshakeStep, EndBeforeStart, StartBusy, StartAdmitted, EnterTerminal,
      genVars
<1>2. ASSUME NEW s \in Sessions,
             MessageStep(s) \/ Disconnect(s) \/ RecvStep(s)
      PROVE  GenByPhase'
  BY <1>2, MessageStepFrame, DisconnectFrame, RecvStepFrame
  DEF runVars, genVars
<1>3. ASSUME NEW s \in Sessions, GenStep(s) PROVE GenByPhase'
  BY <1>3
  DEF GenStep, TakeSegment, TakeEnd, SendDone, SendFails, UnwindDone,
      CloseDone, CloseFails, runVars
<1>4. ASSUME NEW s \in Sessions, EngineStep(s) PROVE GenByPhase'
  BY <1>4
  DEF EngineStep, Prepare, PrepareFails, PcmDropped, PcmSent, SegmentComplete,
      EngineFails, EngineClosed, runVars
<1>5. ASSUME NEW s \in Sessions, RunStep(s) PROVE GenByPhase'
  <2>1. CASE SendReady(s) \/ ReadyFails(s)
    BY <2>1 DEF SendReady, ReadyFails, EnterTerminal, genVars
  <2>2. CASE \/ CoordGenFailed(s) \/ CoordRecvFailed(s) \/ CoordGenDone(s)
             \/ StopGenOver(s)
    BY <2>2
    DEF CoordGenFailed, CoordRecvFailed, CoordGenDone, StopGenOver,
        EnterFinally, genVars
  <2>3. CASE CoordCancel(s) \/ FinStopGen(s)
    BY <2>3, CancelledGen DEF CoordCancel, FinStopGen
  <2>4. CASE FinGenOver(s) \/ Release(s) \/ CloseSocket(s)
    BY <2>4 DEF FinGenOver, Release, CloseSocket, EnterTerminal, genVars
  <2> QED
    BY <1>5, <2>1, <2>2, <2>3, <2>4 DEF RunStep
<1>6. CASE UNCHANGED vars
  BY <1>6 DEF vars, runVars, genVars
<1> QED
  BY <1>1, <1>2, <1>3, <1>4, <1>5, <1>6 DEF Next, AllOver

LEMMA AlwaysGenByPhase == Spec => []GenByPhase
  BY InitGenByPhase, NextGenByPhase, AlwaysTypes, PTL DEF Spec

\* After the terminal frame no audio is being written, even by a generate
\* task that run() has given up waiting for (finally of run()).
THEOREM TerminalIsLastHolds == Spec => []TerminalIsLast
<1>1. GenByPhase => TerminalIsLast
  BY DEF GenByPhase, TerminalIsLast
<1> QED
  BY <1>1, AlwaysGenByPhase, PTL

\* A generation nobody has asked to stop belongs to a session that still
\* holds its slot, so such generations never exceed the limit.
THEOREM LiveRequestHoldsSlotHolds == Spec => []LiveRequestHoldsSlot
<1>1. Types /\ SlotInv /\ GenByPhase => LiveRequestHoldsSlot
  <2> SUFFICES ASSUME Types, SlotInv, GenByPhase,
                      NEW s \in Sessions, req[s] = "live"
               PROVE  holds[s]
    BY DEF LiveRequestHoldsSlot
  <2>1. gen[s] \in {"engine", "send"}
    BY DEF GenByPhase
  <2>2. run[s] \in {"coord", "finRecv"}
    BY <2>1 DEF GenByPhase, Types, RunTypes, RunPcs
  <2> QED
    BY <2>2 DEF SlotInv, HoldsByPhase
<1> QED
  BY <1>1, AlwaysTypes, AlwaysSlotInv, AlwaysGenByPhase, PTL


-----------------------------------------------------------------------------
(* Chains of segments. *)

\* The segments of q are pieces of text that end at c or before.
Within(q, c) == \A i \in 1..Len(q) : q[i].from < q[i].to /\ q[i].to <= c

\* The segments of t are the text from a to c.
Text(t, a, c) == Chain(t, a, c) /\ Within(t, c)

\* Nothing is the text between a and itself.
LEMMA EmptyText == ASSUME NEW a PROVE Text(<<>>, a, a)
  BY DEF Text, Chain, Within

\* A segment that starts where the text ends makes it longer.
LEMMA ChainGrows ==
    ASSUME NEW t \in Seq(Segments), NEW a, NEW x \in Segments,
           Chain(t, a, x.from)
    PROVE  Chain(Append(t, x), a, x.to)
<1> DEFINE q == Append(t, x)
<1>1. /\ q \in Seq(Segments) /\ Len(q) = Len(t) + 1 /\ q[Len(q)] = x
      /\ \A i \in 1..Len(t) : q[i] = t[i]
      /\ Len(t) \in Nat
  OBVIOUS
<1>2. q # <<>>
  BY <1>1
<1>3. CASE t = <<>>
  <2>1. Len(q) = 1 /\ q[1] = x /\ a = x.from
    BY <1>1, <1>3 DEF Chain
  <2> QED
    BY <1>2, <2>1 DEF Chain
<1>4. CASE t # <<>>
  <2>1. Len(t) >= 1
    BY <1>1, <1>4
  <2>2. t[1].from = a /\ t[Len(t)].to = x.from
    BY <1>4 DEF Chain
  <2>3. \A i \in 1..(Len(t) - 1) : t[i].to = t[i + 1].from
    BY <1>4 DEF Chain
  <2>4. q[1].from = a
    BY <1>1, <2>1, <2>2
  <2>5. ASSUME NEW i \in 1..(Len(q) - 1) PROVE q[i].to = q[i + 1].from
    <3>1. CASE i = Len(t)
      BY <1>1, <2>1, <2>2, <3>1
    <3>2. CASE i # Len(t)
      <4>1. i \in 1..(Len(t) - 1) /\ i + 1 \in 1..Len(t) /\ i \in 1..Len(t)
        BY <1>1, <3>2
      <4> QED
        BY <1>1, <2>3, <4>1
    <3> QED
      BY <3>1, <3>2
  <2> QED
    BY <1>1, <1>2, <2>4, <2>5 DEF Chain
<1> QED
  BY <1>3, <1>4

\* The same of text.
LEMMA TextGrows ==
    ASSUME NEW t \in Seq(Segments), NEW a, NEW x \in Segments,
           Text(t, a, x.from), x.from < x.to
    PROVE  Text(Append(t, x), a, x.to)
<1>1. Chain(Append(t, x), a, x.to)
  BY ChainGrows DEF Text
<1>2. x.from \in Nat /\ x.to \in Nat
  BY DEF Segments
<1>3. ASSUME NEW i \in 1..Len(Append(t, x))
      PROVE  /\ Append(t, x)[i].from < Append(t, x)[i].to
             /\ Append(t, x)[i].to <= x.to
  <2>1. CASE i = Len(t) + 1
    BY <1>2, <2>1
  <2>2. CASE i # Len(t) + 1
    <3>1. i \in 1..Len(t) /\ Append(t, x)[i] = t[i] /\ t[i] \in Segments
      BY <2>2
    <3>2. t[i].from < t[i].to /\ t[i].to <= x.from
      BY <3>1 DEF Text, Within
    <3>3. t[i].to \in Nat
      BY <3>1 DEF Segments
    <3> QED
      BY <1>2, <3>1, <3>2, <3>3
  <2> QED
    BY <2>1, <2>2
<1> QED
  BY <1>1, <1>3 DEF Text, Within

\* Without its first segment the text starts where that one ended.
LEMMA TextShrinks ==
    ASSUME NEW t \in Seq(Segments), t # <<>>, NEW a, NEW c, Text(t, a, c)
    PROVE  /\ t[1].from = a /\ t[1].from < t[1].to /\ t[1].to <= c
           /\ Text(Tail(t), t[1].to, c)
<1> DEFINE u == Tail(t)
<1>1. Len(t) \in Nat /\ Len(t) >= 1
  OBVIOUS
<1>2. /\ u \in Seq(Segments) /\ Len(u) = Len(t) - 1
      /\ \A i \in 1..(Len(t) - 1) : u[i] = t[i + 1]
  OBVIOUS
<1> HIDE DEF u
<1>7. u = <<>> => Len(u) = 0
  OBVIOUS
<1>3. /\ t[1].from = a /\ t[Len(t)].to = c
      /\ \A i \in 1..(Len(t) - 1) : t[i].to = t[i + 1].from
  BY DEF Text, Chain
<1>4. t[1].from < t[1].to /\ t[1].to <= c
  BY <1>1 DEF Text, Within
<1>5. Within(u, c)
  BY <1>1, <1>2 DEF Text, Within
<1>6. Chain(u, t[1].to, c)
  <2>1. CASE u = <<>>
    <3>1. Len(t) = 1
      BY <1>1, <1>2, <1>7, <2>1
    <3> QED
      BY <1>3, <2>1, <3>1 DEF Chain
  <2>2. CASE u # <<>>
    <3>1. Len(t) >= 2
      BY <1>1, <1>2, <2>2
    <3>2. u[1].from = t[1].to
      BY <1>1, <1>2, <1>3, <3>1
    <3>3. u[Len(u)].to = c
      BY <1>1, <1>2, <1>3, <3>1
    <3>4. ASSUME NEW i \in 1..(Len(u) - 1)
          PROVE  u[i].to = u[i + 1].from
      BY <1>1, <1>2, <1>3, <3>1
    <3> QED
      BY <2>2, <3>2, <3>3, <3>4 DEF Chain
  <2> QED
    BY <2>1, <2>2
<1> QED
  BY <1>3, <1>4, <1>5, <1>6 DEF Text, u

\* What one cut gives out continues the text.
LEMMA PieceContinues ==
    ASSUME NEW t \in Seq(Segments), NEW a, NEW b \in 0..MaxText,
           NEW c \in 0..MaxText, b <= c, Text(t, a, b)
    PROVE  Text(t \o (IF b < c THEN << [from |-> b, to |-> c] >> ELSE <<>>), a, c)
<1>1. CASE b < c
  <2> DEFINE x == [from |-> b, to |-> c]
  <2>1. x \in Segments
    BY DEF Segments
  <2>2. t \o <<x>> = Append(t, x)
    BY <2>1
  <2>3. x.from = b /\ x.to = c
    OBVIOUS
  <2> HIDE DEF x
  <2>4. Text(Append(t, x), a, x.to)
    BY <1>1, <2>1, <2>3, TextGrows
  <2>5. Text(t \o <<x>>, a, c)
    BY <2>2, <2>3, <2>4
  <2> QED
    BY <1>1, <2>5 DEF x
<1>2. CASE ~(b < c)
  <2>1. b = c /\ t \o <<>> = t
    BY <1>2, BoundAssumption
  <2> QED
    BY <1>2, <2>1
<1> QED
  BY <1>1, <1>2

\* What an append, a deadline or a flush gives out continues the text.
LEMMA CutsContinue ==
    ASSUME NEW t \in Seq(Segments), NEW a, NEW b \in 0..MaxText,
           NEW m \in 0..MaxText, NEW c \in 0..MaxText, b <= m, m <= c,
           Text(t, a, b)
    PROVE  /\ Text(t \o Cuts(b, m, c), a, c)
           /\ t \o Cuts(b, m, c) \in Seq(Segments)
<1> DEFINE p == IF b < m THEN << [from |-> b, to |-> m] >> ELSE <<>>
           r == IF m < c THEN << [from |-> m, to |-> c] >> ELSE <<>>
<1>1. /\ [from |-> b, to |-> m] \in Segments
      /\ [from |-> m, to |-> c] \in Segments
  BY DEF Segments
<1>2. p \in Seq(Segments) /\ r \in Seq(Segments)
  BY <1>1
<1>3. Cuts(b, m, c) = p \o r
  BY DEF Cuts
<1>4. Text(t \o p, a, m)
  BY PieceContinues
<1> HIDE DEF p
<1>5. t \o p \in Seq(Segments)
  BY <1>2
<1>6. Text((t \o p) \o r, a, c)
  BY <1>4, <1>5, PieceContinues
<1> HIDE DEF r
<1>7. t \o (p \o r) = (t \o p) \o r
  BY <1>2
<1> QED
  BY <1>2, <1>3, <1>6, <1>7

-----------------------------------------------------------------------------
(* The queue between the two tasks. *)

\* Where the segments of q end.
EndOf(q) == IF q = <<>> THEN 0 ELSE q[Len(q)].to

\* The queue holds the text from a to c, and the end marker if f.
Queued(q, f, a, c) ==
    \E t \in Seq(Segments) : q = (IF f THEN Append(t, END) ELSE t) /\ Text(t, a, c)

\* Queues before the end marker grow by what is cut, and then by the marker.
LEMMA QueueGrows ==
    ASSUME NEW q \in Seq(Segments), NEW a, NEW b \in 0..MaxText,
           NEW m \in 0..MaxText, NEW c \in 0..MaxText, b <= m, m <= c,
           Queued(q, FALSE, a, b)
    PROVE  /\ Queued(q \o Cuts(b, m, c), FALSE, a, c)
           /\ Queued(Append(q \o Cuts(b, m, c), END), TRUE, a, c)
<1>1. Text(q, a, b)
  BY DEF Queued
<1>2. /\ Text(q \o Cuts(b, m, c), a, c)
      /\ q \o Cuts(b, m, c) \in Seq(Segments)
  BY <1>1, CutsContinue
<1> QED
  BY <1>2 DEF Queued

\* The segment that is taken starts where the queued text does.
LEMMA SegmentTaken ==
    ASSUME NEW q \in Seq(Segments), NEW f \in BOOLEAN, NEW a, NEW c,
           Queued(q, f, a, c), q # <<>>, Head(q) # END
    PROVE  /\ Head(q).from = a /\ Head(q).to <= c
           /\ Queued(Tail(q), f, Head(q).to, c)
<1>1. PICK t \in Seq(Segments) :
        q = (IF f THEN Append(t, END) ELSE t) /\ Text(t, a, c)
  BY DEF Queued
<1>2. END \in Segments
  BY EndType
<1>3. t # <<>>
  BY <1>1, <1>2
<1>4. Head(q) = t[1]
  BY <1>1, <1>2, <1>3
<1>5. Tail(q) = IF f THEN Append(Tail(t), END) ELSE Tail(t)
  BY <1>1, <1>3, HeadTailAppend
<1>6. Tail(t) \in Seq(Segments)
  BY <1>3
<1>7. /\ t[1].from = a /\ t[1].to <= c
      /\ Text(Tail(t), t[1].to, c)
  BY <1>1, <1>3, TextShrinks
<1> QED
  BY <1>4, <1>5, <1>6, <1>7 DEF Queued

\* When the end marker is met, the text has been taken completely.
LEMMA EndTaken ==
    ASSUME NEW q \in Seq(Segments), NEW f \in BOOLEAN, NEW a, NEW c,
           Queued(q, f, a, c), q # <<>>, Head(q) = END
    PROVE  f /\ Tail(q) = <<>> /\ a = c
<1>1. PICK t \in Seq(Segments) :
        q = (IF f THEN Append(t, END) ELSE t) /\ Text(t, a, c)
  BY DEF Queued
<1>2. END \in Segments
  BY EndType
<1>3. ASSUME t # <<>> PROVE FALSE
  <2>1. t[1].from < t[1].to
    BY <1>1, <1>3, TextShrinks
  <2>2. Head(q) = t[1]
    BY <1>1, <1>2, <1>3
  <2> QED
    BY <2>1, <2>2 DEF END
<1>4. t = <<>>
  BY <1>3
<1>5. f
  BY <1>1, <1>4
<1>6. q = Append(<<>>, END)
  BY <1>1, <1>4, <1>5
<1> QED
  BY <1>1, <1>2, <1>4, <1>5, <1>6 DEF Text, Chain

-----------------------------------------------------------------------------
(* The inductive invariant, one session at a time. *)

\* The text of a session: heard, then the segment in the engine, then the
\* queue, without a gap up to what the segmenter has given out.  Only a cancel
\* empties the queue, and then nothing is taken any more.
TextInv(s) ==
    /\ Chain(heard[s], 0, EndOf(heard[s]))
    /\ EndOf(heard[s]) \in 0..cut[s]
    /\ cut[s] <= accepted[s]
    /\ finished[s] => cut[s] = accepted[s]
    /\ gen[s] \in {"none", "prepare", "wait"} /\ recv[s] # "cancel"
          => Queued(queue[s], finished[s], EndOf(heard[s]), cut[s])
    /\ gen[s] \in {"engine", "send"}
          => seg[s].from = EndOf(heard[s]) /\ seg[s].to <= cut[s]
    /\ gen[s] \in {"engine", "send"} /\ recv[s] # "cancel"
          => Queued(queue[s], finished[s], seg[s].to, cut[s])
    /\ recv[s] = "cancel" => queue[s] = <<>>

\* Everything was spoken that the client has sent.
Complete(s) ==
    finished[s] /\ queue[s] = <<>> /\ Chain(heard[s], 0, accepted[s])

\* How a session ends: a generation ends well only if it was stopped or has
\* spoken everything, and while run() coordinates only a cancel stops it.
EndInv(s) ==
    /\ run[s] \in {"first", "ready"} => recv[s] = "none"
    /\ run[s] \in {"first", "ready", "coord"} /\ stopped[s]
          => recv[s] = "cancel"
    /\ gen[s] = "unwind" => genOut[s] # "ok"
    /\ gen[s] \in {"closing", "done"} /\ genOut[s] = "ok"
          => stopped[s] \/ Complete(s)
    /\ terminal[s] = "done" => gen[s] = "done" /\ Complete(s)
    /\ terminal[s] = "error" => gen[s] = "done" /\ genOut[s] = "error"

SpokenInv == \A s \in Sessions : TextInv(s) /\ EndInv(s)

LEMMA InitSpokenInv == Init => SpokenInv
<1> SUFFICES ASSUME Init, NEW s \in Sessions PROVE TextInv(s) /\ EndInv(s)
  BY DEF SpokenInv
<1>1. Queued(<<>>, FALSE, 0, 0)
  <2>1. <<>> \in Seq(Segments)
    OBVIOUS
  <2> QED
    BY <2>1, EmptyText DEF Queued
<1>2. EndOf(<<>>) = 0 /\ Chain(<<>>, 0, 0)
  BY DEF EndOf, Chain
<1>3. TextInv(s)
  <2>1. /\ heard[s] = <<>> /\ cut[s] = 0 /\ accepted[s] = 0 /\ ~finished[s]
        /\ gen[s] = "none" /\ recv[s] = "none" /\ queue[s] = <<>>
    BY DEF Init
  <2>2. finished[s] = FALSE
    BY DEF Init
  <2>3. /\ EndOf(heard[s]) = 0 /\ Chain(heard[s], 0, EndOf(heard[s]))
        /\ Queued(queue[s], finished[s], EndOf(heard[s]), cut[s])
    BY <1>1, <1>2, <2>1, <2>2
  <2>4. EndOf(heard[s]) \in 0..cut[s] /\ cut[s] <= accepted[s]
    BY <2>1, <2>3
  <2> QED
    BY <2>1, <2>3, <2>4 DEF TextInv
<1>4. EndInv(s)
  BY DEF Init, EndInv
<1> QED
  BY <1>3, <1>4

\* What a step of another session leaves alone.
Same(r) ==
    /\ run'[r] = run[r] /\ terminal'[r] = terminal[r]
    /\ recv'[r] = recv[r] /\ stopped'[r] = stopped[r]
    /\ accepted'[r] = accepted[r] /\ cut'[r] = cut[r]
    /\ finished'[r] = finished[r] /\ queue'[r] = queue[r]
    /\ gen'[r] = gen[r] /\ genOut'[r] = genOut[r]
    /\ seg'[r] = seg[r] /\ heard'[r] = heard[r]

SessionStep(s) ==
    \/ HandshakeStep(s) \/ MessageStep(s) \/ Disconnect(s)
    \/ RecvStep(s) \/ GenStep(s) \/ EngineStep(s) \/ RunStep(s)

LEMMA OthersSame ==
    ASSUME Types, NEW s \in Sessions, SessionStep(s), NEW r \in Sessions, r # s
    PROVE  Same(r)
<1> USE DEF Same, Types, RunTypes, RecvTypes, TextTypes, GenTypes, SpeechTypes
<1>1. CASE HandshakeStep(s)
  BY <1>1 DEF HandshakeStep, EndBeforeStart, StartBusy, StartAdmitted,
     EnterTerminal, recvVars, textVars, genVars
<1>2. CASE MessageStep(s)
  BY <1>2 DEF MessageStep, Append_, Flush, Finish, Cancel, IdleTimeout,
     BadMessage, ReturnCancel, runVars, textVars, genVars
<1>3. CASE Disconnect(s)
  BY <1>3 DEF Disconnect, runVars, textVars, genVars
<1>4. CASE RecvStep(s)
  BY <1>4 DEF RecvStep, SegmentDeadline, RecvDisconnect, runVars, textVars,
     genVars
<1>5. CASE GenStep(s)
  BY <1>5 DEF GenStep, TakeSegment, TakeEnd, SendDone, SendFails, UnwindDone,
     CloseDone, CloseFails, runVars, recvVars, textVars
<1>6. CASE EngineStep(s)
  BY <1>6 DEF EngineStep, Prepare, PrepareFails, PcmDropped, PcmSent,
     SegmentComplete, EngineFails, EngineClosed, runVars, recvVars, textVars
<1>7. CASE RunStep(s)
  BY <1>7 DEF RunStep, SendReady, ReadyFails, CoordGenFailed, CoordCancel,
     CoordRecvFailed, CoordGenDone, StopGenOver, FinStopGen, FinGenOver,
     Release, CloseSocket, CancelGen, EnterFinally, EnterTerminal, recvVars,
     textVars, genVars
<1> QED
  BY <1>1, <1>2, <1>3, <1>4, <1>5, <1>6, <1>7 DEF SessionStep

\* A session that does not move keeps its invariant.
LEMMA SameKeeps ==
    ASSUME NEW r, TextInv(r) /\ EndInv(r), Same(r)
    PROVE  TextInv(r)' /\ EndInv(r)'
<1>1. TextInv(r)'
  BY DEF TextInv, Same
<1>2. EndInv(r)'
  BY DEF EndInv, Complete, Same
<1> QED
  BY <1>1, <1>2

-----------------------------------------------------------------------------
(* Every step of a session keeps its invariant. *)

\* Text that is accepted and given out goes to the end of the queue.
LEMMA TextCut ==
    ASSUME Types, NEW s \in Sessions, TextInv(s), recv[s] = "run", ~finished[s],
           NEW total \in accepted[s]..MaxText, NEW mid \in cut[s]..total,
           NEW new \in cut[s]..total, mid <= new,
           accepted'[s] = total, cut'[s] = new,
           \/ /\ finished'[s] = FALSE
              /\ queue'[s] = queue[s] \o Cuts(cut[s], mid, new)
           \/ /\ finished'[s] = TRUE /\ new = total
              /\ queue'[s] = Append(queue[s] \o Cuts(cut[s], mid, new), END),
           recv'[s] = "run", gen'[s] = gen[s], seg'[s] = seg[s],
           heard'[s] = heard[s]
    PROVE  TextInv(s)'
<1>1. /\ cut[s] \in 0..MaxText /\ accepted[s] \in 0..MaxText
      /\ queue[s] \in Seq(Segments) /\ seg[s] \in Segments
      /\ finished[s] = FALSE
  BY DEF Types, TextTypes, SpeechTypes
<1>2. mid \in 0..MaxText /\ new \in 0..MaxText /\ cut[s] <= mid
  BY <1>1, BoundAssumption
<1>3. ASSUME NEW a, Queued(queue[s], FALSE, a, cut[s])
      PROVE  Queued(queue'[s], finished'[s], a, new)
  BY <1>1, <1>2, <1>3, QueueGrows
<1>8. /\ Chain(heard[s], 0, EndOf(heard[s]))
      /\ EndOf(heard[s]) \in 0..cut[s]
  BY DEF TextInv
<1>9. EndOf(heard[s]) \in 0..new /\ new <= total
  BY <1>1, <1>2, <1>8
<1>4. /\ Chain(heard'[s], 0, EndOf(heard'[s]))
      /\ EndOf(heard'[s]) \in 0..cut'[s] /\ cut'[s] <= accepted'[s]
      /\ finished'[s] => cut'[s] = accepted'[s]
  BY <1>8, <1>9
<1>5. gen'[s] \in {"none", "prepare", "wait"}
         => Queued(queue'[s], finished'[s], EndOf(heard'[s]), cut'[s])
  BY <1>1, <1>3 DEF TextInv
<1>6. gen'[s] \in {"engine", "send"}
         => /\ seg'[s].from = EndOf(heard'[s])
            /\ Queued(queue'[s], finished'[s], seg'[s].to, cut'[s])
  BY <1>1, <1>3 DEF TextInv
<1>7. gen'[s] \in {"engine", "send"} => seg'[s].to <= cut'[s]
  <2> SUFFICES ASSUME gen'[s] \in {"engine", "send"} PROVE seg[s].to <= new
    OBVIOUS
  <2>1. seg[s].to <= cut[s]
    BY DEF TextInv
  <2>2. seg[s].to \in Nat
    BY <1>1 DEF Segments
  <2> QED
    BY <1>1, <1>2, <2>1, <2>2
<1> QED
  BY <1>4, <1>5, <1>6, <1>7 DEF TextInv

\* Before finish a generation that ended well was stopped.
LEMMA UnfinishedEnd ==
    ASSUME NEW s \in Sessions, EndInv(s), ~finished[s],
           run'[s] = run[s], terminal'[s] = terminal[s], recv'[s] = recv[s],
           stopped'[s] = stopped[s], gen'[s] = gen[s], genOut'[s] = genOut[s]
    PROVE  EndInv(s)'
  BY DEF EndInv, Complete

LEMMA HandshakeSpoken ==
    ASSUME Types, GenByPhase, NEW s \in Sessions, TextInv(s), EndInv(s),
           HandshakeStep(s)
    PROVE  TextInv(s)' /\ EndInv(s)'
<1>1. /\ recv' = recv /\ stopped' = stopped /\ queue' = queue
      /\ accepted' = accepted /\ cut' = cut /\ finished' = finished
      /\ gen' = gen /\ genOut' = genOut /\ seg' = seg /\ heard' = heard
  BY HandshakeStepFrame DEF recvVars, textVars, genVars
<1>2. run[s] = "first" /\ run'[s] \in {"terminal", "ready"}
  BY DEF HandshakeStep, EndBeforeStart, StartBusy, StartAdmitted,
     EnterTerminal, Types, RunTypes
<1>3. terminal'[s] \in {"done", "error"} => terminal'[s] = terminal[s]
  BY DEF HandshakeStep, EndBeforeStart, StartBusy, StartAdmitted,
     EnterTerminal, Types, RunTypes
<1>4. TextInv(s)'
  BY <1>1 DEF TextInv
<1>5. EndInv(s)'
  BY <1>1, <1>2, <1>3 DEF EndInv, Complete
<1> QED
  BY <1>4, <1>5

LEMMA MessageSpoken ==
    ASSUME Types, NEW s \in Sessions, TextInv(s), EndInv(s), MessageStep(s)
    PROVE  TextInv(s)' /\ EndInv(s)'
<1>1. /\ run' = run /\ terminal' = terminal
      /\ gen' = gen /\ genOut' = genOut /\ seg' = seg /\ heard' = heard
  BY MessageStepFrame DEF runVars, genVars
<1>2. /\ cut[s] \in 0..MaxText /\ accepted[s] \in 0..MaxText
      /\ cut[s] <= accepted[s] /\ recv[s] = "run"
  BY DEF Types, TextTypes, TextInv, MessageStep, Append_, Flush, Finish, Cancel,
     IdleTimeout, BadMessage
<1>3. CASE Append_(s)
  <2>1. PICK total \in accepted[s]..MaxText : \E mid, new \in cut[s]..total :
          /\ mid <= new
          /\ accepted' = [accepted EXCEPT ![s] = total]
          /\ cut' = [cut EXCEPT ![s] = new]
          /\ queue' = [queue EXCEPT ![s] = @ \o Cuts(cut[s], mid, new)]
    BY <1>3 DEF Append_
  <2>2. PICK mid \in cut[s]..total, new \in cut[s]..total :
          /\ mid <= new
          /\ accepted' = [accepted EXCEPT ![s] = total]
          /\ cut' = [cut EXCEPT ![s] = new]
          /\ queue' = [queue EXCEPT ![s] = @ \o Cuts(cut[s], mid, new)]
    BY <2>1
  <2>3. /\ recv' = recv /\ stopped' = stopped /\ finished' = finished
        /\ ~finished[s]
    BY <1>3 DEF Append_
  <2>4. /\ accepted'[s] = total /\ cut'[s] = new /\ finished'[s] = FALSE
        /\ queue'[s] = queue[s] \o Cuts(cut[s], mid, new)
    BY <2>2, <2>3 DEF Types, TextTypes, SpeechTypes
  <2>5. TextInv(s)'
    BY <1>1, <1>2, <2>2, <2>3, <2>4, TextCut
  <2> QED
    BY <1>1, <2>3, <2>5, UnfinishedEnd
<1>4. CASE Flush(s) \/ Finish(s)
  <2>1. /\ recv' = recv /\ stopped' = stopped /\ ~finished[s]
        /\ accepted' = accepted
    BY <1>4 DEF Flush, Finish
  <2>2. /\ accepted'[s] = accepted[s] /\ cut'[s] = accepted[s]
        /\ \/ /\ finished'[s] = FALSE
              /\ queue'[s] = queue[s] \o Cuts(cut[s], cut[s], accepted[s])
           \/ /\ finished'[s] = TRUE
              /\ queue'[s] =
                   Append(queue[s] \o Cuts(cut[s], cut[s], accepted[s]), END)
    BY <1>4, <2>1 DEF Flush, Finish, Types, TextTypes, SpeechTypes
  <2>3. /\ accepted[s] \in accepted[s]..MaxText
        /\ cut[s] \in cut[s]..accepted[s] /\ accepted[s] \in cut[s]..accepted[s]
    BY <1>2
  <2>4. TextInv(s)'
    BY <1>1, <1>2, <2>1, <2>2, <2>3, TextCut
  <2> QED
    BY <1>1, <2>1, <2>4, UnfinishedEnd
<1>5. CASE Cancel(s) \/ IdleTimeout(s)
  <2>1. /\ recv'[s] = "cancel" /\ stopped'[s] = TRUE /\ queue'[s] = <<>>
        /\ accepted' = accepted /\ cut' = cut /\ finished' = finished
    BY <1>5 DEF Cancel, IdleTimeout, ReturnCancel, textVars, Types, RecvTypes,
       SpeechTypes
  <2>2. TextInv(s)'
    BY <1>1, <2>1 DEF TextInv
  <2>3. EndInv(s)'
    BY <1>1, <1>2, <2>1 DEF EndInv, Complete
  <2> QED
    BY <2>2, <2>3
<1>6. CASE BadMessage(s)
  <2>1. /\ recv'[s] \in {"invalid", "too_large"} /\ stopped' = stopped
        /\ queue' = queue /\ accepted' = accepted /\ cut' = cut
        /\ finished' = finished
    BY <1>6 DEF BadMessage, textVars, Types, RecvTypes
  <2>2. TextInv(s)'
    BY <1>1, <1>2, <2>1 DEF TextInv
  <2>3. EndInv(s)'
    BY <1>1, <1>2, <2>1 DEF EndInv, Complete
  <2> QED
    BY <2>2, <2>3
<1> QED
  BY <1>3, <1>4, <1>5, <1>6 DEF MessageStep

LEMMA ReceiveSpoken ==
    ASSUME Types, NEW s \in Sessions, TextInv(s), EndInv(s),
           RecvStep(s) \/ Disconnect(s)
    PROVE  TextInv(s)' /\ EndInv(s)'
<1>1. /\ run' = run /\ terminal' = terminal /\ stopped' = stopped
      /\ gen' = gen /\ genOut' = genOut /\ seg' = seg /\ heard' = heard
  BY RecvStepFrame, DisconnectFrame DEF runVars, genVars
<1>2. CASE SegmentDeadline(s)
  <2>1. PICK new \in cut[s]..accepted[s] :
          /\ cut' = [cut EXCEPT ![s] = new]
          /\ queue' = [queue EXCEPT ![s] = @ \o Cuts(cut[s], cut[s], new)]
    BY <1>2 DEF SegmentDeadline
  <2>2. /\ recv' = recv /\ accepted' = accepted /\ finished' = finished
        /\ ~finished[s] /\ recv[s] = "run"
    BY <1>2 DEF SegmentDeadline
  <2>3. /\ accepted'[s] = accepted[s] /\ cut'[s] = new /\ finished'[s] = FALSE
        /\ queue'[s] = queue[s] \o Cuts(cut[s], cut[s], new)
    BY <2>1, <2>2 DEF Types, TextTypes, SpeechTypes
  <2>4. /\ accepted[s] \in accepted[s]..MaxText
        /\ cut[s] \in cut[s]..accepted[s] /\ cut[s] <= new
    BY <2>1 DEF Types, TextTypes
  <2>5. TextInv(s)'
    BY <1>1, <2>2, <2>3, <2>4, TextCut
  <2> QED
    BY <1>1, <2>2, <2>5, UnfinishedEnd
<1>3. CASE RecvDisconnect(s) \/ Disconnect(s)
  <2>1. /\ queue' = queue /\ accepted' = accepted /\ cut' = cut
        /\ finished' = finished
        /\ \/ recv' = recv
           \/ recv[s] = "run" /\ recv'[s] = "disc"
    BY <1>3 DEF RecvDisconnect, Disconnect, textVars, Types, RecvTypes
  <2>2. TextInv(s)'
    BY <1>1, <2>1 DEF TextInv
  <2>3. EndInv(s)'
    BY <1>1, <2>1 DEF EndInv, Complete
  <2> QED
    BY <2>2, <2>3
<1> QED
  BY <1>2, <1>3 DEF RecvStep

LEMMA GenerateSpoken ==
    ASSUME Types, NEW s \in Sessions, TextInv(s), EndInv(s), GenStep(s)
    PROVE  TextInv(s)' /\ EndInv(s)'
<1>1. /\ run' = run /\ terminal' = terminal /\ stopped' = stopped
      /\ recv' = recv /\ accepted' = accepted /\ cut' = cut
      /\ finished' = finished
  BY GenStepFrame DEF runVars, recvVars, textVars
<1>2. /\ queue[s] \in Seq(Segments) /\ finished[s] \in BOOLEAN
  BY DEF Types, SpeechTypes, TextTypes
<1>3. CASE TakeSegment(s)
  <2>1. /\ gen[s] = "wait" /\ queue[s] # <<>> /\ Head(queue[s]) # END
        /\ heard' = heard
    BY <1>3 DEF TakeSegment
  <2>2. /\ gen'[s] = "engine" /\ seg'[s] = Head(queue[s])
        /\ queue'[s] = Tail(queue[s])
    BY <1>3 DEF TakeSegment, Types, GenTypes, SpeechTypes
  <2>3. recv[s] # "cancel"
    BY <2>1 DEF TextInv
  <2>4. Queued(queue[s], finished[s], EndOf(heard[s]), cut[s])
    BY <2>1, <2>3 DEF TextInv
  <2>5. /\ seg'[s].from = EndOf(heard[s]) /\ seg'[s].to <= cut[s]
        /\ Queued(queue'[s], finished[s], seg'[s].to, cut[s])
    BY <1>2, <2>1, <2>2, <2>4, SegmentTaken
  <2>6. TextInv(s)'
    BY <1>1, <2>1, <2>2, <2>3, <2>5 DEF TextInv
  <2>7. EndInv(s)'
    BY <1>1, <2>1, <2>2 DEF EndInv
  <2> QED
    BY <2>6, <2>7
<1>4. CASE TakeEnd(s)
  <2>1. /\ gen[s] = "wait" /\ queue[s] # <<>> /\ Head(queue[s]) = END
        /\ heard' = heard /\ genOut' = genOut
    BY <1>4 DEF TakeEnd
  <2>2. gen'[s] = "closing" /\ queue'[s] = Tail(queue[s])
    BY <1>4 DEF TakeEnd, Types, GenTypes, SpeechTypes
  <2>3. recv[s] # "cancel"
    BY <2>1 DEF TextInv
  <2>4. Queued(queue[s], finished[s], EndOf(heard[s]), cut[s])
    BY <2>1, <2>3 DEF TextInv
  <2>5. finished[s] /\ queue'[s] = <<>> /\ EndOf(heard[s]) = cut[s]
    BY <1>2, <2>1, <2>2, <2>4, EndTaken
  <2>6. Complete(s)'
    BY <1>1, <2>1, <2>5 DEF Complete, TextInv
  <2>7. TextInv(s)'
    BY <1>1, <2>1, <2>2, <2>3 DEF TextInv
  <2>8. EndInv(s)'
    BY <1>1, <2>1, <2>2, <2>6 DEF EndInv
  <2> QED
    BY <2>7, <2>8
<1>5. CASE SendDone(s)
  <2>1. /\ gen[s] = "send" /\ gen'[s] = "engine" /\ heard' = heard
        /\ seg' = seg /\ queue' = queue
    BY <1>5 DEF SendDone, Types, GenTypes
  <2> QED
    BY <1>1, <2>1 DEF TextInv, EndInv
<1>6. CASE SendFails(s) \/ UnwindDone(s)
  <2>1. /\ gen[s] \in {"send", "unwind"} /\ gen'[s] = "closing"
        /\ heard' = heard /\ queue' = queue
    BY <1>6 DEF SendFails, UnwindDone, Types, GenTypes
  <2>2. genOut'[s] # "ok"
    BY <1>6 DEF SendFails, UnwindDone, EndInv, Types, GenTypes
  <2> QED
    BY <1>1, <2>1, <2>2 DEF TextInv, EndInv
<1>7. CASE CloseDone(s) \/ CloseFails(s)
  <2>1. /\ gen[s] = "closing" /\ gen'[s] = "done"
        /\ heard' = heard /\ queue' = queue
    BY <1>7 DEF CloseDone, CloseFails, Types, GenTypes
  <2>2. genOut'[s] = "ok" => genOut[s] = "ok"
    BY <1>7 DEF CloseDone, CloseFails, Types, GenTypes
  <2> QED
    BY <1>1, <2>1, <2>2 DEF TextInv, EndInv, Complete
<1> QED
  BY <1>3, <1>4, <1>5, <1>6, <1>7 DEF GenStep

\* A segment that is complete continues what was heard.
LEMMA HeardGrows ==
    ASSUME NEW q \in Seq(Segments), NEW x \in Segments,
           Chain(q, 0, EndOf(q)), x.from = EndOf(q)
    PROVE  /\ EndOf(Append(q, x)) = x.to
           /\ Chain(Append(q, x), 0, x.to)
<1>1. Append(q, x) # <<>> /\ Append(q, x)[Len(Append(q, x))] = x
  OBVIOUS
<1>2. Chain(Append(q, x), 0, x.to)
  BY ChainGrows
<1> QED
  BY <1>1, <1>2 DEF EndOf

LEMMA EngineSpoken ==
    ASSUME Types, NEW s \in Sessions, TextInv(s), EndInv(s), EngineStep(s)
    PROVE  TextInv(s)' /\ EndInv(s)'
<1>1. /\ run' = run /\ terminal' = terminal /\ stopped' = stopped
      /\ recv' = recv /\ accepted' = accepted /\ cut' = cut
      /\ finished' = finished /\ queue' = queue
  BY EngineStepFrame DEF runVars, recvVars, textVars
<1>2. CASE SegmentComplete(s)
  <2>1. /\ gen[s] = "engine" /\ seg' = seg /\ genOut' = genOut
        /\ heard'[s] = Append(heard[s], seg[s])
        /\ gen'[s] = IF stopped[s] THEN "closing" ELSE "wait"
    BY <1>2 DEF SegmentComplete, Types, GenTypes, SpeechTypes
  <2>2. /\ heard[s] \in Seq(Segments) /\ seg[s] \in Segments
        /\ cut[s] \in 0..MaxText
    BY DEF Types, SpeechTypes, TextTypes
  <2>3. /\ seg[s].from = EndOf(heard[s]) /\ seg[s].to <= cut[s]
        /\ Chain(heard[s], 0, EndOf(heard[s]))
        /\ recv[s] # "cancel"
              => Queued(queue[s], finished[s], seg[s].to, cut[s])
    BY <2>1 DEF TextInv
  <2>4. /\ EndOf(heard'[s]) = seg[s].to
        /\ Chain(heard'[s], 0, EndOf(heard'[s]))
    BY <2>1, <2>2, <2>3, HeardGrows
  <2>5. EndOf(heard'[s]) \in 0..cut'[s]
    <3>1. seg[s].to \in Nat
      BY <2>2 DEF Segments
    <3> QED
      BY <1>1, <2>2, <2>3, <2>4, <3>1
  <2>6. TextInv(s)'
    BY <1>1, <2>1, <2>3, <2>4, <2>5 DEF TextInv
  <2>7. EndInv(s)'
    BY <1>1, <2>1 DEF EndInv
  <2> QED
    BY <2>6, <2>7
<1>3. CASE Prepare(s) \/ PcmSent(s) \/ EngineClosed(s)
  <2>1. /\ heard' = heard /\ seg' = seg /\ genOut' = genOut
        /\ \/ gen[s] = "prepare" /\ gen'[s] = "wait"
           \/ gen[s] = "engine" /\ gen'[s] = "send"
           \/ gen' = gen
    BY <1>3 DEF Prepare, PcmSent, EngineClosed, Types, GenTypes
  <2> QED
    BY <1>1, <2>1 DEF TextInv, EndInv, Complete
<1>4. CASE PcmDropped(s) \/ PrepareFails(s) \/ EngineFails(s)
  <2>1. /\ gen[s] \in {"prepare", "engine"}
        /\ gen'[s] \in {"closing", "unwind"} /\ heard' = heard
        /\ \/ stopped[s] /\ gen'[s] = "closing"
           \/ genOut'[s] # "ok"
    BY <1>4 DEF PcmDropped, PrepareFails, EngineFails, Types, GenTypes
  <2> QED
    BY <1>1, <2>1 DEF TextInv, EndInv
<1> QED
  BY <1>2, <1>3, <1>4 DEF EngineStep

\* A generate task that is cancelled does not end well, unless it already has.
LEMMA CancelledEnd ==
    ASSUME Types, NEW s \in Sessions, CancelGen(s)
    PROVE  \/ gen' = gen /\ genOut' = genOut
           \/ /\ gen[s] # "done" /\ gen'[s] \in {"unwind", "closing", "done"}
              /\ genOut'[s] = "cancelled"
  BY DEF CancelGen, Types, GenTypes

LEMMA RunSpoken ==
    ASSUME Types, GenByPhase, NEW s \in Sessions, TextInv(s), EndInv(s),
           RunStep(s)
    PROVE  TextInv(s)' /\ EndInv(s)'
<1>1. /\ accepted' = accepted /\ cut' = cut /\ finished' = finished
      /\ queue' = queue /\ seg' = seg /\ heard' = heard
  BY RunStepFrame DEF textVars
<1>2. CASE SendReady(s)
  <2>1. /\ run[s] = "ready" /\ run'[s] = "coord" /\ recv'[s] = "run"
        /\ gen[s] = "none" /\ gen'[s] = "prepare"
        /\ terminal' = terminal /\ stopped' = stopped
    BY <1>2 DEF SendReady, Types, RunTypes, RecvTypes, GenTypes, GenByPhase
  <2>2. recv[s] = "none" /\ ~stopped[s]
    BY <2>1 DEF EndInv
  <2>3. TextInv(s)'
    BY <1>1, <2>1, <2>2 DEF TextInv
  <2>4. EndInv(s)'
    BY <1>1, <2>1, <2>2 DEF EndInv
  <2> QED
    BY <2>3, <2>4
<1>3. CASE ReadyFails(s)
  <2>1. /\ run'[s] = "terminal" /\ recv' = recv /\ gen' = gen
        /\ genOut' = genOut /\ gen[s] = "none"
        /\ terminal'[s] \in {"slow", "disc"}
    BY <1>3 DEF ReadyFails, EnterTerminal, recvVars, genVars, Types, RunTypes,
       GenByPhase
  <2> QED
    BY <1>1, <2>1 DEF TextInv, EndInv
<1>4. CASE CoordGenFailed(s) \/ CoordRecvFailed(s) \/ StopGenOver(s)
  <2>1. /\ gen' = gen /\ genOut' = genOut /\ stopped'[s] = TRUE
        /\ run'[s] = "finRecv"
        /\ recv'[s] = IF recv[s] = "run" THEN "stopped" ELSE recv[s]
    BY <1>4 DEF CoordGenFailed, CoordRecvFailed, StopGenOver, EnterFinally,
       genVars, Types, RunTypes, RecvTypes
  <2>2. /\ terminal'[s] # "done"
        /\ terminal'[s] = "error" => gen[s] = "done" /\ genOut[s] = "error"
    BY <1>4 DEF CoordGenFailed, CoordRecvFailed, StopGenOver, EnterFinally,
       Types, RunTypes, GenTypes, GenEnds
  <2>3. TextInv(s)'
    BY <1>1, <2>1 DEF TextInv
  <2>4. EndInv(s)'
    BY <1>1, <2>1, <2>2 DEF EndInv
  <2> QED
    BY <2>3, <2>4
<1>5. CASE CoordGenDone(s)
  <2>1. /\ gen' = gen /\ genOut' = genOut /\ stopped'[s] = TRUE
        /\ run[s] = "coord" /\ run'[s] = "finRecv"
        /\ gen[s] = "done" /\ genOut[s] = "ok" /\ ~RecvDone(s)
        /\ recv'[s] = IF recv[s] = "run" THEN "stopped" ELSE recv[s]
        /\ terminal'[s] = IF finished[s] THEN "done" ELSE "error"
    BY <1>5 DEF CoordGenDone, EnterFinally, genVars, Types, RunTypes, RecvTypes
  <2>2. ~stopped[s]
    BY <2>1 DEF EndInv, RecvDone, RecvEnds
  <2>3. Complete(s)
    BY <2>1, <2>2 DEF EndInv
  <2>4. terminal'[s] = "done" /\ Complete(s)'
    BY <1>1, <2>1, <2>3 DEF Complete
  <2>5. TextInv(s)'
    BY <1>1, <2>1 DEF TextInv
  <2>6. EndInv(s)'
    BY <2>1, <2>4 DEF EndInv
  <2> QED
    BY <2>5, <2>6
<1>6. CASE CoordCancel(s) \/ FinStopGen(s)
  <2>1. /\ CancelGen(s) /\ terminal' = terminal /\ recv' = recv
        /\ run'[s] \in {"stopGen", "finGen"}
        /\ stopped'[s] = stopped[s] \/ stopped'[s] = TRUE
    BY <1>6 DEF CoordCancel, FinStopGen, recvVars, Types, RunTypes, RecvTypes
  <2>2. CASE gen' = gen /\ genOut' = genOut
    <3>1. TextInv(s)'
      BY <1>1, <2>1, <2>2 DEF TextInv
    <3>2. EndInv(s)'
      BY <1>1, <2>1, <2>2 DEF EndInv, Complete
    <3> QED
      BY <3>1, <3>2
  <2>3. CASE /\ gen[s] # "done" /\ gen'[s] \in {"unwind", "closing", "done"}
             /\ genOut'[s] = "cancelled"
    <3>1. TextInv(s)'
      BY <1>1, <2>1, <2>3 DEF TextInv
    <3>2. EndInv(s)'
      BY <1>1, <2>1, <2>3 DEF EndInv
    <3> QED
      BY <3>1, <3>2
  <2> QED
    BY <2>1, <2>2, <2>3, CancelledEnd
<1>7. CASE FinGenOver(s) \/ Release(s) \/ CloseSocket(s)
  <2>1. /\ gen' = gen /\ genOut' = genOut /\ recv' = recv /\ stopped' = stopped
        /\ run'[s] \in {"terminal", "close", "ended"}
        /\ terminal'[s] = terminal[s]
    BY <1>7 DEF FinGenOver, Release, CloseSocket, EnterTerminal, recvVars,
       genVars, Types, RunTypes
  <2> QED
    BY <1>1, <2>1 DEF TextInv, EndInv, Complete
<1> QED
  BY <1>2, <1>3, <1>4, <1>5, <1>6, <1>7 DEF RunStep

LEMMA NextSpokenInv ==
    Types /\ GenByPhase /\ SpokenInv /\ [Next]_vars => SpokenInv'
<1> SUFFICES ASSUME Types, GenByPhase, SpokenInv, [Next]_vars
             PROVE  SpokenInv'
  OBVIOUS
<1>1. ASSUME NEW s \in Sessions, SessionStep(s) PROVE SpokenInv'
  <2>1. TextInv(s)' /\ EndInv(s)'
    BY <1>1, HandshakeSpoken, MessageSpoken, ReceiveSpoken, GenerateSpoken,
       EngineSpoken, RunSpoken DEF SpokenInv, SessionStep
  <2>2. ASSUME NEW r \in Sessions, r # s PROVE TextInv(r)' /\ EndInv(r)'
    BY <1>1, <2>2, OthersSame, SameKeeps DEF SpokenInv
  <2> QED
    BY <2>1, <2>2 DEF SpokenInv
<1>2. CASE UNCHANGED vars
  <2>1. ASSUME NEW r \in Sessions PROVE Same(r)
    BY <1>2 DEF vars, runVars, recvVars, textVars, genVars, Same
  <2> QED
    BY <2>1, SameKeeps DEF SpokenInv
<1> QED
  BY <1>1, <1>2 DEF Next, AllOver, SessionStep

LEMMA AlwaysSpokenInv == Spec => []SpokenInv
  BY InitSpokenInv, NextSpokenInv, AlwaysTypes, AlwaysGenByPhase, PTL DEF Spec

-----------------------------------------------------------------------------
(* The properties. *)

\* What the client heard is the text from its start, in order, without gap or
\* repetition, although the receive loop fills and empties the queue that the
\* generate task reads.
THEOREM SpokenInOrderHolds == Spec => []SpokenInOrder
<1>1. SpokenInv => SpokenInOrder
  BY DEF SpokenInv, TextInv, SpokenInOrder
<1> QED
  BY <1>1, AlwaysSpokenInv, PTL

\* A session that ends with done has spoken all the text it accepted, whichever
\* of its tasks _coordinate met first.
THEOREM DoneMeansAllSpokenHolds == Spec => []DoneMeansAllSpoken
<1>1. SpokenInv => DoneMeansAllSpoken
  BY DEF SpokenInv, EndInv, Complete, DoneMeansAllSpoken
<1> QED
  BY <1>1, AlwaysSpokenInv, PTL

\* engine_error is only reported of a generation that failed: a generation
\* that nobody stopped does not end before finish.
THEOREM EngineErrorIsRealHolds == Spec => []EngineErrorIsReal
<1>1. SpokenInv => EngineErrorIsReal
  BY DEF SpokenInv, EndInv, EngineErrorIsReal
<1> QED
  BY <1>1, AlwaysSpokenInv, PTL

-----------------------------------------------------------------------------
(* The segment deadline. *)

\* Why the text that waits in the segmenter may leave it, also before the
\* receive loop has started.
Timed(s) ==
    recv[s] \in {"none", "run"} =>
        /\ cut[s] < accepted[s] => (segTimer[s] <=> ~expired[s])
        /\ ~(cut[s] < accepted[s]) => ~segTimer[s] /\ ~expired[s]

TimedInv == \A s \in Sessions : Timed(s)

LEMMA NextTimedInv ==
    Types /\ SpokenInv /\ TimedInv /\ [Next]_vars => TimedInv'
<1> SUFFICES ASSUME Types, SpokenInv, TimedInv, [Next]_vars PROVE TimedInv'
  OBVIOUS
<1> USE DEF Types, TextTypes, RecvTypes
<1>1. ASSUME textVars' = textVars,
             \A s \in Sessions :
                recv'[s] \in {"none", "run"} => recv[s] \in {"none", "run"}
      PROVE  TimedInv'
  BY <1>1 DEF TimedInv, Timed, textVars
<1>2. ASSUME NEW s \in Sessions, Append_(s) PROVE TimedInv'
  <2>1. recv[s] = "run" /\ recv' = recv
    BY <1>2 DEF Append_
  <2>2. ASSUME NEW r \in Sessions, r # s PROVE Timed(r)'
    BY <1>2, <2>1, <2>2 DEF Append_, TimedInv, Timed
  <2>3. PICK total \in accepted[s]..MaxText : \E new \in cut[s]..total :
          /\ total = accepted[s] => new = cut[s]
          /\ accepted' = [accepted EXCEPT ![s] = total]
          /\ cut' = [cut EXCEPT ![s] = new]
          /\ IF new > cut[s]
               THEN /\ expired' = [expired EXCEPT ![s] = FALSE]
                    /\ segTimer' = [segTimer EXCEPT ![s] = new < total]
               ELSE /\ segTimer' = IF new < total /\ ~expired[s]
                                     THEN [segTimer EXCEPT ![s] = TRUE]
                                     ELSE segTimer
                    /\ UNCHANGED expired
    BY <1>2 DEF Append_
  <2>4. PICK new \in cut[s]..total :
          /\ total = accepted[s] => new = cut[s]
          /\ accepted' = [accepted EXCEPT ![s] = total]
          /\ cut' = [cut EXCEPT ![s] = new]
          /\ IF new > cut[s]
               THEN /\ expired' = [expired EXCEPT ![s] = FALSE]
                    /\ segTimer' = [segTimer EXCEPT ![s] = new < total]
               ELSE /\ segTimer' = IF new < total /\ ~expired[s]
                                     THEN [segTimer EXCEPT ![s] = TRUE]
                                     ELSE segTimer
                    /\ UNCHANGED expired
    BY <2>3
  <2>5. /\ accepted'[s] = total /\ cut'[s] = new
        /\ cut[s] \in 0..MaxText /\ accepted[s] \in 0..MaxText
        /\ total \in 0..MaxText /\ new \in 0..MaxText
        /\ cut[s] <= accepted[s]
    BY <2>4, BoundAssumption DEF SpokenInv, TextInv
  <2>6. /\ cut[s] < accepted[s] => (segTimer[s] <=> ~expired[s])
        /\ ~(cut[s] < accepted[s]) => ~segTimer[s] /\ ~expired[s]
    BY <2>1 DEF TimedInv, Timed
  <2>7. CASE new > cut[s]
    <3>1. ~expired'[s] /\ (segTimer'[s] <=> new < total)
      BY <2>4, <2>7
    <3>2. ASSUME new < total PROVE Timed(s)'
      <4>1. segTimer'[s]
        BY <3>1, <3>2
      <4> QED
        BY <2>5, <3>1, <3>2, <4>1 DEF Timed
    <3>3. ASSUME ~(new < total) PROVE Timed(s)'
      <4>1. ~segTimer'[s]
        BY <3>1, <3>3
      <4> QED
        BY <2>5, <3>1, <3>3, <4>1 DEF Timed
    <3>4. Timed(s)'
      BY <3>2, <3>3
    <3> QED
      BY <2>2, <3>4 DEF TimedInv
  <2>8. CASE ~(new > cut[s])
    <3>1. new = cut[s] /\ expired' = expired
      BY <2>4, <2>5, <2>8
    <3>2. ASSUME new < total /\ ~expired[s] PROVE Timed(s)'
      <4>1. segTimer'[s]
        BY <2>4, <2>8, <3>2
      <4> QED
        BY <2>5, <3>1, <3>2, <4>1 DEF Timed
    <3>3. ASSUME new < total /\ expired[s] PROVE Timed(s)'
      <4>1. ~segTimer'[s]
        BY <2>4, <2>6, <2>8, <3>3
      <4> QED
        BY <2>5, <3>1, <3>3, <4>1 DEF Timed
    <3>4. ASSUME ~(new < total) PROVE Timed(s)'
      <4>1. cut[s] = accepted[s]
        BY <2>4, <2>5, <3>1, <3>4
      <4>2. ~segTimer'[s] /\ ~expired'[s]
        BY <2>4, <2>5, <2>6, <2>8, <3>4, <4>1
      <4> QED
        BY <2>5, <3>1, <3>4, <4>2 DEF Timed
    <3>5. Timed(s)'
      BY <3>2, <3>3, <3>4
    <3> QED
      BY <2>2, <3>5 DEF TimedInv
  <2> QED
    BY <2>7, <2>8
<1>3. ASSUME NEW s \in Sessions, Flush(s) \/ Finish(s) PROVE TimedInv'
  <2>1. /\ recv' = recv /\ accepted' = accepted
        /\ cut'[s] = accepted[s] /\ ~segTimer'[s] /\ ~expired'[s]
        /\ \A r \in Sessions : r # s =>
              /\ cut'[r] = cut[r] /\ segTimer'[r] = segTimer[r]
              /\ expired'[r] = expired[r]
    BY <1>3 DEF Flush, Finish
  <2>2. Timed(s)'
    BY <2>1 DEF Timed
  <2>3. ASSUME NEW r \in Sessions, r # s PROVE Timed(r)'
    BY <2>1, <2>3 DEF TimedInv, Timed
  <2> QED
    BY <2>2, <2>3 DEF TimedInv
<1>4. ASSUME NEW s \in Sessions, SegmentDeadline(s) PROVE TimedInv'
  <2>1. PICK new \in cut[s]..accepted[s] :
          /\ cut' = [cut EXCEPT ![s] = new]
          /\ expired' = [expired EXCEPT
                ![s] = new = cut[s] /\ cut[s] < accepted[s]]
          /\ segTimer' = [segTimer EXCEPT
                ![s] = new > cut[s] /\ new < accepted[s]]
    BY <1>4 DEF SegmentDeadline
  <2>2. recv' = recv /\ accepted' = accepted
    BY <1>4 DEF SegmentDeadline
  <2>3. /\ cut'[s] = new
        /\ expired'[s] <=> (new = cut[s] /\ cut[s] < accepted[s])
        /\ segTimer'[s] <=> (new > cut[s] /\ new < accepted[s])
        /\ cut[s] \in Nat /\ new \in Nat /\ accepted[s] \in Nat
    <3>1. /\ cut'[s] = new
          /\ cut[s] \in Nat /\ new \in Nat /\ accepted[s] \in Nat
      BY <2>1, BoundAssumption
    <3>2. expired'[s] <=> new = cut[s] /\ cut[s] < accepted[s]
      BY <2>1, Zenon
    <3>3. segTimer'[s] <=> new > cut[s] /\ new < accepted[s]
      BY <2>1, Zenon
    <3> QED
      BY <3>1, <3>2, <3>3
  <2>4. ASSUME new < accepted[s] /\ new = cut[s] PROVE Timed(s)'
    <3>1. expired'[s] /\ ~segTimer'[s]
      BY <2>3, <2>4
    <3> QED
      BY <2>2, <2>3, <2>4, <3>1 DEF Timed
  <2>5. ASSUME new < accepted[s] /\ new # cut[s] PROVE Timed(s)'
    <3>1. new > cut[s]
      BY <2>1, <2>3, <2>5
    <3>2. ~expired'[s] /\ segTimer'[s]
      BY <2>3, <2>5, <3>1
    <3> QED
      BY <2>2, <2>3, <2>5, <3>2 DEF Timed
  <2>6. ASSUME ~(new < accepted[s]) PROVE Timed(s)'
    <3>1. ~expired'[s] /\ ~segTimer'[s]
      BY <2>3, <2>6
    <3> QED
      BY <2>2, <2>3, <2>6, <3>1 DEF Timed
  <2>7. Timed(s)'
    BY <2>4, <2>5, <2>6
  <2>8. ASSUME NEW r \in Sessions, r # s PROVE Timed(r)'
    BY <2>1, <2>2, <2>8 DEF TimedInv, Timed
  <2> QED
    BY <2>7, <2>8 DEF TimedInv
<1>5. ASSUME NEW s \in Sessions,
             \/ HandshakeStep(s) \/ Disconnect(s) \/ GenStep(s)
             \/ EngineStep(s)
      PROVE  TimedInv'
  BY <1>1, <1>5, HandshakeStepFrame, DisconnectFrame, GenStepFrame,
     EngineStepFrame DEF recvVars
<1>6. ASSUME NEW s \in Sessions,
             \/ Cancel(s) \/ IdleTimeout(s) \/ BadMessage(s)
             \/ RecvDisconnect(s)
      PROVE  TimedInv'
  BY <1>1, <1>6 DEF Cancel, IdleTimeout, BadMessage, RecvDisconnect,
     ReturnCancel
<1>7. ASSUME NEW s \in Sessions, RunStep(s) PROVE TimedInv'
  <2>1. textVars' = textVars
    BY <1>7, RunStepFrame
  <2>2. ASSUME NEW r \in Sessions, recv'[r] \in {"none", "run"}
        PROVE  recv[r] \in {"none", "run"}
    <3>1. CASE SendReady(s)
      BY <2>2, <3>1 DEF SendReady, SpokenInv, EndInv
    <3>2. CASE \/ CoordGenFailed(s) \/ CoordRecvFailed(s) \/ CoordGenDone(s)
               \/ StopGenOver(s)
      BY <2>2, <3>2 DEF CoordGenFailed, CoordRecvFailed, CoordGenDone,
         StopGenOver, EnterFinally
    <3>3. CASE \/ ReadyFails(s) \/ CoordCancel(s) \/ FinStopGen(s)
               \/ FinGenOver(s) \/ Release(s) \/ CloseSocket(s)
      BY <2>2, <3>3 DEF ReadyFails, CoordCancel, FinStopGen, FinGenOver,
         Release, CloseSocket, recvVars
    <3> QED
      BY <1>7, <3>1, <3>2, <3>3 DEF RunStep
  <2> QED
    BY <1>1, <2>1, <2>2
<1>8. CASE UNCHANGED vars
  BY <1>1, <1>8 DEF vars, recvVars
<1> QED
  BY <1>2, <1>3, <1>4, <1>5, <1>6, <1>7, <1>8
  DEF Next, AllOver, MessageStep, RecvStep

\* Text that waits in the segmenter has an armed deadline, or an expired one
\* that the next append honours: it never waits without a reason to leave.
THEOREM PendingTextIsTimedHolds == Spec => []PendingTextIsTimed
<1>1. Init => TimedInv
  BY DEF Init, TimedInv, Timed
<1>2. TimedInv => PendingTextIsTimed
  BY DEF TimedInv, Timed, PendingTextIsTimed
<1> QED
  BY <1>1, <1>2, NextTimedInv, AlwaysTypes, AlwaysSpokenInv, PTL DEF Spec

=============================================================================
