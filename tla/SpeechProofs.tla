----------------------------- MODULE SpeechProofs -----------------------------
(***************************************************************************)
(* Proofs about Speech, for any number of segments and chunks: types, the   *)
(* conditioning of every engine call, the closing of streams, and that the  *)
(* code implements what Utterance promises to its callers.                  *)
(***************************************************************************)
EXTENDS Speech, TLAPS

Streaming == {"item", "yield", "closing"}

-----------------------------------------------------------------------------
(* Types *)

Calls == [target : Texts, prompt : Prompts, reference : BOOLEAN]

VoiceTypes ==
    /\ options \in Requests /\ length \in 0..MaxSegments
    /\ prompt \in Prompts /\ reference \in BOOLEAN
AskedTypes == asked \in Seq(Calls) /\ Len(asked) <= length
StreamTypes ==
    /\ raw \in {"none", "open", "closed", "lost"}
    /\ chunks \in 0..MaxChunks
    /\ complete \in BOOLEAN
EndTypes ==
    /\ pc \in Pcs
    /\ error \in Unwinding
    /\ result \in Unwinding \cup {"ok", "invalid"}
    /\ closed \in BOOLEAN
    /\ pc = "over" <=> result # "none"

Types == VoiceTypes /\ AskedTypes /\ StreamTypes /\ EndTypes

LEMMA TypesAreTypeOK == Types <=> TypeOK
  BY DEF Types, VoiceTypes, AskedTypes, StreamTypes, EndTypes, Calls, TypeOK

\* Texts and prompts come from segments or the profile.
LEMMA PromptType == \A k \in Sources : Prompt(k) \in Prompts
  BY DEF Prompt, Prompts, Text, Texts, Sources

LEMMA KnownSources ==
    /\ None \in Sources /\ 1 \in Sources /\ Profile \in Sources
    /\ \A k \in 1..MaxSegments : k \in Sources
  BY SpeechBounds DEF Sources, None, Profile

LEMMA AnchorType == prompt \in Prompts => Anchor \in Prompts
  BY PromptType, KnownSources DEF Anchor

LEMMA CallType ==
    ASSUME VoiceTypes, NEW k \in 1..MaxSegments
    PROVE  Call(k) \in Calls
<1>1. Controlled(k) \in BOOLEAN
  BY DEF Controlled, Control
<1>2. Text(k, Controlled(k)) \in Texts
  BY <1>1, KnownSources DEF Text, Texts
<1> QED
  BY <1>2 DEF Call, Calls, VoiceTypes

LEMMA Bounds == MaxChunks \in Nat /\ 0 \in 0..MaxChunks
  BY SpeechBounds

LEMMA InitTypes == Init => Types
<1> SUFFICES ASSUME Init PROVE Types
  OBVIOUS
<1>1. VoiceTypes
  BY PromptType, KnownSources DEF Init, VoiceTypes
<1>2. AskedTypes
  BY SpeechBounds DEF Init, AskedTypes
<1>3. chunks \in 0..MaxChunks
  BY Bounds DEF Init
<1>4. StreamTypes
  BY <1>3 DEF Init, StreamTypes
<1>5. EndTypes
  BY DEF Init, EndTypes, Pcs, Unwinding
<1> QED
  BY <1>1, <1>2, <1>4, <1>5 DEF Types

LEMMA NextTypes == Types /\ [Next]_vars => Types'
<1> SUFFICES ASSUME Types, [Next]_vars PROVE Types'
  OBVIOUS
<1> USE DEF Types
<1>1. CASE VoiceStep
  <2>1. VoiceTypes'
    BY <1>1, PromptType, KnownSources
    DEF VoiceStep, Refused, NoVoice, ResolveVoice, Encoded, EncodingFails,
        ReferenceFound, PromptFound, Await, End, VoiceTypes, voiceVars, input
  <2>2. AskedTypes' /\ StreamTypes'
    BY <1>1
    DEF VoiceStep, Refused, NoVoice, ResolveVoice, Encoded, EncodingFails,
        AskedTypes, StreamTypes, voiceVars, input, streamVars
  <2>3. EndTypes'
    BY <1>1
    DEF VoiceStep, Refused, NoVoice, ResolveVoice, Encoded, EncodingFails,
        ReferenceFound, PromptFound, Await, End, EndTypes, Pcs, Unwinding
  <2> QED
    BY <2>1, <2>2, <2>3
<1>2. CASE NextSegment
  <2>1. Len(asked) + 1 \in 1..MaxSegments
    BY <1>2, SpeechBounds DEF NextSegment, VoiceTypes, AskedTypes
  <2>2. AskedTypes'
    BY <1>2, <2>1, CallType
    DEF NextSegment, VoiceTypes, AskedTypes, voiceVars, input
  <2>3. VoiceTypes'
    BY <1>2 DEF NextSegment, VoiceTypes, voiceVars, input
  <2>4. StreamTypes'
    <3>1. chunks' \in 0..MaxChunks
      BY <1>2, Bounds DEF NextSegment
    <3> QED
      BY <1>2, <3>1 DEF NextSegment, StreamTypes
  <2>5. EndTypes'
    BY <1>2 DEF NextSegment, EndTypes, Pcs
  <2> QED
    BY <2>2, <2>3, <2>4, <2>5
<1>3. CASE SegmentRefused \/ TextOver
  BY <1>3 DEF SegmentRefused, TextOver, End, VoiceTypes, AskedTypes,
              StreamTypes, EndTypes, Pcs, Unwinding, voiceVars, input, streamVars
<1>4. CASE Waveform \/ Completion \/ BadItem \/ RawEnds
  <2>1. VoiceTypes' /\ AskedTypes'
    BY <1>4 DEF Waveform, Completion, BadItem, RawEnds, Unwind, VoiceTypes,
                AskedTypes, voiceVars, input
  <2>2. StreamTypes'
    <3>1. chunks' \in 0..MaxChunks
      BY <1>4, Bounds
      DEF Waveform, Completion, BadItem, RawEnds, Unwind, StreamTypes
    <3> QED
      BY <1>4, <3>1
      DEF Waveform, Completion, BadItem, RawEnds, Unwind, StreamTypes
  <2>3. EndTypes'
    BY <1>4 DEF Waveform, Completion, BadItem, RawEnds, Unwind, EndTypes, Pcs,
                Unwinding
  <2> QED
    BY <2>1, <2>2, <2>3
<1>5. CASE RawClosed \/ CloseFails
  BY <1>5, AnchorType
  DEF RawClosed, CloseFails, End, VoiceTypes, AskedTypes, StreamTypes,
      EndTypes, Pcs, Unwinding, voiceVars, input
<1>6. CASE ConsumerStep
  BY <1>6
  DEF ConsumerStep, Resume, Close, CloseUnstarted, CancelWaiting, CancelItem,
      CancelClosing, Unwind, End, VoiceTypes, AskedTypes, StreamTypes,
      EndTypes, Pcs, Unwinding, voiceVars, input, streamVars
<1>7. CASE EngineClose
  BY <1>7 DEF EngineClose, VoiceTypes, AskedTypes, StreamTypes, EndTypes,
              voiceVars, input, streamVars
<1>8. CASE UNCHANGED vars
  BY <1>8 DEF vars, VoiceTypes, AskedTypes, StreamTypes, EndTypes,
              voiceVars, input, streamVars
<1> QED
  BY <1>1, <1>2, <1>3, <1>4, <1>5, <1>6, <1>7, <1>8
  DEF Next, SegmentStep, PoolStep, Over

LEMMA AlwaysTypes == Spec => []Types
  BY InitTypes, NextTypes, PTL DEF Spec

\* Every reachable state is well typed, and synthesize() has ended exactly when
\* it has a result: no way out of the two generators loses it.
THEOREM TypeCorrect == Spec => []TypeOK
  BY AlwaysTypes, TypesAreTypeOK, PTL

-----------------------------------------------------------------------------
(* Streams (engine.py generate()) *)

\* A stream is open exactly at the awaits of its loop, and it is well ended only
\* if it was heard and completed.
StreamInv ==
    /\ raw = "open" <=> pc \in Streaming
    /\ raw = "lost" => pc = "over" /\ result \in {"error", "cancelled"}
    /\ pc \in Streaming => Len(asked) > 0
    /\ pc = "segment" => Len(asked) = 0 \/ (chunks > 0 /\ complete)
    /\ pc = "closing" /\ error = "none" => chunks > 0 /\ complete
    /\ pc \in {"new", "reference", "prompt"} => asked = <<>>

LEMMA InitStreamInv == Init => StreamInv
  BY DEF Init, StreamInv, Streaming

LEMMA NextStreamInv == Types /\ StreamInv /\ [Next]_vars => StreamInv'
<1> SUFFICES ASSUME Types, StreamInv, [Next]_vars PROVE StreamInv'
  OBVIOUS
<1> USE DEF StreamInv, Streaming
<1>1. CASE VoiceStep
  BY <1>1
  DEF VoiceStep, Refused, NoVoice, ResolveVoice, Encoded, EncodingFails,
      ReferenceFound, PromptFound, Await, End, streamVars
<1>2. CASE NextSegment
  BY <1>2 DEF NextSegment, Types, AskedTypes
<1>3. CASE SegmentRefused \/ TextOver
  BY <1>3 DEF SegmentRefused, TextOver, End, streamVars
<1>4. CASE Waveform \/ Completion \/ BadItem \/ RawEnds
  BY <1>4 DEF Waveform, Completion, BadItem, RawEnds, Unwind, Types, StreamTypes
<1>5. CASE RawClosed
  BY <1>5 DEF RawClosed, End
<1>6. CASE CloseFails
  BY <1>6 DEF CloseFails, End, Types, EndTypes, Unwinding
<1>7. CASE ConsumerStep
  BY <1>7
  DEF ConsumerStep, Resume, Close, CloseUnstarted, CancelWaiting, CancelItem,
      CancelClosing, Unwind, End, streamVars
<1>8. CASE EngineClose
  BY <1>8 DEF EngineClose, streamVars
<1>9. CASE UNCHANGED vars
  BY <1>9 DEF vars, streamVars
<1> QED
  BY <1>1, <1>2, <1>3, <1>4, <1>5, <1>6, <1>7, <1>8, <1>9
  DEF Next, SegmentStep, PoolStep, Over

LEMMA AlwaysStreamInv == Spec => []StreamInv
<1>1. Types /\ StreamInv /\ [Next]_vars => StreamInv'
  BY NextStreamInv
<1> QED
  BY <1>1, InitStreamInv, AlwaysTypes, PTL DEF Spec

\* One stream at a time, each closed before the next or the end, and a failed
\* close is reported.
THEOREM StreamsClosedHolds == Spec => []StreamsClosed
<1>1. StreamInv => StreamsClosed
  BY DEF StreamInv, StreamsClosed, Streaming
<1> QED
  BY <1>1, AlwaysStreamInv, PTL

-----------------------------------------------------------------------------
(* Conditioning (speech.py, the table of voices, modes and styles) *)

\* The prompt the table gives segment k under options o.
AnchorOf(o, k) ==
    Prompt(IF o.mode = "faithful" THEN Profile
           ELSE IF o.voice = "profile" \/ k = 1 THEN None ELSE 1)

\* The call for segment k is the one of the table.
ByTable(o, call, k) ==
    /\ call.prompt = AnchorOf(o, k)
    /\ call.reference = (o.voice = "profile")
    /\ call.target.segment = k
    /\ call.target.control =>
          Control(o) /\ o.mode # "faithful" /\ (o.voice = "profile" \/ k = 1)
    /\ Control(o) /\ (o.voice = "profile" \/ k = 1) => call.target.control

\* What synthesize() has resolved so far: nothing, the reference, all of it.
VoiceInv ==
    /\ Accepted(options)
    /\ pc \in {"new", "reference", "prompt"} => prompt = Prompt(None)
    /\ pc \in {"new", "reference"} => ~reference
    /\ pc \in {"reference", "prompt"} => IsProfile
    /\ pc = "prompt" => Faithful /\ reference
    /\ pc = "segment" \/ pc \in Streaming => (reference <=> IsProfile)

\* prompt_latents and prompt_text are the anchor of the segment at hand or next.
AnchorInv ==
    /\ pc = "segment" => prompt = AnchorOf(options, Len(asked) + 1)
    /\ pc \in Streaming => prompt = AnchorOf(options, Len(asked))

CallsInv == \A k \in 1..Len(asked) : ByTable(options, asked[k], k)

\* Faithful speech is for profiles and has no style, so no instruction.
LEMMA FaithfulIsPlain ==
    ASSUME Accepted(options), Faithful
    PROVE  IsProfile /\ ~Control(options)
  BY DEF Accepted, Faithful, IsProfile, Control

LEMMA InitVoiceInv == Init => VoiceInv
  BY DEF Init, VoiceInv, Streaming

\* No step changes the options, so the table stays the same, or the text.
LEMMA OptionsKept ==
    ASSUME [Next]_vars
    PROVE  options' = options /\ length' = length
  BY DEF Next, VoiceStep, Refused, NoVoice, ResolveVoice, Encoded,
         EncodingFails, SegmentStep, NextSegment, SegmentRefused, TextOver,
         PoolStep, Waveform, Completion, BadItem, RawEnds, RawClosed,
         CloseFails, ConsumerStep, Resume, Close, CloseUnstarted,
         CancelWaiting, CancelItem, CancelClosing, Unwind, EngineClose, Over,
         vars, voiceVars, input

LEMMA NextVoiceInv == Types /\ StreamInv /\ VoiceInv /\ [Next]_vars => VoiceInv'
<1> SUFFICES ASSUME Types, StreamInv, VoiceInv, [Next]_vars PROVE VoiceInv'
  OBVIOUS
<1> USE DEF VoiceInv, Streaming, IsProfile, Faithful
<1>1. options' = options
  BY OptionsKept
<1>2. CASE Refused \/ EncodingFails
  BY <1>1, <1>2 DEF Refused, EncodingFails, End, voiceVars, input
<1>3. CASE NoVoice
  BY <1>1, <1>3 DEF NoVoice, voiceVars, input, Types, VoiceTypes
<1>4. CASE ResolveVoice \/ Encoded
  BY <1>1, <1>4, FaithfulIsPlain
  DEF ResolveVoice, Encoded, ReferenceFound, PromptFound, Await, End
<1>5. CASE NextSegment \/ SegmentRefused \/ TextOver
  BY <1>1, <1>5
  DEF NextSegment, SegmentRefused, TextOver, End, voiceVars, input
<1>6. CASE Waveform \/ Completion \/ BadItem \/ RawEnds
  BY <1>1, <1>6
  DEF Waveform, Completion, BadItem, RawEnds, Unwind, voiceVars, input
<1>7. CASE RawClosed \/ CloseFails
  BY <1>1, <1>7 DEF RawClosed, CloseFails, End, voiceVars, input
<1>8. CASE ConsumerStep
  BY <1>1, <1>8
  DEF ConsumerStep, Resume, Close, CloseUnstarted, CancelWaiting, CancelItem,
      CancelClosing, Unwind, End, voiceVars, input
<1>9. CASE EngineClose \/ UNCHANGED vars
  BY <1>1, <1>9 DEF EngineClose, vars, voiceVars, input
<1> QED
  BY <1>2, <1>3, <1>4, <1>5, <1>6, <1>7, <1>8, <1>9
  DEF Next, VoiceStep, SegmentStep, PoolStep, Over

LEMMA InitAnchorInv == Init => AnchorInv
  BY DEF Init, AnchorInv, Streaming

LEMMA NextAnchorInv ==
    Types /\ StreamInv /\ VoiceInv /\ AnchorInv /\ [Next]_vars => AnchorInv'
<1> SUFFICES ASSUME Types, StreamInv, VoiceInv, AnchorInv, [Next]_vars
             PROVE  AnchorInv'
  OBVIOUS
<1> USE DEF Streaming
<1>1. options' = options
  BY OptionsKept
<1>2. CASE VoiceStep
  <2>1. asked = <<>> /\ asked' = <<>> /\ pc' \notin Streaming
    BY <1>2 DEF VoiceStep, Refused, NoVoice, ResolveVoice, Encoded,
                EncodingFails, ReferenceFound, PromptFound, Await, End,
                StreamInv
  <2>2. ASSUME pc' = "segment" PROVE prompt' = AnchorOf(options, 1)
    BY <1>2, <2>2, FaithfulIsPlain
    DEF VoiceStep, Refused, NoVoice, ResolveVoice, Encoded, EncodingFails,
        ReferenceFound, PromptFound, Await, End, VoiceInv, AnchorOf,
        IsProfile, Faithful, voiceVars, input
  <2>3. Len(asked') + 1 = 1
    BY <2>1
  <2> QED
    BY <1>1, <2>1, <2>2, <2>3 DEF AnchorInv
<1>3. CASE NextSegment
  <2>1. Len(asked') = Len(asked) + 1
    BY <1>3 DEF NextSegment, Types, AskedTypes
  <2> QED
    BY <1>1, <1>3, <2>1 DEF NextSegment, AnchorInv, voiceVars, input
<1>4. CASE RawClosed
  <2>1. asked' = asked /\ Len(asked) \in Nat /\ Len(asked) > 0
    BY <1>4 DEF RawClosed, StreamInv, Types, AskedTypes
  <2>2. ASSUME pc' = "segment" PROVE prompt' = AnchorOf(options, Len(asked) + 1)
    <3>1. prompt' = Anchor /\ prompt = AnchorOf(options, Len(asked))
      BY <1>4, <2>2 DEF RawClosed, End, AnchorInv
    <3>2. Len(asked) + 1 # 1
      BY <2>1
    <3>3. CASE IsProfile
      BY <3>1, <3>2, <3>3 DEF Anchor, AnchorOf, IsProfile, Faithful
    <3>4. CASE ~IsProfile
      <4>1. ~Faithful
        BY <3>4, FaithfulIsPlain DEF VoiceInv
      <4>2. CASE Len(asked) > 1
        BY <2>1, <3>1, <3>2, <3>4, <4>1, <4>2 DEF Anchor, AnchorOf, IsProfile, Faithful
      <4>3. CASE ~(Len(asked) > 1)
        BY <2>1, <3>1, <3>2, <3>4, <4>1, <4>3 DEF Anchor, AnchorOf, IsProfile, Faithful
      <4> QED
        BY <4>2, <4>3
    <3> QED
      BY <3>3, <3>4
  <2>3. pc' \in {"segment", "over"}
    BY <1>4 DEF RawClosed, End
  <2> QED
    BY <1>1, <2>1, <2>2, <2>3 DEF AnchorInv
<1>5. CASE SegmentRefused \/ TextOver \/ CloseFails
  BY <1>5 DEF SegmentRefused, TextOver, CloseFails, End, AnchorInv
<1>6. CASE Waveform \/ Completion \/ BadItem \/ RawEnds
  BY <1>1, <1>6 DEF Waveform, Completion, BadItem, RawEnds, Unwind, AnchorInv,
                    voiceVars, input
<1>7. CASE ConsumerStep
  BY <1>1, <1>7
  DEF ConsumerStep, Resume, Close, CloseUnstarted, CancelWaiting, CancelItem,
      CancelClosing, Unwind, End, AnchorInv, voiceVars, input
<1>8. CASE EngineClose \/ UNCHANGED vars
  BY <1>1, <1>8 DEF EngineClose, vars, AnchorInv, voiceVars, input
<1> QED
  BY <1>2, <1>3, <1>4, <1>5, <1>6, <1>7, <1>8
  DEF Next, SegmentStep, PoolStep, Over

\* What NextSegment asks for is what the table says.
LEMMA CallByTable ==
    ASSUME Types, VoiceInv, AnchorInv, NextSegment
    PROVE  ByTable(options, Call(Len(asked) + 1), Len(asked) + 1)
<1> DEFINE k == Len(asked) + 1
<1>1. prompt = AnchorOf(options, k) /\ reference = IsProfile
  BY DEF NextSegment, AnchorInv, VoiceInv, Types, VoiceTypes, IsProfile
<1>2. Controlled(k) => Control(options) /\ ~Faithful /\ (IsProfile \/ k = 1)
  BY FaithfulIsPlain DEF Controlled, VoiceInv
<1>3. Control(options) /\ (IsProfile \/ k = 1) => Controlled(k)
  BY FaithfulIsPlain DEF Controlled, VoiceInv
<1> QED
  BY <1>1, <1>2, <1>3 DEF ByTable, Call, Text, IsProfile, Faithful

LEMMA InitCallsInv == Init => CallsInv
  BY DEF Init, CallsInv

LEMMA NextCallsInv ==
    Types /\ VoiceInv /\ AnchorInv /\ CallsInv /\ [Next]_vars => CallsInv'
<1> SUFFICES ASSUME Types, VoiceInv, AnchorInv, CallsInv, [Next]_vars
             PROVE  CallsInv'
  OBVIOUS
<1>1. options' = options
  BY OptionsKept
<1>2. CASE NextSegment
  <2>1. /\ Len(asked') = Len(asked) + 1
        /\ asked'[Len(asked) + 1] = Call(Len(asked) + 1)
        /\ \A k \in 1..Len(asked) : asked'[k] = asked[k]
    BY <1>2 DEF NextSegment, Types, AskedTypes
  <2>2. ASSUME NEW k \in 1..Len(asked') PROVE ByTable(options, asked'[k], k)
    <3>1. k \in 1..Len(asked) \/ k = Len(asked) + 1
      BY <2>1 DEF Types, AskedTypes
    <3> QED
      BY <1>2, <2>1, <3>1, CallByTable DEF CallsInv
  <2> QED
    BY <1>1, <2>2 DEF CallsInv
<1>3. CASE ~NextSegment
  <2>1. asked' = asked
    BY <1>3
    DEF Next, VoiceStep, Refused, NoVoice, ResolveVoice, Encoded,
        EncodingFails, SegmentStep, SegmentRefused, TextOver, PoolStep,
        Waveform, Completion, BadItem, RawEnds, RawClosed, CloseFails,
        ConsumerStep, Resume, Close, CloseUnstarted, CancelWaiting,
        CancelItem, CancelClosing, Unwind, EngineClose, Over, vars
  <2> QED
    BY <1>1, <2>1 DEF CallsInv
<1> QED
  BY <1>2, <1>3

\* Every engine call is the one the table of voices, modes and styles promises,
\* for any number of segments: one immutable anchor for all of a text.
THEOREM ConditioningHolds == Spec => []Conditioning
<1>1. CallsInv => Conditioning
  BY DEF CallsInv, ByTable, AnchorOf, Conditioning, IsProfile, Faithful
<1>2. Types /\ StreamInv /\ VoiceInv /\ [Next]_vars => VoiceInv'
  BY NextVoiceInv
<1>3. Types /\ StreamInv /\ VoiceInv /\ AnchorInv /\ [Next]_vars => AnchorInv'
  BY NextAnchorInv
<1>4. Types /\ VoiceInv /\ AnchorInv /\ CallsInv /\ [Next]_vars => CallsInv'
  BY NextCallsInv
<1> QED
  BY <1>1, <1>2, <1>3, <1>4, InitVoiceInv, InitAnchorInv, InitCallsInv,
     AlwaysTypes, AlwaysStreamInv, PTL DEF Spec

-----------------------------------------------------------------------------
(* The promise to sessions and handlers *)

\* A step that ends synthesize() is an end the contract knows.
LEMMA EndsByContract ==
    ASSUME Types, StreamInv, NEW how \in {"error", "closed", "cancelled"},
           pc # "over", End(how), UNCHANGED <<length, asked, chunks, complete>>
    PROVE  Contract!End
  BY DEF End, Contract!End, Contract!speech, Types, EndTypes

\* synthesize() implements Utterance: each step of the two generators begins a
\* segment, gives out a chunk, completes the segment, ends the iteration or is not
\* seen by the caller.
THEOREM SpeechRefinesUtterance == Spec => RefinesUtterance
<1>1. Init => Contract!Init
  BY SpeechBounds DEF Init, Contract!Init
<1>2. Types /\ StreamInv /\ [Next]_vars => [Contract!Next]_(Contract!vars)
  <2> SUFFICES ASSUME Types, StreamInv, [Next]_vars
               PROVE  Contract!Next
                      \/ UNCHANGED <<length, Len(asked), chunks, complete,
                                     result>>
    BY DEF Contract!vars, Contract!speech
  <2> USE DEF Contract!Next, Contract!speech
  <2>0. UNCHANGED length
    BY OptionsKept
  <2>1. CASE Refused
    BY <2>0, <2>1 DEF Refused, End, Contract!End, StreamInv, Types, EndTypes,
                streamVars
  <2>2. CASE NoVoice \/ ResolveVoice \/ Encoded \/ EncodingFails
    <3>1. UNCHANGED <<asked, chunks, complete>> /\ pc # "over"
      BY <2>0, <2>2 DEF NoVoice, ResolveVoice, Encoded, EncodingFails, streamVars
    <3>2. End("error") \/ result' = result
      BY <2>0, <2>2 DEF NoVoice, ResolveVoice, Encoded, EncodingFails,
                  ReferenceFound, PromptFound, Await
    <3> QED
      BY <2>0, <3>1, <3>2, EndsByContract
  <2>3. CASE NextSegment
    <3>1. Len(asked') = Len(asked) + 1
      BY <2>0, <2>3 DEF NextSegment, Types, AskedTypes
    <3>2. Contract!Begin
      BY <2>0, <2>3, <3>1
      DEF NextSegment, Contract!Begin, Contract!Spoken, StreamInv, Types, EndTypes
    <3> QED
      BY <3>2
  <2>4. CASE TextOver
    BY <2>0, <2>4
    DEF TextOver, End, Contract!End, Contract!Spoken, StreamInv, Types, EndTypes,
        streamVars
  <2>5. CASE SegmentRefused \/ CancelWaiting \/ CancelClosing \/ CloseUnstarted
    BY <2>0, <2>5, EndsByContract
    DEF SegmentRefused, CancelWaiting, CancelClosing, CloseUnstarted, streamVars
  <2>6. CASE Waveform
    <3>1. Contract!Chunk
      BY <2>0, <2>6
      DEF Waveform, Contract!Chunk, StreamInv, Streaming, Types, EndTypes
    <3> QED
      BY <3>1
  <2>7. CASE BadItem \/ RawEnds \/ Resume \/ Close \/ CancelItem
    BY <2>0, <2>7 DEF BadItem, RawEnds, Resume, Close, CancelItem, Unwind,
                streamVars
  <2>8. CASE RawClosed
    <3>1. UNCHANGED <<asked, chunks, complete>> /\ pc # "over"
      BY <2>0, <2>8 DEF RawClosed
    <3>2. CASE error = "none"
      BY <2>0, <2>8, <3>1, <3>2 DEF RawClosed
    <3>3. CASE error # "none"
      <4>1. End(error) /\ error \in {"error", "closed", "cancelled"}
        BY <2>0, <2>8, <3>3 DEF RawClosed, Types, EndTypes, Unwinding
      <4> QED
        BY <2>0, <3>1, <4>1, EndsByContract
    <3> QED
      BY <3>2, <3>3
  <2>9. CASE CloseFails
    <3>1. UNCHANGED <<asked, chunks, complete>> /\ pc # "over"
      BY <2>0, <2>9 DEF CloseFails
    <3>2. \E how \in {"error", "closed", "cancelled"} : End(how)
      BY <2>0, <2>9 DEF CloseFails, Types, EndTypes, Unwinding
    <3> QED
      BY <2>0, <3>1, <3>2, EndsByContract
  <2>10. CASE EngineClose \/ UNCHANGED vars
    BY <2>0, <2>10 DEF EngineClose, vars, streamVars
  <2>11. CASE Completion
    <3>1. Contract!Complete
      BY <2>0, <2>11
      DEF Completion, Contract!Complete, StreamInv, Streaming, Types, EndTypes,
          AskedTypes
    <3> QED
      BY <3>1
  <2> QED
    BY <2>1, <2>2, <2>3, <2>4, <2>5, <2>6, <2>7, <2>8, <2>9, <2>10, <2>11
    DEF Next, VoiceStep, SegmentStep, PoolStep, ConsumerStep, Over
<1> QED
  BY <1>1, <1>2, AlwaysTypes, AlwaysStreamInv, PTL
  DEF Spec, RefinesUtterance, Contract!Spec
=============================================================================
