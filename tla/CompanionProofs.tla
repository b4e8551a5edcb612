---------------------------- MODULE CompanionProofs ----------------------------
(***************************************************************************)
(* What TLAPS proves of Companion: for any number of turns and any backlog, *)
(* one turn is heard at a time, and nothing of a turn that a user message   *)
(* interrupted is heard again.                                              *)
(***************************************************************************)
EXTENDS Companion, FiniteSetTheorems, SequenceTheorems, TLAPS

-----------------------------------------------------------------------------
(* The inductive invariant. *)

Idle == OpDone \cup {"none"}
Stopping == pc \in {"stopOp", "stopSession"}

\* Where an operation can be.
Places == {"none", "new", "stop", "open", "append"} \cup OpDone

\* TypeOK says of the fields of op what this says of the record.
OpRecord == op \in [frame : Frames \cup {NoFrame}, at : Places]

\* run(), the operation and the stop they share never contradict each other.
LinkInv ==
    /\ stop # "none" <=> op.at = "stop" \/ pc = "stopSession"
    /\ pc = "stopSession" => op.at \in Idle
    /\ pc = "stopOp" => op.at \in Idle \cup {"stop"}
    /\ pc = "loop" => stop \notin {"begin", "over", "raised"}
    /\ pc = "over" => op = NoOp
    /\ op.at \in {"open", "append"} => op.frame.kind \in TextKinds
    /\ op.at = "none" => op = NoOp

Control == TypeOK /\ OpRecord /\ LinkInv

\* Who is heard is the active session, and it is not stopped yet; a player told to
\* stop is the active session's too, and waited for; what is let go or replaced is
\* stopped.
PlayerInv ==
    /\ \A p \in Providers : player[p] = "playing" => p = active /\ ~closed
    /\ \A p \in Providers : player[p] = "stopping" =>
          p = active /\ (stop = "player" \/ drain = "aborting")
    /\ op.at = "open" \/ stop \in {"over", "raised"} \/ pc = "over" => active = None
    /\ stop \in {"player", "drain"} => closed
    /\ drain \in {"aborting", "ok", "failed"} => closed

-----------------------------------------------------------------------------
(* run(), the operation and the stop. *)

LEMMA LinkStep == Control /\ [Next]_vars => LinkInv'
<1> SUFFICES ASSUME Control, [Next]_vars PROVE LinkInv'
  OBVIOUS
<1> USE DEF Control, TypeOK, OpRecord, LinkInv, Idle, OpDone, Places, NoOp, NoFrame, Op, Frame
<1>1. CASE HostStep
  BY <1>1 DEF HostStep, HostConfigures, HostUser, HostText, HostTail, HostTurnEnds,
              HostCloses, Arrive, mainVars
<1>2. CASE ReceiverFails \/ \E p \in Providers : PlayerExits(p)
  BY <1>2 DEF ReceiverFails, PlayerExits, mainVars, sessionVars
<1>3. CASE StopStep
  <2>1. CASE StopBegins
    BY <2>1 DEF StopBegins, mainVars
  <2>2. CASE StopSent
    BY <2>2 DEF StopSent, Busy, mainVars
  <2>3. CASE StopPlayerGone
    BY <2>3 DEF StopPlayerGone, Busy, mainVars
  <2>4. CASE StopOver
    BY <2>4 DEF StopOver, Busy, mainVars
  <2> QED
    BY <1>3, <2>1, <2>2, <2>3, <2>4 DEF StopStep
<1>4. CASE DrainStep
  BY <1>4 DEF DrainStep, DrainPlayedOut, DrainFails, DrainOver, mainVars
<1>5. CASE OpStep
  <2>1. CASE OpText
    BY <2>1 DEF OpText, OpEnds, Appends, Busy, mainVars
  <2>2. CASE OpOther
    BY <2>2 DEF OpOther, OpEnds, Busy, mainVars
  <2>3. CASE OpStopped
    BY <2>3 DEF OpStopped, OpEnds, mainVars
  <2>4. CASE OpOpens \/ OpSends
    BY <2>4 DEF OpOpens, OpSends, OpEnds, Busy, mainVars
  <2> QED
    BY <1>5, <2>1, <2>2, <2>3, <2>4 DEF OpStep
<1>6. CASE LoopTurn \/ RunCancelled
  <2>0. pc \in {"loop", "wait"} /\ stop \notin {"begin", "over", "raised"}
    BY <1>6 DEF LoopTurn, RunCancelled, Busy
  <2>1. ASSUME NEW frame, Stops(frame)
        PROVE LinkInv'
    BY <2>0, <2>1 DEF Stops, CancelOperation, OpEnds
  <2>2. ASSUME NEW frame, Dispatch(frame)
        PROVE LinkInv'
    BY <2>0, <2>2 DEF Dispatch
  <2> QED
    BY <1>6, <2>1, <2>2 DEF LoopTurn, TakesUp, RunCancelled
<1>7. CASE Waits \/ StopsSession \/ Preempted \/ Exits
  BY <1>7 DEF Waits, StopsSession, Preempted, Exits
<1>8. CASE Over \/ UNCHANGED vars
  BY <1>8 DEF Over, vars, mainVars
<1> QED
  BY <1>1, <1>2, <1>3, <1>4, <1>5, <1>6, <1>7, <1>8 DEF Next, RunStep
-----------------------------------------------------------------------------
(* One player. *)

LEMMA PlayerStep == Control /\ PlayerInv /\ [Next]_vars => PlayerInv'
<1> SUFFICES ASSUME Control, PlayerInv, [Next]_vars PROVE PlayerInv'
  OBVIOUS
<1> USE DEF Control, TypeOK, LinkInv, PlayerInv, Idle, OpDone, DrainDone, NoOp, NoFrame,
            Op, Frame
<1>1. CASE HostStep
  <2>1. UNCHANGED <<pc, op, stop, active, closed, drain, player>>
    BY <1>1 DEF HostStep, HostConfigures, HostUser, HostText, HostTail, HostTurnEnds,
                HostCloses, Arrive, mainVars, sessionVars
  <2> QED
    BY <2>1
<1>2. CASE ReceiverFails \/ \E p \in Providers : PlayerExits(p)
  BY <1>2 DEF ReceiverFails, PlayerExits, mainVars, sessionVars
<1>3. CASE StopStep
  <2>1. CASE StopBegins
    BY <2>1 DEF StopBegins, mainVars
  <2>2. CASE StopSent
    BY <2>2 DEF StopSent, Busy, mainVars, Terminate
  <2>3. CASE StopPlayerGone
    BY <2>3 DEF StopPlayerGone, Busy, mainVars, sessionVars
  <2>4. CASE StopOver
    BY <2>4 DEF StopOver, Busy, mainVars
  <2> QED
    BY <1>3, <2>1, <2>2, <2>3, <2>4 DEF StopStep
<1>4. CASE DrainStep
  BY <1>4 DEF DrainStep, DrainPlayedOut, DrainFails, DrainOver, mainVars, Terminate, Busy
<1>5. CASE OpStep
  <2>1. CASE OpText
    <3>1. /\ op'.at \in {"misfed", "ok", "append", "failed", "stop"}
          /\ stop = "none" /\ stop' \in {stop, "begin"}
          /\ UNCHANGED <<pc, active, closed, drain, player>>
      BY <2>1 DEF OpText, OpEnds, Appends, OpRecord, mainVars, sessionVars
    <3> QED
      BY <3>1
  <2>2. CASE OpOther
    <3>1. /\ op'.at \in {"ok", "stop"} /\ stop = "none" /\ stop' \in {stop, "begin"}
          /\ drain' = drain \/ (drain = "none" /\ drain' = "running")
          /\ UNCHANGED <<pc, active, closed, player>>
      BY <2>2 DEF OpOther, OpEnds, OpRecord, mainVars
    <3> QED
      BY <3>1
  <2>3. CASE OpStopped
    BY <2>3 DEF OpStopped, OpEnds, mainVars, sessionVars
  <2>4. CASE OpOpens
    <3>1. /\ op'.at = "append" /\ ~closed' /\ drain' = "none"
          /\ active' = op.frame.who
          /\ player' = [player EXCEPT ![active'] = "playing"]
          /\ UNCHANGED <<pc, stop>>
      BY <2>4 DEF OpOpens, OpEnds, OpRecord, mainVars
    <3>2. op.at = "open" /\ active = None /\ pc # "over" /\ stop = "none"
      BY <2>4 DEF OpOpens
    <3>3. \A p \in Providers :
             /\ player'[p] # "stopping"
             /\ player'[p] = "playing" => p = active'
      BY <3>1, <3>2 DEF None, Providers
    <3> QED
      BY <3>1, <3>2, <3>3
  <2>5. CASE OpSends
    <3>1. /\ op'.at \in {"ok", "failed"}
          /\ UNCHANGED <<pc, stop, active, closed, drain, player>>
      BY <2>5 DEF OpSends, OpEnds, OpRecord, mainVars, sessionVars
    <3> QED
      BY <3>1
  <2> QED
    BY <1>5, <2>1, <2>2, <2>3, <2>4, <2>5 DEF OpStep
<1>6. CASE LoopTurn \/ RunCancelled
  <2>0. /\ pc \in {"loop", "wait"} /\ stop \notin {"begin", "over", "raised"}
        /\ closed' = closed
    BY <1>6 DEF LoopTurn, RunCancelled, Busy
  <2>1. ASSUME NEW frame, Stops(frame)
        PROVE PlayerInv'
    <3>1. /\ pc' = "stopOp"
          /\ op'.at = "open" => FALSE
          /\ stop' \in {stop, "none", "drain"}
          /\ stop' = "drain" => closed
          /\ active' = active \/ closed
          /\ drain' = drain \/ closed
      BY <2>0, <2>1 DEF Stops, CancelOperation, OpEnds, OpRecord
    <3>2. active' = active \/ active' = None
      BY <2>1 DEF Stops, CancelOperation
    <3>3. CASE UNCHANGED <<stop, active, drain, player>>
      BY <2>0, <3>1, <3>3
    <3>4. CASE player' = Drop(active) /\ stop \in {"player", "drain"}
      <4>1. \A p \in Providers :
               /\ player'[p] # "stopping"
               /\ player'[p] = "playing" => player[p] = "playing"
        BY <3>4 DEF Drop
      <4> QED
        BY <2>0, <3>1, <3>4, <4>1
    <3> QED
      BY <2>1, <3>3, <3>4 DEF Stops, CancelOperation
  <2>2. ASSUME NEW frame, Dispatch(frame), ~ErrorCollected
        PROVE PlayerInv'
    BY <2>0, <2>2 DEF Dispatch, ErrorCollected, MonitorDone
  <2> QED
    BY <1>6, <2>1, <2>2 DEF LoopTurn, TakesUp, RunCancelled
<1>7. CASE Waits \/ StopsSession \/ Preempted \/ Exits
  BY <1>7 DEF Waits, StopsSession, Preempted, Exits, sessionVars
<1>8. CASE Over \/ UNCHANGED vars
  BY <1>8 DEF Over, vars, mainVars, sessionVars
<1> QED
  BY <1>1, <1>2, <1>3, <1>4, <1>5, <1>6, <1>7, <1>8 DEF Next, RunStep
-----------------------------------------------------------------------------
(* Types *)

LEMMA FrameTypes ==
    /\ \A kind \in ResultKinds \cup EndKinds \cup ObserveKinds, who \in 0..Turns :
          Frame(kind, who) \in Frames
    /\ NoFrame \in Frames \cup {NoFrame}
    /\ Providers \cup {None} = 0..Turns
BY CompanionAssumption DEF Frame, NoFrame, Frames, Providers, None

Kinds == ResultKinds \cup EndKinds \cup ObserveKinds

\* The host sends a piece of the turn it is at or begins, or something else.
SendsText(kind) ==
    /\ kind \in TextKinds
    /\ Arrive(Frame(kind, turn'))
    /\ \/ turn' = turn /\ host \in {"open", "half"}
       \/ turn' = turn + 1 /\ turn < Turns
    /\ host' \in {"open", "half"}

SendsOther(kind, who) ==
    /\ kind \in Kinds \ TextKinds /\ who \in {turn, None}
    /\ Arrive(Frame(kind, who))
    /\ kind = "user" => who = turn
    /\ turn' = turn
    /\ host' \in {"idle", "closed"}

LEMMA HostSends ==
    ASSUME TypeOK, HostStep
    PROVE  \E kind \in Kinds : SendsText(kind) \/ \E who \in 0..Turns : SendsOther(kind, who)
<1> turn \in 0..Turns /\ None \in 0..Turns
  BY CompanionAssumption DEF TypeOK, None
<1> USE DEF Kinds, ResultKinds, EndKinds, ObserveKinds, TextKinds
<1>1. CASE HostConfigures
  <2>1. SendsOther("ok", None) \/ SendsOther("refused", None)
    BY <1>1 DEF HostConfigures, SendsOther
  <2> QED
    BY <2>1
<1>2. CASE HostUser
  <2>1. SendsOther("user", turn)
    BY <1>2 DEF HostUser, SendsOther
  <2> QED
    BY <2>1
<1>3. CASE HostText
  <2>1. SendsText("text") \/ SendsText("part")
    BY <1>3 DEF HostText, SendsText
  <2> QED
    BY <2>1
<1>4. CASE HostTail
  <2>1. SendsText("tail")
    BY <1>4 DEF HostTail, SendsText
  <2> QED
    BY <2>1
<1>5. CASE HostTurnEnds
  <2>1. SendsOther("done", turn) \/ SendsOther("error", turn)
    BY <1>5 DEF HostTurnEnds, SendsOther
  <2> QED
    BY <2>1
<1>6. CASE HostCloses
  <2>1. SendsOther("eof", None) \/ SendsOther("broken", None)
    BY <1>6 DEF HostCloses, SendsOther
  <2> QED
    BY <2>1
<1> QED
  BY <1>1, <1>2, <1>3, <1>4, <1>5, <1>6 DEF HostStep

\* What a frame of the host changes, and what not.
LEMMA Arrival ==
    ASSUME TypeOK, HostStep
    PROVE  /\ UNCHANGED <<pc, held, configured, assembling, op, stop, active, closed,
                          broken, drain, player, interrupted, pending>>
           /\ Len(queue) + Len(pending) < MaxBacklog
           /\ \E frame \in Frames : queue' = Append(queue, frame)
           /\ host' \in {"new", "idle", "open", "half", "closed"}
           /\ turn' \in 0..Turns
<1>1. ASSUME NEW kind \in Kinds, NEW who \in 0..Turns, Arrive(Frame(kind, who))
      PROVE  /\ UNCHANGED <<pc, held, configured, assembling, op, stop, active, closed,
                            broken, drain, player, interrupted, pending>>
             /\ Len(queue) + Len(pending) < MaxBacklog
             /\ \E frame \in Frames : queue' = Append(queue, frame)
  BY <1>1, FrameTypes DEF Arrive, mainVars, sessionVars, Kinds
<1>2. turn \in 0..Turns /\ (turn < Turns => turn + 1 \in 0..Turns)
  BY CompanionAssumption DEF TypeOK
<1>3. turn' \in 0..Turns /\ host' \in {"new", "idle", "open", "half", "closed"}
  BY <1>2, HostSends DEF SendsText, SendsOther
<1>4. \E kind \in Kinds, who \in 0..Turns : Arrive(Frame(kind, who))
  BY <1>3, HostSends DEF SendsText, SendsOther
<1> QED
  BY <1>1, <1>3, <1>4

LEMMA HostTypes == Control /\ HostStep => TypeOK' /\ OpRecord'
<1> SUFFICES ASSUME Control, HostStep PROVE TypeOK' /\ OpRecord'
  OBVIOUS
<1> USE DEF Control
<1>1. queue' \in Seq(Frames) /\ Len(queue') = Len(queue) + 1
  <2>1. PICK frame \in Frames : queue' = Append(queue, frame)
    BY Arrival
  <2>2. queue \in Seq(Frames)
    BY DEF TypeOK
  <2> QED
    BY <2>1, <2>2
<1>2. Len(queue') + Len(pending') <= MaxBacklog
  BY <1>1, Arrival, CompanionAssumption DEF TypeOK
<1> QED
  BY <1>1, <1>2, Arrival DEF TypeOK, OpRecord


\* The types by what changes together: what the host sends, what run() keeps, the
\* operation, the session.
InputTypes ==
    /\ turn \in 0..Turns
    /\ queue \in Seq(Frames) /\ pending \in Seq(Frames)
    /\ Len(queue) + Len(pending) <= MaxBacklog
    /\ host \in {"new", "idle", "open", "half", "closed"}
RunTypes ==
    /\ pc \in {"loop", "wait", "stopOp", "stopSession", "over"}
    /\ held \in Frames \cup {NoFrame}
    /\ configured \in BOOLEAN
    /\ assembling \in 0..Turns /\ interrupted \in 0..Turns
OpTypes ==
    /\ OpRecord
    /\ stop \in {"none", "begin", "send", "player", "drain", "over", "raised"}
SessionTypes ==
    /\ active \in 0..Turns
    /\ closed \in BOOLEAN /\ broken \in BOOLEAN
    /\ drain \in {"none", "running", "aborting"} \cup DrainDone
    /\ player \in [Providers -> {"none", "playing", "stopping", "dropped",
                                 "gone"}]

LEMMA TypeParts ==
    /\ Control => InputTypes /\ RunTypes /\ OpTypes /\ SessionTypes
    /\ InputTypes /\ RunTypes /\ OpTypes /\ SessionTypes /\ LinkInv => TypeOK /\ OpRecord
BY DEF Control, TypeOK, OpRecord, LinkInv, InputTypes, RunTypes, OpTypes, SessionTypes, Places

\* The operation, a stop, a drain and the players leave run() and its input alone.
LEMMA OtherTasks ==
    ASSUME StopStep \/ DrainStep \/ OpStep \/ ReceiverFails
           \/ \E p \in Providers : PlayerExits(p)
    PROVE  UNCHANGED <<host, turn, queue, pc, held, configured, pending, interrupted>>
BY DEF StopStep, StopBegins, StopSent, StopPlayerGone, StopOver, DrainStep, DrainPlayedOut,
       DrainFails, DrainOver, OpStep, OpText, OpOther, OpStopped, OpOpens, OpSends,
       ReceiverFails, PlayerExits, mainVars

\* The steps of run(): the frames are those it had.
LEMMA LoopFrames ==
    ASSUME Control, LoopTurn
    PROVE  \E frame \in Frames \cup {NoFrame} :
              /\ frame = IF queue = <<>> THEN NoFrame ELSE Head(queue)
              /\ Stops(NoFrame) \/ Stops(frame) \/ (~ErrorCollected /\ Dispatch(frame))
              /\ interrupted' = IF configured /\ frame.kind = "user"
                                  THEN frame.who ELSE interrupted
<1>1. PICK frame \in Frames \cup {NoFrame} : frame = IF queue = <<>> THEN NoFrame ELSE Head(queue)
  BY DEF Control, TypeOK
<1>2. TakesUp(frame)
  BY <1>1 DEF LoopTurn
<1>3. Stops(NoFrame) \/ Stops(frame) \/ (~ErrorCollected /\ Dispatch(frame))
  BY <1>2 DEF TakesUp
<1>4. interrupted' = IF configured /\ frame.kind = "user" THEN frame.who ELSE interrupted
  BY <1>2 DEF TakesUp
<1> QED
  BY <1>1, <1>3, <1>4

LEMMA InputStep == Control /\ [Next]_vars => InputTypes'
<1> SUFFICES ASSUME Control, [Next]_vars PROVE InputTypes'
  OBVIOUS
<1>0. InputTypes
  BY TypeParts
<1>1. CASE HostStep
  BY <1>1, HostTypes DEF TypeOK, InputTypes
<1>2. CASE StopStep \/ DrainStep \/ OpStep \/ ReceiverFails \/ \E p \in Providers : PlayerExits(p)
  BY <1>0, <1>2, OtherTasks DEF InputTypes
<1>3. CASE LoopTurn
  <2>1. PICK frame \in Frames \cup {NoFrame} :
           /\ frame = IF queue = <<>> THEN NoFrame ELSE Head(queue)
           /\ Stops(NoFrame) \/ Stops(frame) \/ (~ErrorCollected /\ Dispatch(frame))
    BY <1>3, LoopFrames
  <2>2. UNCHANGED <<host, turn>> /\ queue' = IF queue = <<>> THEN queue ELSE Tail(queue)
    BY <1>3 DEF LoopTurn
  <2>3. pending' = pending \/ (pending' = Append(pending, frame) /\ frame.kind \in ObserveKinds)
    BY <2>1 DEF Stops, Dispatch
  <2>4. CASE queue = <<>>
    <3>1. frame.kind \notin ObserveKinds
      BY <2>1, <2>4 DEF NoFrame, Frame, ObserveKinds, TextKinds
    <3> QED
      BY <1>0, <2>2, <2>3, <2>4, <3>1 DEF InputTypes
  <2>5. CASE queue # <<>>
    <3>1. queue' \in Seq(Frames) /\ Len(queue') = Len(queue) - 1 /\ frame \in Frames
      BY <1>0, <2>1, <2>2, <2>5 DEF InputTypes
    <3>2. pending' \in Seq(Frames) /\ Len(pending') <= Len(pending) + 1
      <4>1. CASE pending' = pending
        BY <1>0, <4>1 DEF InputTypes
      <4>2. CASE pending' = Append(pending, frame)
        BY <1>0, <3>1, <4>2 DEF InputTypes
      <4> QED
        BY <2>3, <4>1, <4>2
    <3>3. Len(queue') + Len(pending') <= MaxBacklog
      BY <1>0, <3>1, <3>2, CompanionAssumption DEF InputTypes
    <3> QED
      BY <1>0, <2>2, <3>1, <3>2, <3>3 DEF InputTypes
  <2> QED
    BY <2>4, <2>5
<1>4. CASE Waits
  <2>1. UNCHANGED <<host, turn, queue>>
        /\ (pending' = pending \/ (pending # <<>> /\ pending' = Tail(pending)))
    BY <1>4 DEF Waits
  <2>2. pending' \in Seq(Frames) /\ Len(pending') <= Len(pending)
    BY <1>0, <2>1 DEF InputTypes
  <2>3. Len(queue') + Len(pending') <= MaxBacklog
    BY <1>0, <2>1, <2>2, CompanionAssumption DEF InputTypes
  <2> QED
    BY <1>0, <2>1, <2>2, <2>3 DEF InputTypes
<1>5. CASE Preempted \/ Exits
  <2>1. /\ UNCHANGED <<host, turn>>
        /\ queue' \in {queue, <<>>} /\ pending' = <<>>
    BY <1>5 DEF Preempted, Exits
  <2>2. /\ queue' \in Seq(Frames) /\ Len(queue') <= Len(queue)
        /\ pending' \in Seq(Frames) /\ Len(pending') <= Len(pending)
    <3>1. <<>> \in Seq(Frames) /\ Len(<<>>) = 0
      OBVIOUS
    <3>2. Len(queue) \in Nat /\ Len(pending) \in Nat
      BY <1>0 DEF InputTypes
    <3>3. queue' \in Seq(Frames) /\ Len(queue') <= Len(queue)
      <4>1. CASE queue' = queue
        BY <1>0, <3>2, <4>1 DEF InputTypes
      <4>2. CASE queue' = <<>>
        BY <3>2, <4>2
      <4> QED
        BY <2>1, <4>1, <4>2
    <3>4. pending' \in Seq(Frames) /\ Len(pending') <= Len(pending)
      BY <2>1, <3>2
    <3> QED
      BY <3>3, <3>4
  <2>3. Len(queue') + Len(pending') <= MaxBacklog
    BY <1>0, <2>2, CompanionAssumption DEF InputTypes
  <2> QED
    BY <1>0, <2>1, <2>2, <2>3 DEF InputTypes
<1>6. CASE StopsSession \/ RunCancelled \/ Over \/ UNCHANGED vars
  BY <1>0, <1>6 DEF StopsSession, RunCancelled, Stops, Over, vars, mainVars, InputTypes
<1> QED
  BY <1>1, <1>2, <1>3, <1>4, <1>5, <1>6 DEF Next, RunStep

LEMMA RunTypesStep == Control /\ [Next]_vars => RunTypes'
<1> SUFFICES ASSUME Control, [Next]_vars PROVE RunTypes'
  OBVIOUS
<1>0. RunTypes /\ op.frame \in Frames \cup {NoFrame} /\ None \in 0..Turns
      /\ \A frame \in Frames \cup {NoFrame} : frame.who \in 0..Turns
  BY TypeParts, CompanionAssumption DEF Control, TypeOK, Frames, NoFrame, Frame, Providers, None
<1>1. CASE HostStep
  BY <1>1, HostTypes DEF TypeOK, RunTypes
<1>2. CASE StopStep \/ DrainStep \/ OpStep \/ ReceiverFails \/ \E p \in Providers : PlayerExits(p)
  <2>1. assembling' \in {assembling, op.frame.who, None}
    BY <1>2 DEF StopStep, StopBegins, StopSent, StopPlayerGone, StopOver, DrainStep,
           DrainPlayedOut, DrainFails, DrainOver, OpStep, OpText, OpOther, OpStopped,
           OpOpens, OpSends, ReceiverFails, PlayerExits
  <2> QED
    BY <1>0, <1>2, <2>1, OtherTasks DEF RunTypes
<1>3. CASE LoopTurn
  <2>1. PICK frame \in Frames \cup {NoFrame} :
           /\ Stops(NoFrame) \/ Stops(frame) \/ (~ErrorCollected /\ Dispatch(frame))
           /\ interrupted' = IF configured /\ frame.kind = "user" THEN frame.who ELSE interrupted
    BY <1>3, LoopFrames
  <2>2. interrupted' \in 0..Turns /\ assembling' = assembling
    BY <1>0, <1>3, <2>1 DEF RunTypes, LoopTurn
  <2>3. /\ pc' \in {"loop", "stopOp"} /\ held' \in {held, frame, NoFrame}
        /\ configured' \in {configured, configured \/ frame.kind = "ok"}
    BY <2>1 DEF Stops, Dispatch
  <2> QED
    BY <1>0, <2>1, <2>2, <2>3 DEF RunTypes
<1>4. CASE Waits \/ StopsSession \/ Preempted \/ Exits
  BY <1>0, <1>4 DEF Waits, StopsSession, Preempted, Exits, RunTypes
<1>5. CASE RunCancelled
  BY <1>0, <1>5 DEF RunCancelled, Stops, RunTypes
<1>6. CASE Over \/ UNCHANGED vars
  BY <1>0, <1>6 DEF Over, vars, mainVars, RunTypes
<1> QED
  BY <1>1, <1>2, <1>3, <1>4, <1>5, <1>6 DEF Next, RunStep

LEMMA OpTypesStep == Control /\ [Next]_vars => OpTypes'
<1> SUFFICES ASSUME Control, [Next]_vars PROVE OpTypes'
  OBVIOUS
<1>0. /\ OpTypes
      /\ \A at \in Places : [op EXCEPT !.at = at] \in [frame : Frames \cup {NoFrame}, at : Places]
      /\ \A frame \in Frames \cup {NoFrame}, at \in Places :
            Op(frame, at) \in [frame : Frames \cup {NoFrame}, at : Places]
      /\ NoOp \in [frame : Frames \cup {NoFrame}, at : Places]
  BY TypeParts DEF Control, OpTypes, OpRecord, Op, NoOp, Places
<1> USE DEF OpTypes, OpRecord, OpEnds, Places, OpDone
<1>1. CASE HostStep
  BY <1>0, <1>1, Arrival DEF Control
<1>2. CASE StopStep
  BY <1>0, <1>2 DEF StopStep, StopBegins, StopSent, StopPlayerGone, StopOver
<1>3. CASE DrainStep \/ ReceiverFails \/ \E p \in Providers : PlayerExits(p)
  BY <1>0, <1>3 DEF DrainStep, DrainPlayedOut, DrainFails, DrainOver, ReceiverFails, PlayerExits
<1>4. CASE OpStep
  <2>1. CASE OpText
    BY <1>0, <2>1 DEF OpText, Appends
  <2>2. CASE OpOther
    BY <1>0, <2>2 DEF OpOther
  <2>3. CASE OpStopped
    BY <1>0, <2>3 DEF OpStopped
  <2>4. CASE OpOpens \/ OpSends
    BY <1>0, <2>4 DEF OpOpens, OpSends
  <2> QED
    BY <1>4, <2>1, <2>2, <2>3, <2>4 DEF OpStep
<1>5. CASE LoopTurn \/ RunCancelled
  <2>1. PICK frame \in Frames \cup {NoFrame} :
           Stops(NoFrame) \/ Stops(frame) \/ (~ErrorCollected /\ Dispatch(frame))
    BY <1>5, LoopFrames DEF RunCancelled
  <2>2. op' \in {op, [op EXCEPT !.at = "cancelled"], NoOp, Op(frame, "new")}
    BY <2>1 DEF Stops, CancelOperation, Dispatch
  <2>3. stop' \in {stop, "none", "drain"}
    BY <2>1 DEF Stops, CancelOperation, Dispatch
  <2> QED
    BY <1>0, <2>1, <2>2, <2>3
<1>6. CASE Waits \/ StopsSession \/ Preempted \/ Exits
  <2>1. stop' \in {stop, "begin", "none"}
    BY <1>6 DEF Waits, StopsSession, Preempted, Exits
  <2>2. \/ op' = op \/ op' = NoOp \/ op' = Op(held, "new")
        \/ pending # <<>> /\ op' = Op(Head(pending), "new")
    BY <1>6 DEF Waits, StopsSession, Preempted, Exits
  <2>3. held \in Frames \cup {NoFrame} /\ (pending # <<>> => Head(pending) \in Frames)
    BY DEF Control, TypeOK
  <2> QED
    BY <1>0, <2>1, <2>2, <2>3
<1>7. CASE Over \/ UNCHANGED vars
  BY <1>0, <1>7 DEF Over, vars
<1> QED
  BY <1>1, <1>2, <1>3, <1>4, <1>5, <1>6, <1>7 DEF Next, RunStep

LEMMA SessionTypesStep == Control /\ [Next]_vars => SessionTypes'
<1> SUFFICES ASSUME Control, [Next]_vars PROVE SessionTypes'
  OBVIOUS
<1>0. /\ SessionTypes /\ None \in 0..Turns /\ op.frame.who \in 0..Turns
  BY TypeParts, CompanionAssumption DEF Control, TypeOK, Frames, NoFrame, Frame, Providers, None
<1> USE DEF SessionTypes, DrainDone
<1>1. CASE HostStep
  BY <1>0, <1>1, Arrival DEF Control
<1>2. CASE ReceiverFails \/ \E p \in Providers : PlayerExits(p)
  <2>1. \/ player' = player
        \/ \E p \in Providers : player' = [player EXCEPT ![p] = "gone"]
    BY <1>2 DEF ReceiverFails, PlayerExits
  <2>2. player' \in [Providers -> {"none", "playing", "stopping", "dropped",
                                 "gone"}]
    BY <1>0, <2>1
  <2> QED
    BY <1>0, <1>2, <2>2 DEF ReceiverFails, PlayerExits, sessionVars
<1>3. CASE StopStep \/ DrainStep
  <2>1. player' \in {player, Terminate(active), [player EXCEPT ![active] = "gone"]}
    BY <1>3 DEF StopStep, StopBegins, StopSent, StopPlayerGone, StopOver, DrainStep,
           DrainPlayedOut, DrainFails, DrainOver, sessionVars
  <2>2. player' \in [Providers -> {"none", "playing", "stopping", "dropped",
                                 "gone"}]
    BY <1>0, <2>1 DEF Terminate
  <2>3. active' \in {active, None} /\ closed' \in {closed, TRUE} /\ broken' = broken
    BY <1>3 DEF StopStep, StopBegins, StopSent, StopPlayerGone, StopOver, DrainStep,
           DrainPlayedOut, DrainFails, DrainOver, sessionVars
  <2>4. drain' \in {drain, "ok", "aborting", "failed"}
    BY <1>3 DEF StopStep, StopBegins, StopSent, StopPlayerGone, StopOver, DrainStep,
           DrainPlayedOut, DrainFails, DrainOver, sessionVars
  <2> QED
    BY <1>0, <2>2, <2>3, <2>4
<1>4. CASE OpStep
  <2>1. player' \in {player, [player EXCEPT ![op.frame.who] = "playing"]}
    BY <1>4 DEF OpStep, OpText, OpOther, OpStopped, OpOpens, OpSends, sessionVars
  <2>2. player' \in [Providers -> {"none", "playing", "stopping", "dropped",
                                 "gone"}]
    BY <1>0, <2>1
  <2>3. active' \in {active, op.frame.who} /\ closed' \in {closed, FALSE}
        /\ broken' \in {broken, FALSE}
    BY <1>4 DEF OpStep, OpText, OpOther, OpStopped, OpOpens, OpSends, sessionVars
  <2>4. drain' \in {drain, "running", "none"}
    BY <1>4 DEF OpStep, OpText, OpOther, OpStopped, OpOpens, OpSends, sessionVars
  <2> QED
    BY <1>0, <2>2, <2>3, <2>4
<1>5. CASE LoopTurn \/ RunCancelled
  <2>1. PICK frame \in Frames \cup {NoFrame} :
           Stops(NoFrame) \/ Stops(frame) \/ (~ErrorCollected /\ Dispatch(frame))
    BY <1>5, LoopFrames DEF RunCancelled
  <2>2. active' \in {active, None} /\ drain' \in {drain, "none", "failed"}
    BY <2>1 DEF Stops, CancelOperation, Dispatch
  <2>3. UNCHANGED <<closed, broken>>
    BY <1>5 DEF LoopTurn, RunCancelled
  <2>4. player' \in {player, Drop(active)}
    BY <2>1 DEF Stops, CancelOperation, Dispatch
  <2>5. player' \in [Providers -> {"none", "playing", "stopping", "dropped",
                                 "gone"}]
    BY <1>0, <2>4 DEF Drop
  <2> QED
    BY <1>0, <2>2, <2>3, <2>5
<1>6. CASE Waits \/ StopsSession \/ Preempted \/ Exits \/ Over \/ UNCHANGED vars
  BY <1>0, <1>6 DEF Waits, StopsSession, Preempted, Exits, Over, vars, sessionVars
<1> QED
  BY <1>1, <1>2, <1>3, <1>4, <1>5, <1>6 DEF Next, RunStep

LEMMA ControlStep == Control /\ [Next]_vars => Control'
<1> SUFFICES ASSUME Control, [Next]_vars PROVE Control'
  OBVIOUS
<1>1. InputTypes' /\ RunTypes' /\ OpTypes' /\ SessionTypes' /\ LinkInv'
  BY LinkStep, InputStep, RunTypesStep, OpTypesStep, SessionTypesStep
<1>2. TypeOK' /\ OpRecord'
  BY <1>1 DEF TypeOK, OpRecord, LinkInv, InputTypes, RunTypes, OpTypes, SessionTypes, Places
<1> QED
  BY <1>1, <1>2 DEF Control

-----------------------------------------------------------------------------
(* Nothing old is spoken. *)

IsUser(frame) == frame.kind = "user"
IsText(frame) == frame.kind \in TextKinds

\* It belongs to a turn that no user message has interrupted.
Newer(frame) == IsText(frame) => frame.who > interrupted

\* The queue in the order of the host: the text of a turn comes after the user
\* messages that were sent before the turn began.
HostInv ==
    /\ interrupted <= turn
    /\ \A i \in 1..Len(queue) : queue[i].who <= turn /\ Newer(queue[i])
    /\ host \in {"open", "half"} =>
          /\ interrupted < turn
          /\ \A i \in 1..Len(queue) : IsUser(queue[i]) => queue[i].who < turn
    /\ \A i, j \in 1..Len(queue) :
          i < j /\ IsUser(queue[i]) /\ IsText(queue[j]) => queue[i].who < queue[j].who

\* Whatever run() or an operation may still speak is newer.
OldInv ==
    /\ Newer(held)
    /\ ~Stopping =>
          /\ \A i \in 1..Len(pending) : Newer(pending[i])
          /\ op.at \notin Idle => Newer(op.frame)
          /\ active # None => active > interrupted

\* A user message is taken up by pre-empting; no other frame changes what counts
\* as old.
LEMMA UserPreempts ==
    ASSUME Control, LoopTurn
    PROVE  \/ interrupted' = interrupted
           \/ /\ queue # <<>> /\ IsUser(Head(queue)) /\ Stops(Head(queue))
              /\ interrupted' = Head(queue).who
<1>1. PICK frame \in Frames \cup {NoFrame} : frame = IF queue = <<>> THEN NoFrame ELSE Head(queue)
  BY DEF Control, TypeOK
<1>2. TakesUp(frame)
  BY <1>1 DEF LoopTurn
<1>3. CASE configured /\ frame.kind = "user"
  <2>1. queue # <<>>
    BY <1>1, <1>3 DEF NoFrame, Frame
  <2>2. Preempts(frame) /\ frame.kind \notin EndKinds
    BY <1>3 DEF Preempts, EndKinds
  <2>3. Stops(frame) /\ interrupted' = frame.who
    BY <1>2, <1>3, <2>2 DEF TakesUp
  <2> QED
    BY <1>1, <1>3, <2>1, <2>3 DEF IsUser
<1>4. CASE ~(configured /\ frame.kind = "user")
  BY <1>2, <1>4 DEF TakesUp
<1> QED
  BY <1>3, <1>4

LEMMA HostOrder == Control /\ HostInv /\ [Next]_vars => HostInv'
<1> SUFFICES ASSUME Control, HostInv, [Next]_vars PROVE HostInv'
  OBVIOUS
<1>0. queue \in Seq(Frames) /\ turn \in Nat /\ interrupted \in Nat
      /\ \A i \in 1..Len(queue) : queue[i].who \in Nat
  <2>1. \A frame \in Frames : frame.who \in Nat
    BY CompanionAssumption DEF Frames, Providers, None
  <2>2. queue \in Seq(Frames)
    BY DEF Control, TypeOK
  <2>3. turn \in Nat /\ interrupted \in Nat
    BY CompanionAssumption DEF Control, TypeOK
  <2> QED
    BY <2>1, <2>2, <2>3
<1>1. ASSUME HostStep PROVE HostInv'
  <2>1. PICK kind \in Kinds : SendsText(kind) \/ \E who \in 0..Turns : SendsOther(kind, who)
    BY <1>1, HostSends DEF Control
  <2>2. interrupted' = interrupted
    BY <1>1, Arrival DEF Control
  <2>3. CASE SendsText(kind)
    <3>1. queue' = Append(queue, Frame(kind, turn'))
      BY <2>3 DEF SendsText, Arrive
    <3>2. /\ IsText(Frame(kind, turn')) /\ ~IsUser(Frame(kind, turn'))
          /\ Frame(kind, turn').who = turn'
      BY <2>3 DEF SendsText, IsText, IsUser, Frame, TextKinds
    <3>3. /\ turn' \in Nat /\ turn <= turn' /\ interrupted < turn'
          /\ \A i \in 1..Len(queue) : IsUser(queue[i]) => queue[i].who < turn'
      <4>1. CASE turn' = turn /\ host \in {"open", "half"}
        BY <1>0, <4>1 DEF HostInv
      <4>2. CASE turn' = turn + 1
        BY <1>0, <4>2 DEF HostInv
      <4> QED
        BY <2>3, <4>1, <4>2 DEF SendsText
    <3>4. /\ Len(queue') = Len(queue) + 1
          /\ \A i \in 1..Len(queue') :
                queue'[i] = IF i <= Len(queue) THEN queue[i] ELSE Frame(kind, turn')
      BY <1>0, <3>1
    <3> QED
      BY <1>0, <2>2, <3>2, <3>3, <3>4 DEF HostInv, Newer
  <2>4. CASE \E who \in 0..Turns : SendsOther(kind, who)
    <3>1. PICK who \in 0..Turns : SendsOther(kind, who)
      BY <2>4
    <3>2. /\ queue' = Append(queue, Frame(kind, who)) /\ turn' = turn
          /\ host' \notin {"open", "half"}
      BY <3>1 DEF SendsOther, Arrive
    <3>3. ~IsText(Frame(kind, who)) /\ Frame(kind, who).who <= turn
      <4>1. who <= turn
        BY <1>0, <3>1 DEF SendsOther, None
      <4> QED
        BY <3>1, <4>1 DEF SendsOther, IsText, Frame
    <3>4. /\ Len(queue') = Len(queue) + 1
          /\ \A i \in 1..Len(queue') :
                queue'[i] = IF i <= Len(queue) THEN queue[i] ELSE Frame(kind, who)
      BY <1>0, <3>2
    <3>5. interrupted' <= turn' /\ \A i \in 1..Len(queue') :
             queue'[i].who <= turn' /\ (IsText(queue'[i]) => queue'[i].who > interrupted')
      BY <1>0, <2>2, <3>2, <3>3, <3>4 DEF HostInv, Newer
    <3>6. \A i, j \in 1..Len(queue') :
             i < j /\ IsUser(queue'[i]) /\ IsText(queue'[j]) => queue'[i].who < queue'[j].who
      BY <1>0, <3>3, <3>4 DEF HostInv
    <3> QED
      BY <3>2, <3>5, <3>6 DEF HostInv, Newer
  <2> QED
    BY <2>1, <2>3, <2>4
<1>2. ASSUME LoopTurn PROVE HostInv'
  <2>1. UNCHANGED <<host, turn>> /\ queue' = IF queue = <<>> THEN queue ELSE Tail(queue)
    BY <1>2 DEF LoopTurn
  <2>2. CASE queue = <<>>
    <3>1. interrupted' = interrupted /\ queue' = queue
      BY <1>2, <2>1, <2>2, UserPreempts
    <3> QED
      BY <2>1, <3>1 DEF HostInv, Newer
  <2>3. CASE queue # <<>>
    <3>1. /\ Len(queue') = Len(queue) - 1 /\ 1 \in 1..Len(queue) /\ Head(queue) = queue[1]
          /\ \A i \in 1..Len(queue') : i + 1 \in 1..Len(queue) /\ queue'[i] = queue[i + 1]
      BY <1>0, <2>1, <2>3
    <3>2. CASE interrupted' = interrupted
      BY <1>0, <2>1, <3>1, <3>2 DEF HostInv, Newer
    <3>3. CASE IsUser(queue[1]) /\ interrupted' = queue[1].who
      BY <1>0, <2>1, <3>1, <3>3 DEF HostInv, Newer
    <3> QED
      BY <1>2, <3>1, <3>2, <3>3, UserPreempts
  <2> QED
    BY <2>2, <2>3
<1>3. ASSUME Exits PROVE HostInv'
  <2>1. queue' = <<>> /\ UNCHANGED <<host, turn, interrupted>>
    BY <1>3 DEF Exits
  <2>2. Len(queue') = 0
    BY <2>1
  <2> QED
    BY <2>1, <2>2 DEF HostInv
<1>4. CASE UNCHANGED <<host, turn, queue, interrupted>>
  BY <1>4 DEF HostInv, Newer
<1>5. CASE StopStep \/ DrainStep \/ OpStep \/ ReceiverFails \/ \E p \in Providers : PlayerExits(p)
  BY <1>4, <1>5, OtherTasks
<1>6. CASE Waits \/ StopsSession \/ Preempted \/ RunCancelled \/ Over \/ UNCHANGED vars
  BY <1>4, <1>6 DEF Waits, StopsSession, Preempted, RunCancelled, Over, vars, mainVars
<1> QED
  BY <1>1, <1>2, <1>3, <1>5, <1>6 DEF Next, RunStep

LEMMA OldStep == Control /\ PlayerInv /\ HostInv /\ OldInv /\ [Next]_vars => OldInv'
<1> SUFFICES ASSUME Control, PlayerInv, HostInv, OldInv, [Next]_vars PROVE OldInv'
  OBVIOUS
<1> DEFINE New(frame) == IsText(frame) => frame.who > interrupted
<1>old. /\ New(held)
        /\ ~Stopping =>
              /\ \A i \in 1..Len(pending) : New(pending[i])
              /\ op.at \notin Idle => New(op.frame)
              /\ active # None => active > interrupted
        /\ \A i \in 1..Len(queue) : New(queue[i])
        /\ New(NoFrame)
  BY DEF OldInv, HostInv, Newer, IsText, NoFrame, Frame, TextKinds
<1>seq. pending \in Seq(Frames) /\ queue \in Seq(Frames)
  BY DEF Control, TypeOK
<1>goal. ASSUME interrupted' = interrupted, New(held'),
               Stopping' \/
                  /\ \A i \in 1..Len(pending') : New(pending'[i])
                  /\ op'.at \notin Idle => New(op'.frame)
                  /\ active' # None => active' > interrupted
        PROVE  OldInv'
  BY <1>goal DEF OldInv, Newer, Idle, OpDone
<1> HIDE DEF New
<1>1. CASE HostStep
  <2>1. UNCHANGED <<pc, held, pending, op, active, interrupted>>
    BY <1>1, Arrival DEF Control
  <2> QED
    BY <1>old, <1>goal, <2>1 DEF Stopping
<1>2. CASE StopStep \/ DrainStep \/ ReceiverFails \/ \E p \in Providers : PlayerExits(p)
  <2>1. UNCHANGED <<pc, held, pending, interrupted>>
    BY <1>2, OtherTasks
  <2>2. op' = op /\ active' \in {active, None}
    BY <1>2 DEF StopStep, StopBegins, StopSent, StopPlayerGone, StopOver, DrainStep,
           DrainPlayedOut, DrainFails, DrainOver, ReceiverFails, PlayerExits, sessionVars
  <2> QED
    BY <1>old, <1>goal, <2>1, <2>2 DEF Stopping
<1>3. CASE OpStep
  <2>1. UNCHANGED <<pc, held, pending, interrupted>>
    BY <1>3, OtherTasks
  <2>2. op'.frame = op.frame /\ op.at \notin Idle
    BY <1>3 DEF OpStep, OpText, OpOther, OpStopped, OpOpens, OpSends, Appends, OpEnds, Idle,
           OpDone, Control, OpRecord
  <2>3. CASE OpOpens
    <3>1. active' = op.frame.who /\ IsText(op.frame)
      BY <2>3 DEF OpOpens, IsText, Control, LinkInv
    <3>2. ~Stopping => New(op.frame)
      BY <1>old, <2>2
    <3>3. ~Stopping => active' > interrupted
      BY <3>1, <3>2 DEF New
    <3> QED
      BY <1>old, <1>goal, <2>1, <2>2, <3>2, <3>3 DEF Stopping
  <2>4. CASE ~OpOpens
    <3>1. active' = active
      BY <1>3, <2>4 DEF OpStep, OpText, OpOther, OpStopped, OpSends, sessionVars
    <3> QED
      BY <1>old, <1>goal, <2>1, <2>2, <3>1 DEF Stopping
  <2> QED
    BY <2>3, <2>4
<1>4. ASSUME NEW frame \in Frames \cup {NoFrame}, Stops(frame), Newer(frame)'
      PROVE  OldInv'
  BY <1>4 DEF Stops, OldInv, Stopping
<1>5. CASE LoopTurn
  <2>1. CASE interrupted' = interrupted
    <3>1. PICK frame \in Frames \cup {NoFrame} :
             /\ frame = IF queue = <<>> THEN NoFrame ELSE Head(queue)
             /\ Stops(NoFrame) \/ Stops(frame) \/ (~ErrorCollected /\ Dispatch(frame))
      BY <1>5, LoopFrames
    <3>2. New(frame)
      BY <1>old, <1>seq, <3>1
    <3>3. CASE Stops(NoFrame) \/ Stops(frame)
      <4>1. New(held') /\ Stopping'
        BY <1>old, <3>2, <3>3 DEF Stops, Stopping
      <4> QED
        BY <1>goal, <2>1, <4>1
    <3>4. CASE Dispatch(frame)
      <4>1. ~Stopping
        BY <1>5 DEF LoopTurn, Stopping
      <4>2. active' \in {active, None} /\ held' = held
        BY <3>4 DEF Dispatch
      <4>3. op' = Op(frame, "new") \/ op' = NoOp \/ op' = op
        BY <3>4 DEF Dispatch
      <4>4. op'.at \notin Idle => New(op'.frame)
        BY <1>old, <3>2, <4>1, <4>3 DEF Op, NoOp, Idle
      <4>5. pending' = pending \/ (pending' = Append(pending, frame) /\ frame \in Frames)
        <5>1. frame = NoFrame => pending' = pending
          BY <3>4 DEF Dispatch, NoFrame, Frame, ObserveKinds, TextKinds
        <5> QED
          BY <3>4, <5>1 DEF Dispatch
      <4>6. \A i \in 1..Len(pending') : New(pending'[i])
        <5>1. CASE pending' = pending
          BY <1>old, <4>1, <5>1
        <5>2. CASE pending' = Append(pending, frame) /\ frame \in Frames
          <6>1. Len(pending') = Len(pending) + 1
            BY <1>seq, <5>2
          <6>2. \A i \in 1..Len(pending') :
                   pending'[i] = IF i <= Len(pending) THEN pending[i] ELSE frame
            BY <1>seq, <5>2
          <6> QED
            BY <1>old, <1>seq, <3>2, <4>1, <6>1, <6>2
        <5> QED
          BY <4>5, <5>1, <5>2
      <4> QED
        BY <1>old, <1>goal, <2>1, <4>1, <4>2, <4>4, <4>6
    <3> QED
      BY <3>1, <3>3, <3>4
  <2>2. CASE /\ queue # <<>> /\ IsUser(Head(queue)) /\ Stops(Head(queue))
    <3>1. held' = Head(queue) /\ Stopping' /\ ~IsText(Head(queue))
      BY <2>2 DEF Stops, Stopping, IsUser, IsText, TextKinds
    <3> QED
      BY <3>1 DEF OldInv, Newer
  <2> QED
    BY <1>5, <2>1, <2>2, UserPreempts
<1>6. CASE RunCancelled
  <2>1. held' = NoFrame /\ Stopping' /\ interrupted' = interrupted
    BY <1>6 DEF RunCancelled, Stops, Stopping
  <2> QED
    BY <1>old, <1>goal, <2>1
<1>7. CASE Waits
  <2>1. /\ UNCHANGED <<held, active, interrupted>> /\ ~Stopping
        /\ \/ op' = op /\ pending' = pending
           \/ pending # <<>> /\ op' = Op(Head(pending), "new") /\ pending' = Tail(pending)
    <3>1. UNCHANGED <<held, active, interrupted>> /\ ~Stopping
      BY <1>7 DEF Waits, Stopping, sessionVars
    <3>2. \/ op' = op /\ pending' = pending
          \/ pending # <<>> /\ op' = Op(Head(pending), "new") /\ pending' = Tail(pending)
      BY <1>7 DEF Waits
    <3> QED
      BY <3>1, <3>2
  <2>2. CASE op' = op /\ pending' = pending
    BY <1>old, <1>goal, <2>1, <2>2
  <2>3. CASE pending # <<>> /\ op' = Op(Head(pending), "new") /\ pending' = Tail(pending)
    <3>1. /\ Len(pending') = Len(pending) - 1 /\ 1 \in 1..Len(pending)
          /\ Head(pending) = pending[1]
          /\ \A i \in 1..Len(pending') : i + 1 \in 1..Len(pending) /\ pending'[i] = pending[i + 1]
      BY <1>seq, <2>3
    <3>2. op'.frame = pending[1]
      BY <2>3, <3>1 DEF Op
    <3> QED
      BY <1>old, <1>goal, <2>1, <3>1, <3>2
  <2> QED
    BY <2>1, <2>2, <2>3
<1>8. CASE StopsSession
  BY <1>old, <1>goal, <1>8 DEF StopsSession, Stopping
<1>9. CASE Preempted \/ Exits
  <2>1. /\ active = None /\ active' = active /\ interrupted' = interrupted
        /\ held' = NoFrame /\ pending' = <<>>
        /\ op' = NoOp \/ op' = Op(held, "new")
    BY <1>9 DEF Preempted, Exits, PlayerInv, sessionVars
  <2>2. \A i \in 1..Len(pending') : New(pending'[i])
    BY <2>1
  <2>3. op'.at \notin Idle => New(op'.frame)
    BY <1>old, <2>1 DEF Op, NoOp, Idle
  <2> QED
    BY <1>old, <1>goal, <2>1, <2>2, <2>3
<1>10. CASE Over \/ UNCHANGED vars
  <2>1. UNCHANGED <<pc, held, pending, op, active, interrupted>>
    BY <1>10 DEF Over, vars, mainVars, sessionVars
  <2> QED
    BY <1>old, <1>goal, <2>1 DEF Stopping
<1> QED
  BY <1>1, <1>2, <1>3, <1>5, <1>6, <1>7, <1>8, <1>9, <1>10 DEF Next, RunStep

-----------------------------------------------------------------------------
(* The theorems. *)

CompanionInv == Control /\ PlayerInv /\ HostInv /\ OldInv

LEMMA InitInv == Init => CompanionInv
<1> SUFFICES ASSUME Init PROVE CompanionInv
  OBVIOUS
<1>1. TypeOK
  <2>1. Len(queue) + Len(pending) <= MaxBacklog
    BY CompanionAssumption DEF Init
  <2>2. turn \in 0..Turns /\ assembling \in 0..Turns /\ active \in 0..Turns
        /\ interrupted \in 0..Turns
    BY CompanionAssumption DEF Init, None
  <2>3. stop = "none" /\ op.at = "none" /\ op.frame = NoFrame /\ pc = "loop"
    BY DEF Init, NoOp, Op
  <2>4. queue \in Seq(Frames) /\ pending \in Seq(Frames)
    BY DEF Init
  <2>5. /\ host = "new" /\ pc = "loop" /\ held = NoFrame /\ configured = FALSE
        /\ closed = FALSE /\ broken = FALSE /\ drain = "none"
        /\ player \in [Providers -> {"none", "playing", "stopping", "dropped",
                                 "gone"}]
    BY DEF Init
  <2> QED
    BY <2>1, <2>2, <2>3, <2>4, <2>5 DEF TypeOK
<1>2. OpRecord /\ LinkInv
  BY DEF Init, OpRecord, LinkInv, NoOp, Op, NoFrame, Frame, Places, Idle
<1>3. PlayerInv
  BY DEF Init, PlayerInv, NoOp, Op
<1>4. HostInv /\ OldInv
  <2>1. Len(queue) = 0 /\ Len(pending) = 0 /\ interrupted = 0 /\ turn = 0
    BY DEF Init, None
  <2>2. host = "new" /\ ~IsText(held) /\ op.at \in Idle /\ active = None
    BY DEF Init, IsText, NoOp, Op, NoFrame, Frame, Idle, TextKinds
  <2> QED
    BY <2>1, <2>2 DEF HostInv, OldInv, Newer
<1> QED
  BY <1>1, <1>2, <1>3, <1>4 DEF CompanionInv, Control

\* The invariant holds whatever host, server and players do.
THEOREM Invariance == Spec => []CompanionInv
<1>1. CompanionInv /\ [Next]_vars => CompanionInv'
  BY ControlStep, PlayerStep, HostOrder, OldStep DEF CompanionInv
<1> QED
  BY InitInv, <1>1, PTL DEF Spec

\* Every variable keeps its type: in particular run(), the operation and the stop
\* they share stand where they can stand together, and the backlog is bounded.
THEOREM TypeCorrect == Spec => []TypeOK
<1>1. CompanionInv => TypeOK
  BY DEF CompanionInv, Control
<1> QED
  BY Invariance, <1>1, PTL

\* However many turns the host starts, two of them are never heard at once, not
\* even while the first is ending: who is heard is the manager's active session.
THEOREM OnePlayerHolds == Spec => []OnePlayer
<1>1. ASSUME CompanionInv PROVE OnePlayer
  <2> DEFINE heard == {p \in Providers : player[p] \in {"playing", "stopping"}}
  <2>1. heard = {} \/ heard = {active}
    BY <1>1 DEF CompanionInv, PlayerInv
  <2>2. Cardinality({}) = 0 /\ Cardinality({active}) = 1
    BY FS_EmptySet, FS_Singleton
  <2>3. Cardinality(heard) <= 1
    BY <2>1, <2>2
  <2> QED
    BY <2>3 DEF OnePlayer
<1> QED
  BY Invariance, <1>1, PTL

\* After a user message was taken up and what it interrupts was stopped, nothing
\* of an earlier turn is heard, and nothing at all after the end of run().
THEOREM NothingOldSpokenHolds == Spec => []NothingOldSpoken
<1>1. ASSUME CompanionInv PROVE NothingOldSpoken
  <2> SUFFICES ASSUME NEW p \in Providers, player[p] = "playing",
                      pc \notin {"stopOp", "stopSession"}
               PROVE  p > interrupted /\ pc # "over"
    BY CompanionAssumption, <1>1 DEF NothingOldSpoken, Providers, CompanionInv, Control, TypeOK
  <2>1. p = active /\ active # None /\ pc # "over"
    BY <1>1, CompanionAssumption DEF CompanionInv, PlayerInv, Providers, None
  <2>2. active > interrupted
    BY <1>1, <2>1 DEF CompanionInv, OldInv, Stopping
  <2> QED
    BY <2>1, <2>2
<1> QED
  BY Invariance, <1>1, PTL
=============================================================================
