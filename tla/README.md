# A verification project for botified-tts

`botified-tts` is a single-process speech server (Python, asyncio): HTTP and
WebSocket front ends, a store of cloned voices, and one GPU engine behind a
small admission limit. This directory holds TLA+ models of its control logic,
TLC runs on small instances of them, and TLAPS proofs of the results that matter
most. File names below are relative to `src/src/botified_tts/` unless they start
with another directory.

## 1. Inventory

| Component | State it keeps | Operations | Talks to |
|---|---|---|---|
| Admission (`app.py` `_Admission`) | one counter, `_active` | `try_acquire`, `release` | every session and every `POST /v1/speech` |
| Streaming session (`streaming.py`) | handshake and text state, segment queue, two events, two tasks, `acquired` | `run`, `_receive_loop`, `_generate_and_send`, `_coordinate`, `_stop_task`, the `finally` of `run` | client, segmenter, speech service, admission |
| Sentence segmenter (`segmenter.py`) | text buffer, "deadline has expired" flag | `append`, `expire_deadline`, `flush`, `finish` | called by the session |
| HTTP speech (`app.py` `synthesize`, `audio.py`) | request directory, PCM file, encoder thread, output file | read body, synthesize, encode, hand over, clean up | admission, speech service, thread pool |
| Speech service (`speech.py`) | none of its own; the anchor of a stream | resolve the voice, speak the segments one by one | voice store, engine |
| Voice store (`voices.py`) | voice directories, latent cache, lock | `create`, `list`, `get`, `get_snapshot`, `delete`, cache access, recovery at start | HTTP handlers (worker threads), speech service (event loop) |
| Engine adapter (`engine.py`) | pool, closed flag, fatal future | `create`, `generate`, `encode`, `wait_for_fatal`, `close` | the GPU server pool (external) |
| Process runtime (`runtime.py`) | readiness, signals, HTTP task, fatal task | `serve`, `request_exit`, `_shutdown_tasks`, `_close_engine` | uvicorn, engine |
| Preview companion (`src/companions/botified/.../cli.py`) | frame queue, pending observations, active TTS session, player process | frame loop, `_TtsManager`, `_TtsSession` | the server's WebSocket, `aplay`, a host process |
| Schemas, configuration (`schemas.py`, `config.py`) | none | validation | everyone |
| Skill helper (`src/skills/tts/scripts/botified-tts`) | none | one HTTP request | the server |

Hard behaviours, and what makes each component correct:

* **Streaming session.** Three coroutines (`run`, the receive task, the generate
  task) interleave at every `await`; a client, an engine and four timers (first
  message and idle 60 s, segment 0.8 s, send 5 s, cleanup 1 s) act in between.
  Correct means: the slot is returned exactly once on every exit, also when the
  engine never answers; what is spoken is the text in order without gap or
  repetition; `done` is only said when everything was spoken; nothing follows the
  terminal frame; no error is reported for a generation that ended well.
* **Admission.** A single number that two kinds of clients raise and lower: it
  has to equal the number of clients inside, always.
* **HTTP speech.** A directory that changes owner in the middle of a handler, an
  encoder thread that a cancellation does not stop, a removal in two halves.
  Correct means: the slot comes back once, a response is sent from a complete
  file, directories do not pile up.
* **Segmenter.** Text arrives in arbitrary pieces, a deadline may fall between
  any two. Correct means: no segment above the hard limit, no official tag and no
  decimal number torn apart, nothing waits without a reason.
* **Voice store.** Threads, an event loop and crashes. Correct means: a voice
  name never shows half a voice, a deleted voice never returns, the cache does
  not keep what was deleted, a listing never meets a voice that vanishes.
* **Speech service and engine adapter.** Two asynchronous generators, one inside
  the other, over a stream of the GPU pool that may send anything; a consumer that
  stops in the middle, is cancelled, or meets the closing of the engine. Correct
  means: every segment is conditioned on the one anchor of its request, a stream
  is closed before anything else happens, a text cut short is never an orderly
  end, and the client is blamed only while nothing was heard.
* **Runtime.** Signals, a fatal engine error, the end of HTTP and a cancellation
  of `serve()` race for the same shutdown. Correct means: readiness is revoked
  and stays so; a GPU pool that was started is told to stop on every path, and not
  under a server that was not told to stop; a fatal error decides how the process
  ends; every wait is bounded.
* **Companion.** User messages pre-empt an operation in flight, while later
  frames and the end of a running playback arrive.

`PROJECT.json` lists every hazard at its line, with the properties that cover it.

## 2. The models and how they correspond to the code

Everything that runs on the event loop is cooperative, so **an action is the
code between two `await`s**; a thread's action ends where another thread can
see the difference. `task.cancel()` moves the task at once to where it unwinds
to, because nothing of its body can run in between. A timeout is an action that
may happen whenever its wait is open. History variables are marked as such.

How the modules fit together:

```
Admission      <== StreamSession, HttpSpeech side by side in Service
Utterance      <== Speech          (the engine steps of the two above are steps
                                    that Utterance allows)
VoiceRegistry  <== VoiceStore
Segmenter, Runtime, Companion      stand alone
```

(`A <== B`: B implements the abstract specification A.)

* `Admission` - the abstract specification of the counter: a set of holders, never
  more than `Limit`, and `active`, which is how many they are.
* `StreamSession` - sessions around one counter. `run[s]` is where `run()` is
  suspended; `recv[s]` is the receive task, or how it ended; `gen[s]` and
  `genOut[s]` are the generate task and its result; `req[s]` is the engine
  stream. Text is counted in units: an append adds some, and a cut gives out
  an interval, so "in order, without gap" can be stated. Which cuts the real
  segmenter makes is the business of `Segmenter`; here a cut is any interval, and
  `TextIsKeptAlways` (section 4) says that the segmenter's cuts are intervals.
  Handshake: `EndBeforeStart`, `StartBusy`, `StartAdmitted`, `SendReady`,
  `ReadyFails`. Receive loop: `Append_`, `SegmentDeadline`, `Flush`, `Finish`,
  `Cancel`, `IdleTimeout`, `BadMessage`, `RecvDisconnect`. Generate task: from
  `Prepare` to `CloseFails`. Coordination and `finally`: from `CoordGenFailed`
  to `CloseSocket`.
  `MCStreamSession` is its instance for TLC: one session with all it can do,
  next to guests that only ask for the slot and give it back.
* `HttpSpeech` - `POST /v1/speech` handlers around the same counter, each with
  its directory (`dir`), output file, engine stream and encoder thread. The two
  halves of `rmtree()` are two steps (`Unlink`, `Rmdir`), since the encoder
  thread can create its file between them. Everything between two awaits that can
  raise is an action of its own: writing or closing the PCM file (`WriteFails`,
  `PcmFails`), removing it and making the response (`HandOverFails`), and a disk
  that refuses the removal of the directory (`dir = "stuck"`), whose error the code
  ignores.
* `Service` - `StreamSession` and `HttpSpeech` side by side on one `active`;
  `MCService` adds the symmetry of clients of one kind.
* `Utterance` - what `SpeechService.synthesize()` promises to the session or
  handler that iterates over it: each segment is heard and completed before the
  next, an orderly end comes only after as many segments as the text has, the
  client is blamed only before the first, nothing comes after the end.
* `Speech` - one call of `synthesize()` over `VoxCPMEngine.generate()` and
  `encode()`, as one state machine, since the inner generator only runs while the
  outer one awaits it. `pc` is the await or yield of `synthesize()`; `asked` keeps
  the arguments of every call of the pool, where latents and texts are named by
  the segment (or the profile) they come from; `length` is how many segments the
  text has. `Accepted` is the rule of
  `schemas.py` for voices, modes and styles. The pool is external: `Waveform`,
  `Completion`, `BadItem`, `RawEnds` in any order, and a stream may fail to close
  (`CloseFails`). The consumer may stop (`Close`), be cancelled at any await, and
  `EngineClose` may come at any time.
* `Segmenter` - `append`, `expire_deadline` and `flush` (`finish` is `flush`)
  with every cut rule of the code: protected ranges of tags and decimals, strong
  and soft endings, the deadline cut and the hard cut. The alphabet has one
  character per class the code tells apart. The official tags and the four limits
  are parameters: a tag is letters between one pair of brackets, shorter than the
  hard limit, and the limits keep their order. `before` and `openPoint` are history:
  what a tag or a number that was committed earlier may still need.
  `MCSegmenter` gives TLC two tags, one of which begins like the other.
* `VoiceRegistry` - the abstract specification of the store: a voice is listed,
  then removed, and never returns; crashes change nothing.
* `VoiceStore` - directories with their files, the lock, `create` in its file
  steps, `delete` in its three (rename, drop from the cache, remove), `list`,
  removals that fail half way (`Abandon`; `unremoved` is history: the directories
  this run of the server could not remove),
  requests that take a snapshot, look into the cache and encode without the lock,
  crash, and recovery at start.
* `Runtime` - `serve()` with `VoxCPMEngine.create()` and `close()`, and what it
  awaits: `main` is the await it is suspended at, `task` are the three tasks it
  owns (HTTP, the waiter for a fatal error, `engine.close()`), `asked` counts how
  often each was cancelled, since `_cancel_and_reap` cancels twice before it gives
  up and a cancelled `_close_engine()` has cancelled its task once before that, and
  `pool` is the pool of GPU processes. Start: `PoolStarts`, `Loads` (three
  awaits), `LoadFails`, `PoolStopped`, `EngineCreated`, `ConstructionFails`,
  `CreateFails`. Serving and its end: `Signal`, `Wake`, `Drained`,
  `DrainTimeout`. Stopping: `Reaped`, `ReapTimeout`, `Yielded`. Closing: from
  `CloseOver` to `CloseYielded`; `CloseBegins` is the first step of the close
  task, which tells the pool to stop. A cancellation of `serve()` is an action per
  group of awaits, from `CancelLoad` to `CancelCloseReap`. A task may end in the
  turn another one ended in, and a cancelled task may ignore that.
* `Companion` - the frame loop of the preview companion. `pc` is where `run()` is:
  in a turn of its loop (no other task runs then), waiting, or stopping the
  operation and then the session before it pre-empts with `held` or ends. `op` is
  the operation task with its frame, `stop` the one `_TtsManager.cancel()` in
  progress (run by the operation or by `run()`, never by both), `active`, `closed`,
  `broken` and `drain` the session, `player` the player processes: `stopping` is one
  that was terminated and is waited for, `dropped` one whose wait was cancelled, so
  that nobody kills it if it does not end. The host is
  external and orderly: whole observations or two parts of one, each turn cut off
  only by a user message, an error or the next turn. `interrupted` is history.

External parts (the client, the engine pool, the thread pool's encoder) appear
only as what they may do to this code.

## 3. Runs

| Run | Shows | Bounds, and why they suffice |
|---|---|---|
| `session` | order and completeness of what is spoken, nothing after the terminal frame, no false `engine_error`, timers, the slot; and that a session ends | one full session and a guest, one slot: sessions only meet at the counter, and the guest finds it taken, takes it, or gives it back at any time. Three text units give two cuts in one append plus pending text; one chunk per segment, because `speech` has the chunks |
| `session_overload` | **violated**, see findings | two full sessions, one slot |
| `speech` | conditioning of every engine call, streams closed, the promises of `Utterance` | every voice, mode and style; three segments (first, second with the anchor, third that must not move it) of up to two chunks |
| `segmenter` | tags whole, deadlines honoured, hard limit, decimals and endings | a letter, a digit, a point, an ending that always counts, a space and the tag brackets; two tags; chunks of up to two; limits 2, 3, 4, 5 in the code's order: a tag arrives in every partition, before and after a deadline, next to a number or a limit |
| `segmenter_newline` | **violated**, see findings | |
| `voices` | the five invariants of the store, refinement of `VoiceRegistry` | two voices, two deleters of the same or different voices, one lister, two requests that may encode the same latents, any number of crashes |
| `http` | slots, streams, files and directories; a handler returns its slot | two requests and one slot, two segments: one is speaking while another has been written |
| `http_orphan` | **violated**, see findings | one request |
| `service_slots` | sessions and requests together implement `Admission`, counter included | one session and two requests, one slot: both kinds compete, and one waits for the other of its own kind; text and audio are irrelevant to slots and kept minimal; clients of one kind are symmetric |
| `companion` | one player at a time, the ending ones included, nothing old after a user message, a user message silences what was spoken even if the server hangs | two turns, three frames of backlog: a user message, a cut-off observation and its replacement |
| `companion_replaced` | **violated**, see findings | as above |
| `runtime` | readiness, the pool told to stop on every path, the engine closed after HTTP, which error decides, bounded shutdown | two outside cancellations: the second meets the clean-up of the first; any number of signals |

### Fairness

Safety runs need none. For liveness the only assumptions are: the event loop
runs every ready coroutine and fires every timer (weak fairness of the server's
own steps), and the encoder ends because `ffmpeg` and file writers run with a
timeout. **Clients owe nothing**: no message, no disconnect. **The engine owes
nothing** where a promise is meant to survive its silence: in `SessionEnds` a
session whose receive task is over (cancel, idle timeout, protocol error,
disconnect) ends with the engine hanging, and in `HandlerReturnsSlot` so does a
handler after a failed write. The other conjuncts, `finish` and a synthesis in
progress, name engine progress (`EngineWorks`) as their premise. In `Runtime` only
the steps of `serve()` itself are fair: HTTP need not drain, the pool need not
load or stop, and a cancelled task need not end. `ServeEnds` needs nothing more
after a fatal error; after a signal it names as its premise that uvicorn ends once
it was asked to (`UvicornStops`), because a signal alone starts no timer in this
code. In `Companion`, `run()` and the stop of a session are fair and a player that
is waited for after its termination ends (it is killed after 2 s); the message
`cancel` ends in time because the WebSocket library closes a dead connection.
Opening and feeding a session are not fair. That an idle session ends is
deliberately not claimed: every valid message renews the idle deadline, so a
client that keeps sending `flush` keeps its session. `Speech` has no liveness of
its own: the pool may always hang, and its callers bound their waits.

### Findings

* `session_overload`: `_stop_task` gives up after one second and `run()` returns
  the slot, while the engine may still be closing the stream; the next session
  then raises the engine's load above the documented limit.
* `segmenter_newline`: the pattern `\d+\.$` also matches before a final newline,
  so the point of `12.\n` stays undecided although the next character is known.
* `http_orphan`: after a cancellation the encoder thread goes on; if it creates
  its file between the two halves of `rmtree()`, the directory stays.
* `companion_replaced`: the operation of a user message belongs to no provider, so
  while it runs the text of a new turn does not pre-empt. If the first part of an
  observation and the text of the turn that replaces it arrive in that time, both
  become pending, the assembler raises `interleaved observe text chunks`, and the
  companion exits. The stop of the interrupted player, up to 2 s, is what makes
  the two frames queue up.

Not a finding: `docs/engineering/botified-tts-product-development-plan.md:774-786`
describes a rolling continuation with the style only in the first segment. That
plan is superseded by the table in section 4 of
`botified-tts-long-form-voice-stability-improvement-plan.md:85-115`, which the
code follows and `Conditioning` states.

## 4. Proofs

Every theorem holds for all values of the constants: any finite sets of sessions,
requests, voices and threads, any limit, any length of text, any set of tags, any
number of turns and of cancellations. Every safety property that a run checks is
one of them. `TypeCorrect` is proved in each module below except `ServiceProofs`,
which needs no types of its own, and `SegmenterProofs`, whose invariant holds them.
Where a
component has many alike actors, the invariant is stated for one of them, and two
kinds of steps are told apart: its own, and those of another actor, which leave
its part of the state as it is.

* `StreamSessionProofs`: `SlotAccountingHolds`, `LiveRequestHoldsSlotHolds`,
  `TerminalIsLastHolds`, `SessionsRefineAdmission`. `SlotAccounting` is not
  inductive by itself: that a release is only reached by a session that acquired
  needs `SlotInv`, which ties `holds[s]` to where `run[s]` stands, and the
  cardinality of the holders is followed with the library's facts on adding and
  removing an element. That nothing follows the terminal frame needs `GenByPhase`:
  what the generate task can still be doing in each phase of `run()`.
* The second half of the same module, on text: `SpokenInOrderHolds`,
  `DoneMeansAllSpokenHolds`, `EngineErrorIsRealHolds`,
  `PendingTextIsTimedHolds`. `TextInv` says that what was
  heard, the segment in the engine and the queued segments form one chain of
  intervals from the start of the text up to what has been cut; every step of the
  receive loop extends it at the end and every step of the generate task moves its
  front. `EndInv` says where the end marker can be and what a generation that
  ended well has left behind (nothing, if the session was not stopped). `Timed`
  relates pending text, the deadline and the remembered expiry.
* `SegmenterProofs`: `WithinHardLimitHolds`, `EndingsCommittedHolds`,
  `ExpiredMeansStuckHolds`, `OfficialTagsWholeHolds`, `DecimalPointKeptHolds`,
  and `TextIsKeptAlways`: segments and remainder are the text that was given. The
  module first says what each operator returns for every text, then what a call
  does, then what holds between calls:
  - The scans are recursive functions over the text. Where a proof on paper would
    go by induction, these argue from a place where the claim fails first (or
    last), which exists by `WFMin` (`LeastNatural`, `GreatestNatural`). That the
    recursive functions exist at all is the lemma `Recursion`.
  - `RegularCutIs` and `DeadlineCutIs` say what a cut is: within the hard limit,
    never inside a tag, and outside of every protected range unless it is the last
    resort at the hard limit, which then cuts as late as tags allow (`Fits`).
    `SomeCutSparesTags` is why that always finds a place: a tag is shorter than
    the limit. `NumberFound` is the delicate one: a decimal that no other number
    runs into is among those that the leftmost-first scan meets.
  - A call divides a text at places that fit (`Divided`, `Returned`).
  - `Kept` is the invariant. `Waiting` and `Sized` say what is in the buffer and
    in the segments; they are inductive only with `Ends` for the text *behind* a
    deadline's cut. `TagsKept` is `OfficialTagsWhole` also at the first and the
    last place of a call, and excludes the start of a tag there: without that, the
    next chunk could complete a tag across the cut. `PointsKept` adds to
    `DecimalPointKept` that a character follows the point: with an empty buffer
    the next chunk could begin with a digit.
* `SpeechProofs`: `StreamsClosedHolds`, `ConditioningHolds` and
  `SpeechRefinesUtterance`. `StreamInv` relates the pool's stream, the completion
  and what unwinds to `pc`, and says that outside a segment all that was asked for
  was heard and completed; `VoiceInv` and `AnchorInv` say what reference and prompt
  are before the next call, as a function of the options and the number of calls;
  `CallsInv` that each call made so far is the one of the table.
* `RuntimeProofs`: `ReadyMeansServingHolds`, `PoolIsStoppedHolds`,
  `HttpStopsFirstHolds`, `FatalDecidesOutcomeHolds`. `LifeInv` says which tasks exist
  at each await, `AskedInv` how often each has been cancelled there; `PoolInv`,
  `HttpInv` and `FatalInv` build on them.
* `HttpSpeechProofs`: `LiveStreamHoldsSlotHolds`, `ResponseFileWholeHolds`,
  `DirectoryReclaimedHolds`. Per request, `StreamInv` relates the engine stream and
  `FileInv` directory, output and encoder thread to where the handler stands.
* `ServiceProofs`: `ServiceRefinesAdmission`: every step of a session or a request
  takes a slot, gives one back, or keeps both the holders and the counter.
* `VoiceStoreProofs`: `VisibleVoiceCompleteHolds`, `CacheOnlyLiveHolds`,
  `ListedVoicesReadableHolds`, `WorkDirsAccountedHolds`, `StoreRefinesRegistry`. The
  inductive invariant relates the lock holder to what the thread has already done
  (renamed, dropped from the cache, removed), because the properties about cache
  and listing only hold between lock acquisitions. `WorkInv` says who answers for a
  work directory: a `create()`, a `delete()` or a removal that failed.
* `CompanionProofs`: `OnePlayerHolds`, `NothingOldSpokenHolds`. `LinkInv` says how
  `run()`, the operation and the stop they share can stand together; `PlayerInv`
  that only the active session is heard, and only until it is stopped, that a
  player told to stop is the active session's and waited for, and that there is no
  session when a new one opens. Nothing old is spoken because of `OldInv`:
  outside a pre-emption, the held frame, the pending observations, the operation
  and the active session all belong to turns that no user message has
  interrupted. That the frames still queued will do so too is `HostInv`, which
  follows the order in which the host sends.

The assumptions are the named ones on the constants: finite sets, positive bounds,
sessions and requests disjoint, and of the segmenter the order of its limits and
the shape of a tag.

Only model-checked: all liveness (`SessionEnds`, `HandlerReturnsSlot`, `ServeEnds`,
`InterruptStops`), which is out of the prover's reach.

## 5. What is not modelled, and why

* Configuration, field validation in `schemas.py` other than the combinations of
  voice, mode and style, argument parsing and the skill helper: sequential, without
  shared state. Which messages are valid is an input choice of `BadMessage` and
  `EndBeforeStart`.
* Sample conversion in `audio.py`: arithmetic on arrays; only success and
  failure of a file's encoding are modelled.
* The cancellation of `run()` from outside during process shutdown.
* The generic `except Exception` around `_coordinate()` (streaming.py:180-185), which
  reports an unforeseen exception of the receive task as `engine_error`;
  `EngineErrorIsReal` speaks of the ends that are modelled.
* What is still in a request's directory after the disk refused to remove it.
* An append that gives out more than two segments (two already show every order).
* Encoding of a reference voice is not counted as engine load.
* In `Speech`: the counters of `SynthesisSummary`, which are log output, and the
  maximal length of a generation, an argument nothing else depends on.
* In the runtime: what `asyncio.run` does to left-over tasks after `serve()`, and
  signals outside the time their handlers are installed (the default action ends
  the process).
* In the companion: a cancellation of `run()` while it is already stopping, the
  cancellation of a player process while it is being created, the parsing of lines
  and arguments, several observations that the host itself interleaves.

## 6. Plan

Done: all modules of section 2, the refinements of `Admission` by the whole service,
of `Utterance` by `Speech` and of `VoiceRegistry` by `VoiceStore`, and the proof of
every safety property that a run checks. Left:

1. `StreamSession` with a segmenter that cuts where `Segmenter` does, as a
   refinement that maps intervals to texts: `TextIsKeptAlways` is its core.
2. `run()` of a session under cancellation from outside, together with the part of
   uvicorn's shutdown that causes it, as a composition with `Runtime`.
3. Two full sessions in one run, once their state spaces are reduced: so far two
   sessions are covered by the proofs and by a guest.
