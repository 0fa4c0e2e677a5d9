# Edu-Voice-Ai: a TLA+ verification project

This directory specifies, model-checks and proves properties of the Edu-Voice-Ai
telephone platform. Everything is translated from the Python code under `src/`;
paths below are relative to the repository.

## 1. The system

A telephony provider (Exotel) opens a WebSocket per call to the **backend
gateway** (`src/backend/app/services/telephony/`). The gateway resolves the
dialled number to an organisation and agent, opens a second WebSocket to the
**voice engine** (`src/voice-engine/app/`), forwards the caller's audio and plays
the audio the engine answers with. In the engine each call is one
`SpeechToSpeechPipeline`: voice activity detection, speech-to-text, query router,
LLM, text-to-speech, and a writer that sends events back. When the caller asks for
a person the engine asks the gateway for a handoff; the gateway resolves a target
with the backend's HTTP API, transfers the call at the provider and reports the
outcome.

### Components, their state and their operations

| Component | State | Operations | Hard parts |
|---|---|---|---|
| Speech-to-speech pipeline (`voice-engine/app/pipeline/engine.py`, `queues.py`, `session/state.py`) | current turn and its state, cancellation tokens, cancelled generations, playback owner and deadline, four queues, LLM task, handoff state | start, VAD/STT/LLM/TTS workers, barge-in, greeting, stop, handoff commands | about ten coroutines share one session object; every `await` lets another change the turn; late results; flushes out of order with producers |
| Turn manager (`pipeline/turn_manager.py`, `audio/features.py`, `vad/`) | leaky bucket, candidate's frames, onset and silence counters, ring buffer, utterance audio | `handle_speech_frame`, `trigger_barge_in`, recording | evidence that outlives what it was collected over; onset, interruption and end each stitch audio together |
| Voice session endpoint (`api/websocket.py`, `session/manager.py`) | sessions by id, workers of each engine | accept, session.start/stop, audio, stop, close, expiry | all clients of a call name one id; an earlier handler may still be stopping, or wait for room in a dead worker's queue |
| Streaming recognizer (`stt/sarvam.py`) | audio queue, sender, receiver, partial and final transcript, health, current turn id | push, reset, finalize, batch request, close | reset of a late answer against the next utterance; lost connections; timeouts |
| Speech synthesis (`tts/sarvam.py`, `tts/cache.py`) | segment queue, tasks, audio queue, cache | segment, feed, synthesize, order, generate | concurrent requests, bounded queues with end marks, cancellation at any await |
| Structured input (`pipeline/structured_input.py`) | digits collected over several turns | add segment, finalise, reset | a number split over turns |
| Circuit breaker (`core/circuit_breaker.py`) | state, failure count, last failure time | call, record success or failure | nothing in the repository uses it |
| LLM and conversation logic (`llm/`, `conversation/`) | none that outlives a request | generation, routing of a transcript | string rules, latency |
| Gateway stream (`gateway.py`, `realtime_session.py`) | connection state, bounded outbound queue, cancelled generations, interruption and cancellation events | inbound, outbound and heartbeat loops, teardown | four tasks per call, any of which may end the others; audio paced out while it is taken back |
| Session manager and call setup (`session_manager.py`, `gateway.py`, `limiter.py`) | table of sessions, recent connections | resolve, connect, register, start event, prune, shutdown | checks and registrations are apart; sessions leave the table while streams wait |
| Human handoff (`gateway.py: on_human_handoff`, `voice_engine_client.py`, `clients/`) | handoff state, handoff record | ack, resolve, reports, transfer, fallback, cancel | eight awaits in a row during which the caller may hang up |
| Voice engine client (`voice_engine_client.py`) | connection, cancelled generations, `_handoff_triggered` | receive loop, event dispatch, commands | handlers are awaited inline |
| Phone assignment (`routing/`, `gateway.py`) | none (each call asks the backend) | resolve | fail closed on every answer but one |
| Webhooks and call lifecycle (`security/verifier.py`, `lifecycle/`, `backend/app/api/v1/telephony.py`) | none that outlives a request | verify, status callbacks | the state a service keeps is made anew for every request |
| Backend API and database (`backend/app/api/v1/`, `models/`) | rows of all tenants | request handlers | checks and commits of two requests in between each other |
| Frontend, scripts, tests, infrastructure | none | none | none |

### How they interact

Inside the engine: the VAD worker calls the turn manager and starts an STT task
per utterance; an STT task ends in a direct answer put on `tts_in_queue`, in an
item on `llm_in_queue`, in a handoff request, or in nothing; the LLM worker
spawns one task at a time, which streams text to `tts_in_queue`; the TTS worker
takes a generation at a time, makes it the playback owner and puts audio on
`event_out_queue`; the writer sends the events and, on control events, changes the
session's playback flags. `start_new_turn`, `invalidate_active_generation` and
`flush_output_queues` are called from several of these.

Between engine and gateway: the engine's events (audio, response end, cancelled,
flush, handoff requested) go one way; audio frames, handoff acknowledged, fallback
or cancelled and session end go the other.

### What makes each component correct

* **Pipeline**: what a caller interrupted is neither played nor queued any more; a caller
  can always interrupt; the turn that hears the caller is live; a response whose transcript,
  router answer or text arrives late does not get the floor; a cancelled response leaves the
  stages it occupies; bounded queues.
* **Turn manager**: noise does not interrupt, speech does; an utterance is recorded whole
  as long as the turn is the caller's, once, and ended after a silence.
* **Recognizer and synthesis**: every utterance is answered; the reset that ends a late
  answer takes none of the audio pushed before it; speech is whole, in order, and its stream ends.
* **Endpoint**: a call that is over leaves no worker and no entry behind (a worker that died
  with a full queue prevents it, see section 4).
* **Gateway stream**: no audio of a cancelled generation is sent; interruptions arrive;
  every loop ends when the call does.
* **Call setup**: at most one live stream per session; an engine works only for the owner
  of the number called; every slot comes back; a shutdown reaches every stream.
* **Handoff**: a caller is put through only to a person the backend named, and never
  to two; what is reported fits what the carrier does; every refusal leads back to the
  AI; the caller's hangup ends it (in part it does not, see section 4).
* **Backend**: rows keep to their tenant, updates to the fields they name; what was
  acknowledged is there.

The hazards behind these are listed, each at its line, in `PROJECT.json`.

## 2. Modules

| Module | What it is |
|---|---|
| `TurnPipeline` | One call inside the voice engine: pipeline, turn manager, session state, event writer. |
| `PlaybackFloor` | Abstract specification: who may speak. Responses are opened, take the floor, release it; an interruption silences all there are; a call that is over is silent. `TurnPipeline` implements it, and it is the engine of `GatewayStream`. |
| `TurnFloor` | Abstract specification: an utterance begins and ends only while the assistant cannot be heard, or takes the floor from it. `TurnEvidence` implements it. |
| `MCTurnPipeline` | `TurnPipeline` with one claim of the repository that the code does not keep. |
| `TurnPipelineProofs` | The types, the inductive invariant, six safety theorems, the refinement of `PlaybackFloor`. |
| `Positions` | Taking elements out of the middle of a queue, as the flush of the engine and the purge of the gateway do. |
| `PositionsProofs` | What remains then, for any queue: it is typed, no longer, and made of what was kept. |
| `TurnEvidence` | The decision behind it, frame by frame: acoustic features, detector, turn manager, recording. |
| `TurnEvidenceProofs` | Its inductive invariant, five safety theorems, the refinement of `TurnFloor`. |
| `MCTurnEvidence` | Eleven telephone sounds. |
| `SpeechToText` | The streaming recognizer of a call, with the VAD worker and the tasks that use it. |
| `SpeechSynthesis` | One response through the four stages of `stream_synthesize`, and the cache. |
| `SpeechProofs` | The inductive invariants of `SpeechToText` and `SpeechSynthesis` and their three safety theorems. |
| `VoiceEndpoint` | The engine's sockets and registry against the gateway's sequence of clients. |
| `GatewayStream` | The carrier's stream: loops, client, outbound queue, teardown. |
| `GatewayStreamProofs` | Its inductive invariant and four safety theorems, the types among them. |
| `CallSetup` | How a call gets its session, its tenant, its stream and its engine, and how each is given back. |
| `CallSetupProofs` | Its inductive invariant and both safety theorems. |
| `Handoff` | Handing one call over to a person, in the gateway: the client's receive loop, `on_human_handoff`, the stream's end and cleanup, the carrier's transfer request. |
| `TransferGate` | Abstract specification: a transfer is requested once per grant, and never while one may still put the caller through. |
| `HandoffProofs` | The inductive invariant of `Handoff`, its types, three safety theorems. |
| `TenantRecords` | The backend's REST handlers over one database of all organizations. |
| `TenantRecordsProofs` | Its inductive invariant, three safety theorems and the action property. |

The modules meet at the promises: `TurnEvidence` decides what `TurnPipeline` leaves open and
keeps `TurnFloor`; `TurnPipeline` keeps `PlaybackFloor`, and `GatewayStream` is the gateway
against any engine that keeps it; `CallSetup` ends where `GatewayStream` begins; `Handoff`
is what `GatewayStream` takes as one action; `VoiceEndpoint` starts and stops what
`TurnPipeline` runs; `SpeechToText` and `SpeechSynthesis` are what `TurnPipeline` awaits.

In every module of the engine and the gateway an action is what one coroutine does between
two suspension points.

### How `TurnPipeline` corresponds to the code

All coroutines run on one event loop, so an action is what one coroutine does
between two suspension points, as one atomic step. Suspension points are the
provider calls, waiting for an empty queue, and the awaits on the router; a `put` on a
queue that is not full and an `asyncio.wait_for` around a `get` on a queue that is not
empty do not suspend (Python 3.12, the version of the Dockerfiles).

A turn, its generation id and its cancellation token are created together in
`start_new_turn` and never reassigned, so one number stands for all three. Only the
current turn's state and flags are kept, because nobody reads an older turn's.

| State | Code |
|---|---|
| `cur`, `state`, `answered`, `handled`, `postBarge` | `session.current_turn`, its `state`, "has transcript or text", `barge_in_handled`, `is_post_barge_in` |
| `token`, `cancelled` | cancelled `CancellationToken`s; `cancelled_generation_ids` |
| `active`, `bot`, `tail` | `active_playback_generation_id`; `is_bot_speaking`; "now is before `playback_estimated_end_time_ms`" |
| `inSpeech` | `TurnManager._is_in_speech` |
| `transcribing`, `routing` | `_process_stt_turn` tasks suspended in the transcription and in the query router, counted by turn |
| `llmQ`, `llm`, `unwinding` | `llm_in_queue`; `_active_llm_task` and where it is; cancelled tasks that have not ended |
| `ttsQ`, `tts` | `tts_in_queue`; where `_tts_worker` is and for which generation |
| `evQ` | `event_out_queue`. One "audio" entry is a run of frames of one generation; one "cancelled" entry is the three adjacent events of a barge-in |
| `workers`, `call` | worker loops that still run; `is_active` and the session's end |
| `greeting`, `handoff`, `requested`, `gateway` | the greeting task; `handoff_state`, `handoff_requested`; what the gateway still owes |

Caller: `BargeIn`, `SpeechStart`, `SpeechEnd`, `Expire`. STT task: `Stt*`. LLM worker
and task: `Llm*`. TTS worker and its text streamer: `Tts*`. Then `Writer`,
`PlayoutEnds`, `GreetingDone`, `HandoffAcknowledged`, `HandoffFallback`, `Stop`.
`PROJECT.json` maps every definition to its lines.

Abstracted: the acoustic evidence (any frame sequence may start, end or interrupt
speech; `TurnEvidence` has it), what a transcript says (any branch of the dispatch may be taken), text and
audio. The text rules are therefore over-approximated: what is shown
holds whatever they decide.

Left out of the pipeline: the exception path of the greeting, the per-call TTS
request and character limits (the per-turn budget is in `TtsPull`), the generation
state COMPLETED and `user_has_floor` (never read for a decision), log and metric
fields, a TTS provider's text request left behind by a deadline. The turn manager's
branch that re-arms interruption from inside `handle_speech_frame` is not modelled
because `NeverDeaf` shows it cannot be reached.

### How `Handoff` corresponds to the code

The gateway's Voice Engine client reads events in one task and awaits
`on_human_handoff` inside it, so no event is read while a handoff waits. The carrier's
stream belongs to `handle_stream`, another coroutine, whose cleanup touches the same
session and client. `step` says where the handler is suspended, `stream` where
`handle_stream` (or the stop event it handles) is; an action runs from one suspension
to the next. A command to the engine is sent before or after its send suspends; nothing
the handler does in between is visible, so one step sends it and moves on.

| State | Code |
|---|---|
| `toGateway`, `toEngine` | the WebSocket between engine and gateway, in order |
| `triggered`, `buffered`, `clientUp` | `_handoff_triggered`; `_text_buffers` holds a tool call; `_close_event` not set |
| `handoff`, `handoffId`, `stopping`, `record` | `handoff_state`, `handoff_id`, `cancellation_event`, the handoff record of the session manager |
| `number` | which handoff of the call is in progress; the code has no such number, the properties need it |
| `registered` | the transport's `_clients` still holds the client |
| `engine` | what the engine does with its side: its handoff state, whether an answer is being sent |
| `granted`, `open`, `dialled`, `asked` | the backend's grants; the carrier's transfer requests: unsettled, carried out, ever made |
| `sent` | the status reports so far |

Engine: `Engine*`, `CallerCancels`; what it emits may be lost on the way out (`Sends`), which
`engine.lost` remembers of a request. Client: `Receive*`, each with all of
`on_human_handoff` up to its first await (`Begins`). Handler: `Acknowledges`,
`Resolve*`, `RequestsTransfer`, `Transfer*`, `FailureReported`, `FallsBack`,
`Completes`. Stream: `HangUp`, `Stream*`, `Stop*`, `SessionCloses`, `Cleanup*`.
`CarrierDials` is the carrier, which may carry out a request that timed out.

Abstracted: the AI's audio, which is dropped while `triggered`, is left out; a model's tool
call is one text whose response ends later; the engine's disconnection, the arrival of status reports and the ten minutes a record lives
are left out; a 502 is the carrier's definitive refusal, every other failure, a timeout
too, leaves the request open. An Exotel client is configured. The checks of organisation
and agent are not in the model because the gateway fills them in from the session.

### How `TurnEvidence` corresponds to the code

`Frame` is one round of the VAD worker: a sound, what `audio/features.py` makes of it
(`Hum`, `Breath`, `Transient`, `ValidSpeech`, `Voiced`), the detector's verdict with the
network or without (`IsSpeech`), the turn manager's classification (`Weighed` while the
assistant can be heard, `Genuine` while it cannot), one of its branches (`Ignores`, `Heard`,
`Waits`, `Interrupts`, `Speaks`, `Starts`, `Pauses`, `Ends`), and the worker's recording.
Levels are thousandths, shares percent, times frames of 20 ms, as integers with the code's
thresholds. Responses start, tail off and end at any time between frames, and answers set the
state of the current turn at any time, over the caller's speech too (`AnswerComes`).

| State | Code |
|---|---|
| `playback`, `greeted`, `topic`, `turn` | `is_bot_speaking` and the estimated end; `greeting_played`; the dialogue stage that sets the silence; `barge_in_handled`, `is_post_barge_in`, and whether `current_state` lets the worker record |
| `inSpeech`, `speech`, `silence` | `_is_in_speech`, `_speech_accumulated_ms`, `_silence_accumulated_ms` |
| `evidence` | `_barge_in_bucket`, the candidate's frame counts, `barge_in_pre_buffer` |
| `audio` | `current_speech_audio`, as frame numbers; the ring buffer is the last `RingFrames` frames, so it is computed |
| `spoke`, `enrolled` | `_consecutive_speech_frames` > 0; the speaker profile exists |
| `seen` | history, for the properties |

Left out: `total_turn_speech_ms`, metrics, the test fixtures' override of thresholds.

### How `SpeechToText` corresponds to the code

Two users share one session: the VAD worker pushes audio and resets it at an utterance's
start; the task of each utterance finalizes it, waits, falls back to a batch request, and
resets it only if `current_turn_id` is still its own. `sender` and `receiver` are the two
background tasks, `hand` the frame the sender has taken out of the queue, `at[u]` how far
the answer to an utterance is, `turn[u]` its turn id: an utterance may get the turn id of
the one before, because the engine reuses a turn that is LISTENING. The provider may answer
with a partial or a final transcript or not at all, and the connection may break at any time.
`AnswerGoesOn` is what router, language model and playback make of the current turn's state:
`listening` is the guard under which the worker pushes, `own` (history) how many frames came
before the turn was taken. A text is there or not; the batch request ends in a text or a failure after up to
`MaxAttempts` tries behind a semaphore of `Permits`.

### How `SpeechSynthesis` corresponds to the code

`text`, `segmenter`, `segments` are the segmenter and its queue; `feeder`, `task` the feeder and
one task for each segment; `synthesizer`, `next`, `audio` the ordering stage and its queue;
`generator`, `spoken` the generator and what it handed over. `memory` and `disk` are the
cache by the text it is keyed with; `put` evicts the oldest insertion, `get` promotes from disk without evicting.
`Cancel` is the token, `ConsumerLeaves` the engine closing the generator. A segment is its
number, its audio is there or not; where the text is cut is left open.

### How `VoiceEndpoint` corresponds to the code

`handler[s]` is where the coroutine of socket `s` is, from accept through the read loop and
`finally` (`leaving`, `stopping` for the up to five seconds of `stop()`, `closed`);
a worker's name there means that the handler awaits room in that worker's queue, and reads
nothing meanwhile; `registry` is the entry of `session_manager` under the id all clients name, `created`,
`active` and `tasks` the session and its engine's workers. `client` and `gateway` are the
transport's side: a client connects only when the one before is given up. Left out: which
providers are built, the fields of session.start, the transcript and lead events, several
session.start on one socket (the gateway sends one).

### How `GatewayStream` corresponds to the code

| State | Code |
|---|---|
| `newest`, `silenced`, `link` | the engine (`PlaybackFloor`) and its events on the way |
| `open`, `told`, `waiting` | the client's receive loop; session.end was sent; the frame waiting up to 100 ms for room |
| `queue`, `cancelled`, `interrupted`, `stopping` | `outbound_audio_queue`, `cancelled_generations`, `interruption_event`, `cancellation_event` |
| `loops`, `inbound`, `stream`, `registered` | the three tasks, where the inbound one and `handle_stream` are, the transport's entry |
| `sender` | the frame the outbound loop has taken and is pacing out in packets of 20 ms |
| `connected`, `sent`, `exotel` | the carrier's WebSocket, the audio it holds, its protocol |

`Client*` is the receive loop, `Sender*` the outbound loop, `CallerSpeaks`, `Forwarded`,
`CarrierClears`, `CarrierStops`, `StopDrained`, `SeesDisconnect` the inbound one,
`HeartbeatEnds` the third, `StreamWakes`, `CancelsLoop`, `Cleanup*`, `StreamDrained` the `finally` of
`handle_stream`; `SessionCloses` is the pruner, the shutdown or the API. Left out:
transcoding, the inbound queue (its frame is taken in the step that follows), statistics.

### How `CallSetup` corresponds to the code

A session object is its place in `object`; `table` holds the objects the manager still has.
`ask` is a request to `/exotel/resolve`, `stream` a call of `handle_stream` with where it is
(`new`, `accepting`, `streaming`, `resolving`, `connecting`, `closing`, `over`). `Prune`,
`Expires`, `Shutdown` are the manager's, each under its lock. The backend's answers are
those its internal API gives (`Findings`, `Failures`); `ParseResponse` and `HttpStatus`
are the translations the gateway makes of them. Left out: the shape of numbers, the agent's
configuration in the answer, `terminate_session` and `remove_session`, which nothing calls.

### How `TenantRecords` corresponds to the code

A request is an endpoint with who asks, for which organization, which row it names and
which fields it sets; `req[r].at` is the statement it is at: membership and role, look-up,
flush and commit, read after the commit. `row` is the committed database; foreign keys,
unique keys and cascades are those the models declare. `create_organization` flushes twice
and holds its keys meanwhile; every other handler flushes and commits in one step. `Lost`
is the connection or the database going away. Left out: usage records, audit logs and
knowledge chunks, which no code writes, member and profile lists, pages and filters.

## 3. Runs

| Run | Checks | Bounds and size |
|---|---|---|
| `pipeline_answers` | `TypeOK`, `NeverDeaf` | 3 turns, duration limit, one transfer, greeting not cached, queues 1/2/2; 2.6M states |
| `pipeline_barge_ins` | `NoCancelledAudio`, `SilentAfterBargeIn`, `FlushIsFinal`, `FloorIsKept` (refinement), `CancelledSpeechDrains` (liveness) | 4 turns, no LLM, cached greeting, queues 0/3/3; 0.2M states |
| `turn_evidence` | `HumsNeverInterrupt`, `StrongSpeechInterrupts`, `NothingIsTranscribedTwice`, `NothingIsLost`, `NobodyIsCutOff`, `TurnsAreTaken` (refinement) | 6 frames of 11 sounds, shortened times; 2.4M states |
| `speech_to_text` | `ConnectedIsHeard`, `SpeechIsKept`, `UtterancesAreAnswered` (liveness) | 2 utterances of 2 frames, queue of 1, one message, 2 tries; 667k states |
| `speech_synthesis` | `SpeechIsWhole`, `StreamEnds` (liveness) | 3 segments of 2 texts, queues of 1, one cache entry; 731k states |
| `voice_endpoint` | `CallsLeaveNothing` (liveness) | 2 clients, one message on the way; 247k states |
| `call_stream` | `TypeOK`, `NoCancelledFrames`, `CarrierIsClear`, `TeardownIsComplete`, `StreamEnds`, `InterruptionArrives` (liveness) | 3 generations, queue of 1, 2 events, 2 packets a frame |
| `call_setup` | `OneStream`, `EngineServesOwner`, `SlotsComeBack`, `ShutdownEnds` (liveness) | 1 request, 2 streams, 2 numbers, 2 objects, one slot, one connection a minute |
| `handoff_safety` | `TypeOK`, `ReportsFit`, `GateIsKept` (refinement) | one request and one tool call; 4.8M states |
| `handoff_request` | `WaitingEnds`, `MuteEnds`, `CompletionFreesCall` (liveness) | one request or one tool call; 218k states |
| `tenant_records` | `TenantsAreApart`, `OrganizationsAreWhole`, `AnswersAreTrue`, `OnlyWhatWasNamed` (action) | 2 requests, 3 users, 2 organizations to begin with; 145k states |
| `vio_stt_recovery` | `TtsWorkerSurvives`, which the code does not keep | 3 turns |

*Bounds.* `MaxTurns` bounds the turns of a call, `MaxSttTasks` the STT tasks of one
turn at the same await, `MaxHandoffs` the transfer requests (the code allows one), and
the queue sizes stand for 500, 500 and 5000. Three turns let a barge-in meet the work of
an older and of the next turn; four add a turn that nobody but `all_generation_ids`
remembers. The engine makes one request a call; a tool call adds a second and, at its
response's end, a third handoff to the same call, so retries meet every outcome of an
earlier handoff. Small queues fill up, so dropping events and waiting producers do happen. The
safety properties do not rest on the bounds: they are proved for all of them (section 5).

`MaxFrames` is the length of a run of `TurnEvidence`; the times are shortened in proportion
(the order of the thresholds is kept, `TurnEvidenceAssumption` states what matters of it), so that
six frames hold a whole utterance, a pause, its end, the next onset, or two candidates one
after the other. Two utterances are the least that let a late answer meet the next one; a
queue of one is full at the second frame. Three segments let one be ordered before
and after another that fails, two texts let two of them share a cache entry. Two sockets
let the next client come while the handler of the one before is still stopping or stuck; every
property of them is about one socket and the entry they share. In `Handoff`, `MaxAttempts` is
requests and tool calls together: two for safety, where one meets the other, and one of either
kind for liveness, so that both beginnings of a mute and all ways out of the handler occur. A queue and a slot of one are
full at once, three generations leave one that is neither the interrupted nor the newest. A
second request can come between any two statements of the first; three would add no new pair.

A call, a stream, an utterance and a request may end and then nothing needs to happen, so the
runs do not ask for freedom from deadlock. In `turn_evidence` every state has a successor:
responses still start and end when the last frame was heard.

*Fairness.* The event loop runs every ready task and every due timer, so in each module the
steps of the code's own coroutines are weakly fair, and what users and other systems may do is
not. In `TurnPipeline` these are the writer, the end of the playout, the TTS worker's own steps
and its 50 ms and 2 s timers. In `Handoff` every await of the gateway ends, because its HTTP
requests and drains have timeouts; both ends keep reading their socket; and the loops of a
call that is to stop end its stream. In `GatewayStream` they are client, sender, inbound and
heartbeat loops and the cleanup; the engine and the carrier owe nothing. In `CallSetup` every wait of a
stream has a timeout, the pruner comes round and sessions grow old; the carrier owes nothing. In
`SpeechToText` only the tasks that answer are fair, because their wait is 200 ms and a batch
request has its own timeout; the provider need not answer and the sender need not get through. In
`SpeechSynthesis` a request ends within its timeout, the text because the engine waits two
seconds for more, and the consumer takes what it gets. In `VoiceEndpoint` handlers run, a
worker that has not ended takes the next item of its queue, and the gateway's drain has an end;
nothing makes room in the queue of a worker that has ended. `TurnEvidence` and `TenantRecords` state no fairness: their
properties are about safety.
`CancelledSpeechDrains` says "unless the TTS worker has ended", because the code has such
an end (finding `vio_stt_recovery`).

### What the properties say

* `NeverDeaf`: while something plays in an active call, `barge_in_handled` is not left
  over from an earlier interruption, so the caller can interrupt.
* `NoCancelledAudio`: no audio of a cancelled generation is in the event queue, whenever its
  late transcript, answer or text comes.
* `SilentAfterBargeIn`: while the turn listens after a barge-in nothing plays, no audio is
  queued and speech is being collected.
* `FlushIsFinal`: audio queued behind an announced interruption belongs to a later turn
  or is the greeting.
* `FloorIsKept`: the pipeline implements `PlaybackFloor` (turns as responses, playback
  owner as floor, cancelled generations as silenced). The abstract specification leaves it
  open whether the very first response is silenced; see section 4.
* `TurnsAreTaken`: an utterance begins and ends only while nothing plays, or by interrupting
  what plays, in the turn manager's own arithmetic.
* `CancelledSpeechDrains`: text and playback of a cancelled generation leave the TTS
  stage.
* `HumsNeverInterrupt`, `StrongSpeechInterrupts`: an interruption has a frame in its bucket that is
  not a hum; strong speech interrupts after `StrongConfirm` frames, whatever an earlier sound left.
* `NothingIsTranscribedTwice`, `NothingIsLost`, `NobodyIsCutOff`: no frame of speech is in two
  utterances; the audio is complete from the word that opened it until an answer or a response
  takes the turn, from when the code records nothing (`engine.py:710`); and an utterance ends
  only after a silence.
* `ConnectedIsHeard`, `SpeechIsKept`, `UtterancesAreAnswered`: a connected stream has a listener;
  no frame spoken before an answer or a response took the turn disappears, in particular not by the
  reset of a late answer, as long as no two utterances share a turn id (frames spoken after it are
  not pushed at all); every utterance gets its transcript or its failure.
* `SpeechIsWhole`, `StreamEnds` of `SpeechSynthesis`: what is spoken is in order, once and complete;
  the stream ends and leaves no request running.
* `CallsLeaveNothing`: when a client's socket is down, its engine's workers end, its session
  becomes inactive and the id no longer finds it, unless its handler waits for good for room in
  the queue of a worker that has ended.
* `NoCancelledFrames`, `CarrierIsClear`: no frame of a response taken back waits in the gateway,
  and the frame being paced out cannot slip in behind the carrier's "clear".
* `TeardownIsComplete`, `StreamEnds`, `InterruptionArrives` of `GatewayStream`: one loop's end takes
  all down, and what is left the engine was told to end; an interruption gets past a full queue.
* `OneStream`, `EngineServesOwner`, `SlotsComeBack`, `ShutdownEnds`: a live stream has a session
  of its own that the manager knows, the engine serves the owner of the number called, every
  session leaves the table, a shutdown ends every stream.
* `GateIsKept`: the handoff implements `TransferGate`: repeated events, a timeout that
  the carrier carries out late, a cleanup at any await never request a second transfer
  while a first may succeed, nor one the backend has not granted.
* `ReportsFit`: a handoff reported failed cannot put the caller through, one reported
  completed was asked for.
* `WaitingEnds`, `MuteEnds`: the engine that waits for a handoff is released, unless its
  request was lost on the way out, and the caller hears the AI again, unless the call ends. `MuteEnds` excepts a handoff refused for
  a foreign call id, which the code never answers.
* `CompletionFreesCall`: a completed handoff ends the stream, without which the carrier
  does not go on to connect the caller.
* `TenantsAreApart`, `OnlyWhatWasNamed`, `OrganizationsAreWhole`, `AnswersAreTrue`: rows mention
  only rows of their organization, change only by requests of those who may and in the fields they
  name, organizations appear whole, and answers agree with what is stored.

## 4. Findings

`vio_stt_recovery`: the retry prompt of a failed transcription has the key `text`, the TTS
worker reads `delta` outside any `try`: the worker ends and the call is mute. `PROJECT.json`
quotes the lines.

Reading the code for the models turned up further places where it and the documents, or what
one would expect of it, differ. They have no run of their own, because a run is kept for what
holds; they are noted for whoever works on that code.

*Engine, turns.*
* A control event consumed late clears the playback owner of the next response, whose frames
  are then refused and whose end is still reported (`session/state.py:239`).
* The guard against clarifying after a barge-in looks at the turn current when the transcript
  arrives. `response.end` of cached audio follows a barge-in (`engine.py:1681-1693`).
* The first generation of a session is never put into `all_generation_ids`
  (`session/state.py:318-346`, see `Invalidated`), so a later barge-in cannot cancel it;
  `PlaybackFloor` leaves that open.
* Speech during PROCESSING does not cancel the turn's token (`turn_manager.py:478`);
  `is_bot_speaking` stays set when `response.end` is consumed before the playout is over
  (`state.py:242`).
* Two hums followed by speech of normal level never interrupt, which
  `test_problem_validation.py:185` says they do: the candidate stays passive and its bucket
  has no cap.
* `BARGE_IN` clears the audio recorded so far (`engine.py:571`), so of a caller who is answered
  while speaking and interrupts, the beginning is dropped; the greeting's end resets the turn
  manager in the middle of an utterance (`engine.py:476`); the onset frame is put twice
  (`engine.py:616-620`).
* A late answer (`engine.py:926-1115`) or a response (`engine.py:1573-1575`) sets the state of the
  current turn while the caller speaks into it; the frames that follow are neither recorded nor
  pushed (`engine.py:710`), although the utterance goes on and is ended as one.
* `allow_barge_in` is stored and never read; `speaker_lock.py:13` says below 0.45 is discarded,
  the code uses 0.40 and asks only for quiet speech; `refine_profile` does not exist.

*Engine, speech.*
* Audio that overflows the recognizer's queue is dropped and the stream still counts as healthy
  (`stt/sarvam.py:317`, logged at 411 as a fallback). A flush overtakes queued frames;
  a late final of one turn is returned for the next; a frame in the sender's hand survives a reset;
  the reset of finalize drains frames not yet sent; two unanswered utterances that share a turn
  id are not protected from each other, though a comment says so.
* A disconnection sets the final event, and a reconnection makes the stream healthy with the
  partial transcript of before.
* In the synthesis a segmenter or synthesizer may be left waiting for room for its end mark,
  the feeder for a mark never put; the feeder of an abandoned stream still starts requests for
  queued segments; a failed segment is skipped silently and its silence is not cached.
* The cache evicts by insertion though the comment says LRU; a `get` from disk goes beyond the
  bound; a crash during a write leaves a truncated file that is served later.

*Endpoint.*
* A client that comes back while the handler of its earlier socket is still stopping loses its
  session when that handler closes it by its id (`session/manager.py:53-60`): the call is deaf.
  `ReadyIsServed` in `VoiceEndpoint` states the contrary and is not kept.
* The handler awaits room in the queues of the VAD and the TTS worker (`engine.py:351`,
  `engine.py:1907-1918`). Both workers may end by an exception (half a sample at `engine.py:545`,
  the item without `delta` at `engine.py:1529`); when the queue they leave is full the handler
  waits for good, does not see the disconnection, and the session stays.
* Tasks of `_process_stt_turn` outlive `stop`; after expiry the socket stays and audio is dropped;
  several session.start on one socket leak the first engine.

*Gateway.*
* `handoff.requested` is dropped when the engine's event queue is full (`engine.py:263-268`) and
  by a flush (`queues.py:46-60`); the engine, which has no timeout, then awaits a transfer nobody
  knows of until the caller takes the request back or hangs up.
* A hangup during a handoff is reported as canceled, but the handler is not stopped: it may go
  on, request the transfer and report it completed. A stop event whose drain is cut short
  leaves the client open, and its handoff transfers a call that is over. The record of a
  transfer the carrier refused still makes the call flow approve the handoff; records are never
  pruned.
* After a stop event the client is closed before the cleanup wants to send
  `handoff.cancelled` (`gateway.py:1275`); a request read while the cleanup drains the
  engine stays IN_PROGRESS; a hangup after the transfer was requested reports nothing; a
  handoff refused for a foreign call id gets no fallback (`gateway.py:482`).
* After a fallback the end of the response that held the tool call begins a second handoff
  (`voice_engine_client.py:425`); neither the hold announcement nor the caller's "never
  mind" is read while the handoff runs (`voice_engine_client.py:513`).
* A generic client may be sent one stale frame after a cancel; "purges outbound audio queue"
  (`README.md:213`) is not so for generations older than the cancelled one; a stream of a
  session that had a client passes its start event without an engine of its own
  (`gateway.py:1140`).
* `GatewayError` of `create_session` in the resolver is a 500 (`README.md:248` says 503); an inactive
  organization is reported as an inactive number; inactive numbers get 403 (`README.md:341` says
  404); a retried webhook makes a second session for its CallSid.

*Backend.* After a commit a failing `db.refresh` gives 500 although the row is there
(`db/session.py:34`); two PATCHes of the same fields may leave a mixture; a CallSid is unique over all
tenants; deleting what a call mentions sets a NOT NULL column to null and fails; `update_call` sets
any status; `is_active` of an organization blocks nothing but lists.

## 5. Proofs

Every safety property, action property and refinement a run checks is proved for every value of
the constants. What is assumed of them is the named `ASSUME` of each module, which TLC
evaluates in its runs:

| Module | Assumption | What it asks |
|---|---|---|
| `TurnPipeline` | `BoundsAssumption` | natural queue sizes, at least two turns and one STT task, at most one transfer |
| `TurnEvidence` | `TurnEvidenceAssumption` | sounds in the ranges of their features; positive times; a strong candidate needs no more frames than its confirmation, a hum no more than the slow one, an onset no more than the ring holds; the ring is no longer than the shortest silence |
| `SpeechToText` | `SpeechToTextAssumption` | bounds of at least one; any number of messages |
| `SpeechSynthesis` | `SpeechSynthesisAssumption` | bounds of at least one; the end mark is no segment |
| `GatewayStream` | `SizesAssumption` | sizes of at least one, at least two responses |
| `CallSetup` | `SetupAssumption` | the names that stand for "none" and "default" are not numbers or streams; room for at least one session |
| `Handoff` | `BoundAssumption` | at most one request, any number of tool calls and of both together; only the types use it |
| `TenantRecords` | `RecordsAssumption` | two different users to begin with; "none" is no request, slug or CallSid |

In each module of proofs `Inv` (`StagesInv` for the second system of `SpeechProofs`) is the inductive
invariant. `Initially` or `InvInit` shows that it
holds at first; one lemma per action, or per group of actions that change the same part of the
state, that a step keeps it; the theorems are read off it. Each `Inv` was checked by TLC as an
invariant before it was proved. (The key of a row stays out of that check: TLC does not compare
a slug with the number of a transcript's turn.)

*Positions.* What a flush or a purge leaves is a function of the rank of the kept positions.
`Smallest` and `Largest` follow from the well-founded order of finite sets, `EveryRankIsTaken`
shows that counting the elements of a finite set of positions takes every value, and
`PickedType` gives all that the proofs need of a queue with elements taken out.

*`TurnPipeline`, types.* `TypeOK` is not inductive: a TTS or LLM task that runs has a turn,
which `TypeOK` does not say and the emission of its events needs. `Typed` adds it and groups
the variables; a lemma per coroutine has one step per action and under it one step per group
the action changes.

*`TurnPipeline`, safety.* `Inv` is the conjunction of `Typed`, `Known`, four of the properties
and `Clean`. `Known` says that no set, task or queue names a turn later than the current one; it
is what makes the turn opened by an interruption a fresh one and keeps `CurrentTurnIsLive`,
and it needs the provenance of every generation: an STT task starts for the current turn,
its answer is of its own turn, the LLM task's of what the queue held, the playback owner is
the head of the TTS queue. `Clean` strengthens `NoCancelledAudio` and `FlushIsFinal`: an
interruption announced in the queue has cancelled all turns from the second to its own, so
a producer that looks at `cancelled` in the step in which it emits cannot emit behind it
anything but a later turn or the greeting. Steps that touch neither turn, playback,
cancellation nor events are handled once (`QuietFrame`).

*`TurnPipeline`, refinement.* `PipelineKeepsFloor` maps every step to a step of `PlaybackFloor`
or to a stutter; it uses `Known` (only an opened turn takes the floor) and `Refused` (none that
is cancelled).

*`TurnEvidence`.* What is checked speaks of the frames that were heard, what decides are counters
that leak. `Bucket` joins them: a candidate that waits is one that was not confirmed, an empty
bucket has forgotten its counts, a bucket in which no word was heard holds no more than the hums
that fell into it, and strong frames in a row are all still in it. So a confirmation, which asks
for a full bucket and for counts, needs a frame that is not a hum, and a run of strong frames
confirms when it is as long as its threshold. `Recording` places the recordings in time: the last
word lies before the counted silence, the utterance handed over last before the ring, the words
before an onset within the counted speech; `TurnIsCallers` that a turn nothing has taken listens, so
that the worker records. It is where the assumptions on ring, onset and
silence are needed; without them an utterance would be transcribed twice.

*`SpeechToText`.* `SpeechIsKept` is broken by a reset in the middle of an utterance, which a task of
an earlier one may still intend. `Guarded` says that while the caller speaks the session's turn id
is that utterance's, and that, unless the id is shared, no task with the same id is on its way to
a reset; `Begun` that every utterance that began has a turn, so that the new id differs from none;
`HandIsFree` that the sender does not take a frame while it holds one; `Owned` that a turn which does not
listen has had its last frame of its own. Where a frame is, is a set
(`InQueue`), and lemmas say what appending and taking does to it.

*`SpeechSynthesis`.* `SpeechProofs` extends it beside `SpeechToText`, which is why its initial states, steps and
specification are named after the response (`ResponseInit`, `ResponseNext`, `ResponseSpec`). `SpeechIsWhole` says nothing of a stream that still
runs, so `StagesInv` follows the segments through the stages: `Fed` counts them (until a cancellation each
is in the segment queue or has a task, and the end mark comes last), `Due` says that every segment before
the one that is due has its result and that its audio, if it got any, has left the synthesizer, `Ordered`
that the queued audio goes on where what was spoken ends. The end mark in the audio queue then proves that
all was put: the synthesizer awaits nothing between its look at the tasks and its look at the feeder. `Over` keeps this
for a stream that ended of itself. What is dropped when the stages are torn down was not finished
(`LeavesStep`), so nothing that was spoken is touched.

*`GatewayStream`.* `Pacing` says that a frame in hand has an outbound loop to send it, `ClientKept` that
only a connected client waits for room and that a client the transport has forgotten was told to end,
`Draining` that the cleanup drains when all loops are gone. With these each of the four properties is
kept by every step. A frame comes into the queue only if its generation is not cancelled when its
event is read, or if it waited for room; and no cancellation is read while a frame waits, because the
receive loop is what waits (`NoCancelledFrames`). A packet is sent only after the generation it belongs
to was looked at in the same step (`CarrierIsClear`).

*`CallSetup`.* That a live stream has a session of its own does not follow from the live streams alone:
a stream that is closing could take the session from the one it is reused by. `Held` therefore
speaks of every stream with a session, closing ones included: if the session was not cancelled, it is
that stream's and the manager has it. `Bound` says from when to when a stream has a session, `Served` that
who is connected has a tenant, `Owned` that the tenant is the owner of the number. The number of live
streams is bounded because their sessions are different and in the table (`LiveAreFew`, an injection
into a finite set).

*`Handoff`.* What is checked is not inductive, because that a transfer is requested when none is
open does not follow from the handler's own state: `handoff_state` is set by the cleanup, too.
`Inv` adds where the handler is (`Progress`: which requests there are of the handoff in progress),
that a handler at an await runs in an open client (`Alive`), and `Settled`: once a request
may have put the caller through, the client is either still waiting for its outcome or
closed for good. Only a refusal returns to the receive loop with the client open, and it
settles the request; so the next handoff, which begins in the receive loop of an open
client, finds none. `Reports` carries the same for what was reported. Steps that leave
requests and reports alone are handled once (`Frame`).

*`TenantRecords`.* A request acts on what it saw before others committed. `Fine` says what it may still
rely on: its membership, for nobody loses one; the organization of the row it looked at, which is the
same or gone, for ids are never given out again (`Typed`); the kinds of the rows it names (`Meant`),
for a kind never changes. `Placed` and `Credited` hold of every row: where it may point, and that who
made it may and was not refused. That a deletion leaves nothing that points to what is gone needs the
kinds: what is deleted is a lead or a document with its parts, which nothing mentions, and a part has no
parts (`DeletedRows`); the constraints of the database alone do not say it, since the model's cascade is one level
deep. `KeysAreApart` lets at most one transaction hold a unique key, and one that waits to commit
an organization holds its slug, so no two get the same. `RowsChangeAsNamed` uses `Inv` for each step that
changes a row: an update writes only what the request set to another value, into a row of the
organization it asked for, a deletion removes only rows of it, and who asked may.

| Theorem | Statement |
|---|---|
| `TypeCorrect`, `Invariance` | `Spec => []TypeOK`, `Spec => []Inv` of `TurnPipeline` |
| `CurrentTurnLives`, `CallerIsHeard`, `PlaybackLives`, `InterruptionSilences`, `CancelledAudioIsGone`, `FlushesAreFinal` | `Spec => []` of `CurrentTurnIsLive`, `NeverDeaf`, `PlaybackIsLive`, `SilentAfterBargeIn`, `NoCancelledAudio`, `FlushIsFinal` |
| `PipelineKeepsFloor` | `Spec => FloorIsKept` |
| `EvidenceInvariant` | `Spec => []Inv` of `TurnEvidence` |
| `HumsAreHarmless`, `StrongSpeechIsTaken`, `TranscribedOnce`, `RecordedWhole`, `LastWordsAreHeard` | `Spec => []` of `HumsNeverInterrupt`, `StrongSpeechInterrupts`, `NothingIsTranscribedTwice`, `NothingIsLost`, `NobodyIsCutOff` |
| `FramesKeepTurns` | `Spec => TurnsAreTaken` of `TurnEvidence` |
| `SessionInvariant`, `ReceiversListen`, `FramesAreKept` | `Spec => []` of `Inv`, `ConnectedIsHeard`, `SpeechIsKept` of `SpeechToText` |
| `StagesInvariant`, `SpeechStaysWhole` | `ResponseSpec => []` of `StagesInv`, `SpeechIsWhole` of `SpeechSynthesis` |
| `StreamInvariant`, `StreamTypes`, `CancelledFramesAreGone`, `CarrierStaysClear`, `TeardownCompletes` | `Spec => []` of `Inv`, `TypeOK`, `NoCancelledFrames`, `CarrierIsClear`, `TeardownIsComplete` of `GatewayStream` |
| `SetupInvariant`, `OneStreamPerSession`, `OwnersAreServed` | `Spec => []` of `Inv`, `OneStream`, `EngineServesOwner` of `CallSetup` |
| `HandoffInvariant`, `HandoffTypes`, `ReportsAreTrue`, `CleanupStopsHandoffs` | `Spec => []` of `Inv`, `TypeOK`, `ReportsFit`, `CleanupStopsHandoff` of `Handoff` |
| `HandoffKeepsGate` | `Spec => GateIsKept` |
| `RecordsInvariant`, `TenantsStayApart`, `OrganizationsStayWhole`, `AnswersStayTrue` | `Spec => []` of `Inv`, `TenantsAreApart`, `OrganizationsAreWhole`, `AnswersAreTrue` of `TenantRecords` |
| `RowsChangeAsNamed` | `Spec => OnlyWhatWasNamed` |

`CurrentTurnIsLive`, `PlaybackIsLive` and `CleanupStopsHandoff` are proved for all constants and
are not checked by a run as well.

*Only model-checked:* liveness (`CancelledSpeechDrains`, `WaitingEnds`, `MuteEnds`,
`CompletionFreesCall`, `UtterancesAreAnswered`, both `StreamEnds`, `CallsLeaveNothing`, `InterruptionArrives`,
`SlotsComeBack`, `ShutdownEnds`), which depends on fairness and ENABLED and is out of the
prover's reach. `VoiceEndpoint` has liveness only and so no theorem.

## 6. Plan

Done: all modules of section 2 with their runs, and the proofs of every safety property, action property and
refinement they check. What a further step could add: in `SpeechSynthesis` the cache, of which the code
promises nothing that could be stated (its bound is exceeded, section 4), and in `VoiceEndpoint` a safety
claim worth an invariant; today it has liveness only, which stays with TLC.

## 7. Not modelled

* *Circuit breaker*: no other file uses it, so there are no calls to model it from. As it is,
  the fallback would run under its lock, answers in flight count in HALF_OPEN, a failure while
  OPEN postpones recovery, and its count is not reset on the way to HALF_OPEN.
* *Structured input*: string rules of one task. (Digits are joined in the order of arrival, a "91"
  that stands for a country code is counted as part of a ten-digit number until a pause, and a
  remark without digits ends the buffer.)
* *LLM text, prompts, templates, tools, RAG, intelligence, summaries*: pure functions of text, and
  what the pipeline does of them is a nondeterministic choice in `TurnPipeline`.
* *Webhooks and call lifecycle*: signatures and the translation of fields; a service is made
  for each request, so the nonces and records it keeps never meet a second one.
* *Frontend, scripts, tests, infrastructure*: no protocol.

`PROJECT.json` lists every component with what is left out of it.
