---------------------------- MODULE TurnPipeline ----------------------------
(***************************************************************************)
(* One call inside the voice engine: the turn manager, the STT tasks, the  *)
(* LLM worker and its task, the TTS worker, the greeting task and the      *)
(* WebSocket event writer, all coroutines of one event loop that share the *)
(* session object and four queues.  A step of this module is what one      *)
(* coroutine does between two suspension points.                           *)
(*                                                                         *)
(* A turn, its response generation and its cancellation token are created  *)
(* together and never reassigned (EphemeralTurnState), so one number names *)
(* the three.  Turn 1 exists when the session does.  The state and the     *)
(* flags of a turn that is no longer current are still written by late     *)
(* tasks but read by nobody, so only the current turn's are kept.          *)
(***************************************************************************)
EXTENDS Integers, Sequences, FiniteSets, Positions

CONSTANTS
    GreetingCached, \* the greeting audio is in _GREETING_AUDIO_CACHE
    DurationLimited,\* max_call_duration_seconds is set and positive
    MaxTurns,       \* bound: turns created in a call
    MaxHandoffs,    \* bound: transfer requests (the code allows one a call)
    MaxSttTasks,    \* bound: STT tasks of one turn at the same await
    LlmQueueSize,   \* capacity of llm_in_queue   (500 in the code)
    TtsQueueSize,   \* capacity of tts_in_queue   (500 in the code)
    EventQueueSize  \* capacity of event_out_queue (5000 in the code)

ASSUME BoundsAssumption ==
    /\ GreetingCached \in BOOLEAN
    /\ DurationLimited \in BOOLEAN
    /\ MaxTurns \in Nat \ {0, 1}
    /\ MaxHandoffs \in {0, 1}
    /\ MaxSttTasks \in Nat \ {0}
    /\ LlmQueueSize \in Nat
    /\ TtsQueueSize \in Nat
    /\ EventQueueSize \in Nat

Turns == 1 .. MaxTurns
None  == 0

TurnStates == {"IDLE", "LISTENING", "PROCESSING", "SPEAKING",
               "LISTENING_AFTER_BARGE_IN", "INTERRUPTED"}
HandoffStates == {"IDLE", "AWAITING_TRANSFER"}
TextItems  == {"text", "clarification", "eof", "malformed"}
EventKinds == {"audio", "end", "cancelled"}

VARIABLES
    call,        \* "active", "expired" (is_active False) or "closed"
    workers,     \* worker loops that still run, of {"llm", "tts"}
    cur,         \* the session's current turn
    state,       \* its TurnStateEnum
    token,       \* turns whose cancellation token is cancelled
    cancelled,   \* cancelled_generation_ids
    answered,    \* its raw_transcript or generated_text is set
    handled,     \* its barge_in_handled
    postBarge,   \* turns with is_post_barge_in
    inSpeech,    \* TurnManager._is_in_speech
    active,      \* active_playback_generation_id
    bot,         \* is_bot_speaking
    tail,        \* now < playback_estimated_end_time_ms
    transcribing,\* STT tasks awaiting the transcript, by turn
    routing,     \* STT tasks awaiting the fast query router, by turn
    llmQ,        \* llm_in_queue: generations
    llm,         \* _active_llm_task
    unwinding,   \* generations whose LLM task is cancelled but has not ended
    ttsQ,        \* tts_in_queue
    tts,         \* where the TTS worker is, and for which generation
    evQ,         \* event_out_queue
    greeting,    \* "synthesizing" or "done"
    handoff,     \* handoff_state
    requested,   \* handoff_requested
    gateway      \* what the gateway still owes for a handoff request

turnVars    == <<cur, state, answered, handled, token, cancelled, postBarge>>
playVars    == <<active, bot, tail>>
sttVars     == <<transcribing, routing>>
llmVars     == <<llmQ, llm, unwinding>>
ttsVars     == <<ttsQ, tts>>
handoffVars == <<handoff, requested, gateway>>
vars == <<call, workers, inSpeech, evQ, greeting,
          turnVars, playVars, sttVars, llmVars, ttsVars, handoffVars>>

-----------------------------------------------------------------------------
(* Helpers *)

NoTask == [pc |-> "none", gen |-> None, turn |-> None]
Idle   == [pc |-> "idle", gen |-> None, turn |-> None, open |-> FALSE]

LlmTasks == [pc : {"none", "created", "thinking", "streaming"},
             gen : Turns \cup {None}, turn : Turns \cup {None}]
TtsWork  == [pc : {"idle", "stream", "drain"}, gen : Turns \cup {None},
             turn : Turns \cup {None}, open : BOOLEAN]

\* The check the pipeline makes before it goes on with a generation.
Stale(t) == t \in token \/ t \in cancelled

\* is_active_playback: what makes caller speech a barge-in.
Playing == bot \/ tail \/ active # None

\* A task writes the turn it captured: visible only while that is current.
Mark(t, value) == IF t = cur THEN value ELSE state
Answered(t)    == answered \/ t = cur

\* Back to IDLE if the turn still says PROCESSING.
Unprocess(t) == IF state = "PROCESSING" THEN Mark(t, "IDLE") ELSE state

Item(kind, t) == [kind |-> kind, gen |-> t]

\* Mutant: the event queue has no limit.
EmitUnbounded(q, kind, t) ==
    IF kind = "audio" /\ q # <<>> /\ q[Len(q)] = Item(kind, t)
    THEN q ELSE Append(q, Item(kind, t))

\* _emit_event: an event is dropped when the queue is full.  One "audio" entry
\* stands for a run of frames of one generation, one "cancelled" entry for
\* the three events of a barge-in (response.cancelled, audio.flush and
\* audio.playback.stop), which are adjacent and do the same to this side.
Emit(q, kind, t) ==
    IF \/ Len(q) >= EventQueueSize
       \/ kind = "audio" /\ q # <<>> /\ q[Len(q)] = Item(kind, t)
    THEN q ELSE Append(q, Item(kind, t))

\* Mutant: the flush leaves the audio in the event queue.
KeptAll(q) == DOMAIN q

\* The part of flush_output_queues that keeps the control events, in order.
Kept(q)      == {i \in DOMAIN q : q[i].kind = "cancelled"}
Retained(q)  == Picked(q, Kept(q))

\* A response put on tts_in_queue whole: its text and the end marker.
Say(kind, t) ==
    /\ Len(ttsQ) + 2 <= TtsQueueSize
    /\ ttsQ' = ttsQ \o <<Item(kind, t), Item("eof", t)>>

\* Mutant: only what plays now and the current turn.
InvalidatedActive == {active, cur} \ {None}

\* invalidate_active_generation: the turn the session started with is not in
\* all_generation_ids, every later one is.
Invalidated == {t \in Turns : \/ t = active
                              \/ t = cur
                              \/ t = cur - 1
                              \/ t > 1 /\ t <= cur}

\* start_new_turn, with what its caller then writes into the new turn.  The
\* replaced turn's token and generation are left as they are.
NewTurn(value, isAnswered, isHandled) ==
    /\ cur < MaxTurns
    /\ cur' = cur + 1
    /\ state' = value /\ answered' = isAnswered /\ handled' = isHandled

\* _cancel_active_llm_task: a task that has not taken its first step just
\* disappears, any other one ends at its next suspension point.
CancelLlm ==
    /\ llm' = NoTask
    /\ unwinding' = IF llm.pc \in {"none", "created"} THEN unwinding
                    ELSE unwinding \cup {llm.gen}

\* The LLM task ends by itself.
LlmDone == llm' = NoTask

\* A worker loop tests is_active before it waits for the next item.
AfterItem(w) == workers' = IF call = "active" THEN workers ELSE workers \ {w}

-----------------------------------------------------------------------------
(* Initial state *)

\* A cached greeting is queued before anything else can happen.
Greeted == Emit(Emit(<<>>, "audio", 1), "end", 1)

Init ==
    /\ call = "active"
    /\ workers = {"llm", "tts"}
    /\ IF GreetingCached
       THEN /\ greeting = "done" /\ evQ = Greeted /\ tail = TRUE
            /\ cur = 2 /\ state = "LISTENING"
       ELSE /\ greeting = "synthesizing" /\ evQ = <<>> /\ tail = FALSE
            /\ cur = 1 /\ state = "IDLE"
    /\ answered = FALSE /\ handled = FALSE
    /\ token = {} /\ cancelled = {} /\ postBarge = {}
    /\ inSpeech = FALSE
    /\ active = None /\ bot = FALSE
    /\ transcribing = [t \in Turns |-> 0]
    /\ routing = [t \in Turns |-> 0]
    /\ llmQ = <<>> /\ llm = NoTask /\ unwinding = {}
    /\ ttsQ = <<>> /\ tts = Idle
    /\ handoff = "IDLE" /\ requested = FALSE /\ gateway = "none"

-----------------------------------------------------------------------------
(* Caller audio: _vad_worker and TurnManager.handle_speech_frame *)

\* Caller speech confirmed over playback: cancel, flush, rotate the turn.
BargeIn ==
    /\ call = "active"
    /\ Playing /\ (~handled \/ active # None)
    /\ cancelled' = cancelled \cup Invalidated
    /\ token' = token \cup {cur}
    /\ NewTurn("LISTENING_AFTER_BARGE_IN", FALSE, TRUE)
    /\ postBarge' = postBarge \cup {cur + 1}
    /\ active' = None /\ bot' = FALSE /\ tail' = FALSE
    /\ inSpeech' = TRUE
    /\ CancelLlm
    /\ evQ' = Retained(Emit(evQ, "cancelled", cur))
    /\ llmQ' = <<>> /\ ttsQ' = <<>>
    /\ UNCHANGED <<call, workers, sttVars, tts, greeting, handoffVars>>

\* Speech onset with nothing playing: a used turn is replaced, not cancelled.
TurnIsUsed == \/ answered \/ cur \in token
              \/ state \in {"INTERRUPTED", "IDLE", "PROCESSING", "SPEAKING"}

SpeechStart ==
    /\ call = "active"
    /\ ~Playing /\ ~inSpeech
    /\ inSpeech' = TRUE
    /\ IF TurnIsUsed
       THEN NewTurn("LISTENING", FALSE, FALSE)
       ELSE state' = "LISTENING" /\ UNCHANGED <<cur, answered, handled>>
    /\ UNCHANGED <<call, workers, token, cancelled, postBarge, evQ, greeting, playVars, sttVars, llmVars, ttsVars,
                   handoffVars>>

\* Endpoint reached: a noise burst is dropped, anything else is transcribed.
SpeechEnd ==
    /\ call = "active"
    /\ ~Playing /\ inSpeech
    /\ inSpeech' = FALSE
    /\ \/ /\ state' = "LISTENING"
          /\ UNCHANGED transcribing
       \/ /\ transcribing[cur] < MaxSttTasks
          /\ state' = "PROCESSING"
          /\ transcribing' = [transcribing EXCEPT ![cur] = @ + 1]
    /\ UNCHANGED <<call, workers, cur, token, cancelled, answered, postBarge,
                   handled, routing, evQ, greeting, playVars, llmVars,
                   ttsVars, handoffVars>>

\* The duration limit: the VAD loop ends, nothing is closed or reported.
Expire ==
    /\ DurationLimited
    /\ call = "active"
    /\ call' = "expired"
    /\ UNCHANGED <<workers, inSpeech, evQ, greeting, turnVars, playVars,
                   sttVars, llmVars, ttsVars, handoffVars>>

-----------------------------------------------------------------------------
(* STT tasks: _process_stt_turn.  Every outcome writes the turn that is     *)
(* current when the transcript arrives, whichever turn was transcribed.     *)

SttEnds(t) ==
    /\ transcribing[t] > 0
    /\ transcribing' = [transcribing EXCEPT ![t] = @ - 1]
    /\ UNCHANGED <<call, workers, cur, token, cancelled, postBarge, handled,
                   inSpeech, playVars, evQ, tts, greeting>>

Transcribed(t) == t \notin token /\ SttEnds(t)

SttAbandoned(t) ==
    /\ t \in token
    /\ SttEnds(t)
    /\ UNCHANGED <<state, answered, routing, llmVars, ttsQ, handoffVars>>

\* A filler, an inaudible fragment or a number that is not complete yet.
SttIgnored(t) ==
    /\ Transcribed(t)
    /\ state' = "LISTENING"
    /\ UNCHANGED <<answered, routing, llmVars, ttsQ, handoffVars>>

\* Nothing audible in a turn that does not follow a barge-in.
AfterBargeIn == cur \in postBarge \/ state = "LISTENING_AFTER_BARGE_IN"

SttClarify(t) ==
    /\ Transcribed(t)
    /\ ~AfterBargeIn
    /\ IF call = "active"
       THEN /\ Say("clarification", t)
            /\ answered' = TRUE
            /\ UNCHANGED state
       ELSE /\ state' = "IDLE"
            /\ UNCHANGED <<answered, ttsQ>>
    /\ UNCHANGED <<routing, llmVars, handoffVars>>

\* The transcript is recorded and answered at once.
Answer(t) ==
    /\ Transcribed(t)
    /\ Say("text", t)
    /\ answered' = TRUE
    /\ state' = "PROCESSING"
    /\ UNCHANGED routing

\* During a transfer only a cancellation phrase is understood.
SttHeld(t) ==
    /\ handoff = "AWAITING_TRANSFER"
    /\ Transcribed(t)
    /\ answered' = TRUE
    /\ state' = "IDLE"
    /\ UNCHANGED <<routing, llmVars, ttsQ, handoffVars>>

SttCancelsTransfer(t) ==
    /\ handoff = "AWAITING_TRANSFER"
    /\ Answer(t)
    /\ handoff' = "IDLE"
    /\ UNCHANGED <<llmVars, requested, gateway>>

SttRequestsHandoff(t) ==
    /\ handoff = "IDLE" /\ ~requested /\ MaxHandoffs > 0
    /\ Answer(t)
    /\ CancelLlm
    /\ handoff' = "AWAITING_TRANSFER" /\ requested' = TRUE
    \* the request may find the event queue full, or be flushed out of it
    /\ gateway' \in {"none", "ack"}
    /\ UNCHANGED llmQ

\* A language choice, or a question about an unclear handoff request.
SttDirect(t) ==
    /\ handoff # "AWAITING_TRANSFER"
    /\ Answer(t)
    /\ CancelLlm
    /\ UNCHANGED <<llmQ, handoffVars>>

SttRoute(t) ==
    /\ handoff # "AWAITING_TRANSFER"
    /\ Transcribed(t)
    /\ routing[t] < MaxSttTasks
    /\ answered' = TRUE
    /\ routing' = [routing EXCEPT ![t] = @ + 1]
    /\ UNCHANGED <<state, llmVars, ttsQ, handoffVars>>

RouterReturns(t) ==
    /\ routing[t] > 0
    /\ routing' = [routing EXCEPT ![t] = @ - 1]
    /\ UNCHANGED <<call, workers, cur, token, cancelled, postBarge, handled,
                   inSpeech, playVars, transcribing, evQ, tts, greeting,
                   handoffVars>>

\* The router knows the answer: no look at the token, it may be cancelled.
SttFast(t) ==
    /\ RouterReturns(t)
    /\ CancelLlm
    /\ Say("text", t)
    /\ answered' = TRUE
    /\ state' = "PROCESSING"
    /\ UNCHANGED llmQ

SttToLlm(t) ==
    /\ RouterReturns(t)
    /\ Len(llmQ) < LlmQueueSize
    /\ llmQ' = Append(llmQ, t)
    /\ UNCHANGED <<state, answered, llm, unwinding, ttsQ>>

\* The except clause: its item has no "delta".
Recover(t) ==
    IF t \notin token /\ call = "active"
    THEN /\ Len(ttsQ) < TtsQueueSize
         /\ ttsQ' = Append(ttsQ, Item("malformed", t))
         /\ UNCHANGED state
    ELSE /\ state' = "IDLE"
         /\ UNCHANGED ttsQ

SttFails(t) ==
    /\ \/ SttEnds(t) /\ UNCHANGED <<routing, handoffVars>>
       \/ RouterReturns(t)
    /\ Recover(t)
    /\ UNCHANGED <<answered, llmVars>>

-----------------------------------------------------------------------------
(* LLM: _llm_worker and the task it spawns *)

LlmTake ==
    /\ "llm" \in workers /\ llmQ # <<>>
    /\ llmQ' = Tail(llmQ)
    /\ IF Stale(Head(llmQ))
       THEN /\ state' = Unprocess(cur)
            /\ UNCHANGED <<llm, unwinding>>
       ELSE /\ llm' = [pc |-> "created", gen |-> Head(llmQ), turn |-> None]
            /\ unwinding' = IF llm.pc \in {"none", "created"} THEN unwinding
                            ELSE unwinding \cup {llm.gen}
            /\ UNCHANGED state
    /\ AfterItem("llm")
    /\ UNCHANGED <<call, cur, token, cancelled, answered, postBarge, handled,
                   inSpeech, evQ, greeting, playVars, sttVars, ttsVars,
                   handoffVars>>

\* What no step of the LLM task changes.
LlmFrame == UNCHANGED <<call, workers, cur, token, cancelled, postBarge, handled,
                        inSpeech, evQ, greeting, playVars, sttVars, llmQ,
                        tts, handoffVars>>

\* The task marks the turn that is current now, not the one it answers.
LlmStart ==
    /\ llm.pc = "created"
    /\ llm' = [llm EXCEPT !.pc = "thinking", !.turn = cur]
    /\ state' = "PROCESSING"
    /\ UNCHANGED <<unwinding, answered, ttsQ>> /\ LlmFrame

\* The router's second look finds the answer; cancellation is not tested.
LlmFast ==
    /\ llm.pc = "thinking"
    /\ Say("text", llm.gen)
    /\ answered' = Answered(llm.turn)
    /\ LlmDone
    /\ UNCHANGED <<unwinding, state>> /\ LlmFrame

\* The router had no answer and the prompt is assembled.
LlmAssembled ==
    /\ llm.pc = "thinking"
    /\ IF Stale(llm.gen)
       THEN state' = Unprocess(llm.turn) /\ LlmDone
       ELSE llm' = [llm EXCEPT !.pc = "streaming"] /\ UNCHANGED state
    /\ UNCHANGED <<unwinding, answered, ttsQ>> /\ LlmFrame

LlmChunk ==
    /\ llm.pc = "streaming" /\ ~Stale(llm.gen)
    /\ Len(ttsQ) < TtsQueueSize
    /\ ttsQ' = Append(ttsQ, Item("text", llm.gen))
    /\ UNCHANGED <<llm, unwinding, state, answered>> /\ LlmFrame

LlmFinish ==
    /\ llm.pc = "streaming"
    /\ IF Stale(llm.gen)
       THEN /\ state' = Unprocess(llm.turn)
            /\ UNCHANGED <<answered, ttsQ>>
       ELSE /\ Len(ttsQ) < TtsQueueSize
            /\ ttsQ' = Append(ttsQ, Item("eof", llm.gen))
            /\ answered' = Answered(llm.turn)
            /\ UNCHANGED state
    /\ LlmDone
    /\ UNCHANGED unwinding /\ LlmFrame

\* The 4.5 s deadline or a provider error: a recovery prompt is spoken.
LlmFails ==
    /\ llm.pc \in {"thinking", "streaming"}
    /\ state' = Unprocess(llm.turn)
    /\ IF Stale(llm.gen) THEN UNCHANGED ttsQ ELSE Say("text", llm.gen)
    /\ LlmDone
    /\ UNCHANGED <<unwinding, answered>> /\ LlmFrame

\* An error outside the provider calls ends the task without a prompt.
LlmCrashes ==
    /\ llm.pc = "thinking"
    /\ state' = Unprocess(cur)
    /\ LlmDone
    /\ UNCHANGED <<unwinding, answered, ttsQ>> /\ LlmFrame

\* CancelledError reaches the cancelled task, which writes the current turn.
LlmUnwinds(t) ==
    /\ t \in unwinding
    /\ unwinding' = unwinding \ {t}
    /\ state' = Unprocess(cur)
    /\ UNCHANGED <<llm, answered, ttsQ>> /\ LlmFrame

-----------------------------------------------------------------------------
(* TTS: _tts_worker and the text_streamer its provider pulls from *)

TtsReady == "tts" \in workers /\ tts.pc = "idle" /\ ttsQ # <<>>

\* Mutant: the gate asks the token only, not the cancelled generations.
RefusedByToken(item) ==
    \/ item.gen \in token \/ item.kind = "eof"
    \/ call # "active"
    \/ state = "LISTENING_AFTER_BARGE_IN"

\* The two filters before synthesis.
Refused(item) ==
    \/ item.gen \in token \/ item.kind = "eof"
    \/ call # "active"
    \/ item.gen \in cancelled
    \/ state = "LISTENING_AFTER_BARGE_IN"

TtsSkip ==
    /\ TtsReady /\ Head(ttsQ).kind # "malformed"
    /\ Refused(Head(ttsQ))
    /\ ttsQ' = Tail(ttsQ)
    /\ AfterItem("tts")
    /\ UNCHANGED <<call, inSpeech, evQ, greeting, tts, turnVars, playVars,
                   sttVars, llmVars, handoffVars>>

\* item["delta"] raises KeyError outside any try: the worker loop ends.
TtsDies ==
    /\ TtsReady /\ Head(ttsQ).kind = "malformed"
    /\ ttsQ' = Tail(ttsQ)
    /\ workers' = workers \ {"tts"}
    /\ UNCHANGED <<call, inSpeech, evQ, greeting, tts, turnVars, playVars,
                   sttVars, llmVars, handoffVars>>

\* Mutant: the interruption stays disarmed.
TakesFloorDisarmed(t) ==
    /\ state' = "SPEAKING"
    /\ bot' = TRUE /\ active' = t
    /\ UNCHANGED handled

\* A generation takes the floor, whatever turn is current, and the caller may
\* interrupt it again.
TakesFloor(t) ==
    /\ state' = "SPEAKING"
    /\ handled' = FALSE
    /\ bot' = TRUE /\ active' = t

\* The head of the queue passes both filters and takes the floor.
TtsTakes(item) ==
    /\ TtsReady /\ item = Head(ttsQ) /\ item.kind # "malformed"
    /\ ~Refused(item)
    /\ TakesFloor(item.gen)
    /\ UNCHANGED <<call, cur, token, cancelled, answered, postBarge, inSpeech,
                   greeting, sttVars, llmVars, handoffVars>>

TtsStream(item) ==
    /\ TtsTakes(item)
    /\ ttsQ' = Tail(ttsQ)
    /\ tts' = [pc |-> "stream", gen |-> item.gen, turn |-> cur, open |-> TRUE]
    /\ UNCHANGED <<workers, evQ, tail>>

\* Cached audio is queued whole.  The next item, whatever it is, is then taken
\* for the end marker: at once if it is there, else it is waited for.
TtsCached(item) ==
    /\ TtsTakes(item)
    /\ tail' = TRUE
    /\ IF Len(ttsQ) > 1
       THEN /\ ttsQ' = Tail(Tail(ttsQ))
            /\ evQ' = Emit(Emit(evQ, "audio", item.gen), "end", item.gen)
            /\ AfterItem("tts")
            /\ UNCHANGED tts
       ELSE /\ ttsQ' = <<>>
            /\ evQ' = Emit(evQ, "audio", item.gen)
            /\ tts' = [pc |-> "drain", gen |-> item.gen, turn |-> cur, open |-> FALSE]
            /\ UNCHANGED workers

TtsStart == ttsQ # <<>> /\ (TtsStream(Head(ttsQ)) \/ TtsCached(Head(ttsQ)))

\* The item came, or 50 ms passed; response.end follows in either case.
TtsDrained ==
    /\ tts.pc = "drain"
    /\ ttsQ' \in {ttsQ, IF ttsQ = <<>> THEN ttsQ ELSE Tail(ttsQ)}
    /\ evQ' = Emit(evQ, "end", tts.gen)
    /\ tts' = Idle
    /\ AfterItem("tts")
    /\ UNCHANGED <<call, inSpeech, greeting, turnVars, playVars, sttVars,
                   llmVars, handoffVars>>

\* text_streamer takes an item: another generation's is lost, the character
\* budget may cut the response short.
Pulls(item) == item.kind \in {"text", "clarification"}
               /\ item.gen \notin token /\ item.gen = tts.gen

TtsPull ==
    /\ tts.pc = "stream" /\ tts.open /\ ttsQ # <<>>
    /\ ttsQ' = Tail(ttsQ)
    /\ \E more \in IF Pulls(Head(ttsQ)) THEN BOOLEAN ELSE {FALSE} :
          tts' = [tts EXCEPT !.open = more]
    /\ UNCHANGED <<call, workers, inSpeech, evQ, greeting, turnVars,
                   playVars, sttVars, llmVars, handoffVars>>

\* No text for 2 s.
TtsTextTimeout ==
    /\ tts.pc = "stream" /\ tts.open
    /\ tts' = [tts EXCEPT !.open = FALSE]
    /\ UNCHANGED <<call, workers, inSpeech, evQ, greeting, ttsQ, turnVars,
                   playVars, sttVars, llmVars, handoffVars>>

\* A synthesized frame of a generation that still owns the playback.
TtsFrame ==
    /\ tts.pc = "stream"
    /\ ~Stale(tts.gen) /\ active = tts.gen
    /\ tail' = TRUE
    /\ evQ' = Emit(evQ, "audio", tts.gen)
    /\ UNCHANGED <<call, workers, inSpeech, greeting, turnVars, active, bot,
                   sttVars, llmVars, ttsVars, handoffVars>>

\* Mutant: a cancelled stream is waited for.
StreamOverLive == ~tts.open /\ ~Stale(tts.gen)

\* No text is left, or a frame comes for a generation that is cancelled or no
\* longer owns the playback.
StreamOver == ~tts.open \/ Stale(tts.gen) \/ active # tts.gen

\* The stream ends.
TtsFinish ==
    /\ tts.pc = "stream" /\ StreamOver
    /\ IF Stale(tts.gen)
       THEN /\ state' = Mark(tts.turn, "INTERRUPTED")
            /\ bot' = FALSE /\ active' = None /\ tail' = FALSE
            /\ UNCHANGED evQ
       ELSE /\ evQ' = Emit(evQ, "end", tts.gen)
            /\ UNCHANGED <<state, playVars>>
    /\ tts' = Idle
    /\ AfterItem("tts")
    /\ UNCHANGED <<call, cur, token, cancelled, answered, postBarge, handled,
                   inSpeech, greeting, ttsQ, sttVars, llmVars, handoffVars>>

\* The 8 s deadline or a provider error.
TtsFails ==
    /\ tts.pc = "stream"
    /\ state' = Mark(tts.turn, "LISTENING")
    /\ bot' = FALSE /\ active' = None /\ tail' = FALSE
    /\ tts' = Idle
    /\ AfterItem("tts")
    /\ UNCHANGED <<call, cur, token, cancelled, answered, postBarge, handled,
                   inSpeech, evQ, greeting, ttsQ, sttVars, llmVars,
                   handoffVars>>

-----------------------------------------------------------------------------
(* Writer, physical playout, greeting, gateway commands, shutdown *)

\* event_writer_loop with mark_playback_finished.
Writer ==
    /\ call # "closed" /\ evQ # <<>>
    /\ LET kind     == Head(evQ).kind
           marks    == kind \in {"cancelled", "end"}
           finished == marks /\ (kind = "cancelled" \/ ~tail)
       IN  /\ active' = IF marks THEN None ELSE active
           /\ bot'  = (bot /\ ~finished)
           /\ tail' = (tail /\ ~finished)
           /\ state' = IF finished /\ state \in {"SPEAKING", "IDLE"}
                       THEN "LISTENING" ELSE state
    /\ evQ' = Tail(evQ)
    /\ UNCHANGED <<call, workers, cur, token, cancelled, answered, postBarge,
                   handled, inSpeech, greeting, sttVars, llmVars, ttsVars,
                   handoffVars>>

\* The estimated end of the playout passes.
PlayoutEnds ==
    /\ tail
    /\ tail' = FALSE
    /\ UNCHANGED <<call, workers, inSpeech, evQ, greeting, turnVars, active,
                   bot, sttVars, llmVars, ttsVars, handoffVars>>

\* The greeting is synthesized: queue it unless turn 1 was cancelled, clear the
\* playback flags, forget speech in progress and open a fresh turn.
GreetingDone ==
    /\ greeting = "synthesizing" /\ call # "closed"
    /\ greeting' = "done"
    /\ IF Stale(1) THEN UNCHANGED <<evQ, tail>>
       ELSE /\ evQ' = Emit(Emit(evQ, "audio", 1), "end", 1)
            /\ tail' = TRUE
    /\ active' = None /\ bot' = FALSE
    /\ inSpeech' = FALSE
    /\ NewTurn("LISTENING", FALSE, FALSE)
    /\ UNCHANGED <<call, workers, token, cancelled, postBarge, sttVars, llmVars, ttsVars, handoffVars>>

\* handle_handoff_acknowledged: no guard on the present handoff state.
HandoffAcknowledged ==
    /\ call # "closed" /\ gateway = "ack"
    /\ gateway' = "answer"
    /\ handoff' = "AWAITING_TRANSFER"
    /\ CancelLlm
    /\ UNCHANGED <<call, workers, inSpeech, evQ, greeting, requested, llmQ,
                   turnVars, playVars, sttVars, ttsVars>>

\* handle_handoff_fallback: the apology is a new turn of its own.
HandoffFallback ==
    /\ call # "closed" /\ gateway # "none"
    /\ gateway' = "none"
    /\ handoff' = "IDLE"
    /\ NewTurn("PROCESSING", TRUE, FALSE)
    /\ Say("text", cur + 1)
    /\ UNCHANGED <<call, workers, token, cancelled, postBarge, inSpeech, evQ, tts,
                   greeting, requested, playVars, sttVars, llmVars>>

\* stop: close the session, flush, cancel the worker tasks.  STT tasks are not
\* among them and run on.
Stop ==
    /\ call # "closed"
    /\ call' = "closed"
    /\ cancelled' = cancelled \cup Invalidated
    /\ token' = token \cup {cur}
    /\ state' = "INTERRUPTED"
    /\ active' = None /\ bot' = FALSE /\ tail' = FALSE
    /\ CancelLlm
    /\ llmQ' = <<>> /\ ttsQ' = <<>>
    /\ evQ' = Retained(evQ)
    /\ workers' = {} /\ tts' = Idle
    /\ UNCHANGED <<cur, answered, postBarge, handled, inSpeech, greeting,
                   sttVars, handoffVars>>

-----------------------------------------------------------------------------
(* Specification *)

Caller  == BargeIn \/ SpeechStart \/ SpeechEnd
Stt(t)  == \/ SttAbandoned(t) \/ SttIgnored(t) \/ SttClarify(t) \/ SttHeld(t)
           \/ SttCancelsTransfer(t) \/ SttRequestsHandoff(t) \/ SttDirect(t)
           \/ SttRoute(t) \/ SttFast(t) \/ SttToLlm(t) \/ SttFails(t)
Llm     == \/ LlmTake \/ LlmStart \/ LlmFast \/ LlmAssembled
           \/ LlmChunk \/ LlmFinish \/ LlmFails \/ LlmCrashes
           \/ \E t \in Turns : LlmUnwinds(t)
Tts     == \/ TtsSkip \/ TtsDies \/ TtsStart \/ TtsDrained \/ TtsPull
           \/ TtsTextTimeout \/ TtsFrame \/ TtsFinish \/ TtsFails
Gateway == HandoffAcknowledged \/ HandoffFallback

Next == \/ Caller \/ Expire
        \/ \E t \in Turns : Stt(t)
        \/ Llm \/ Tts
        \/ Writer \/ PlayoutEnds \/ GreetingDone
        \/ Gateway \/ Stop

\* The event loop runs every task that is ready and every timer that is due;
\* the caller, the gateway and the providers' answers owe nothing.
Fairness ==
    /\ WF_vars(Writer)
    /\ WF_vars(PlayoutEnds)
    /\ WF_vars(TtsSkip \/ TtsDies \/ TtsStart)
    /\ WF_vars(TtsDrained)
    /\ WF_vars(TtsPull \/ TtsTextTimeout)
    /\ WF_vars(TtsFinish)

Spec == Init /\ [][Next]_vars /\ Fairness

-----------------------------------------------------------------------------
(* Properties *)

TypeOK ==
    /\ call \in {"active", "expired", "closed"}
    /\ workers \subseteq {"llm", "tts"}
    /\ cur \in Turns /\ state \in TurnStates
    /\ answered \in BOOLEAN /\ handled \in BOOLEAN
    /\ token \subseteq Turns /\ cancelled \subseteq Turns
    /\ postBarge \subseteq Turns
    /\ inSpeech \in BOOLEAN
    /\ active \in Turns \cup {None} /\ bot \in BOOLEAN /\ tail \in BOOLEAN
    /\ transcribing \in [Turns -> 0 .. MaxSttTasks]
    /\ routing \in [Turns -> 0 .. MaxSttTasks]
    /\ llmQ \in Seq(Turns) /\ Len(llmQ) <= LlmQueueSize
    /\ llm \in LlmTasks /\ unwinding \subseteq Turns
    /\ ttsQ \in Seq([kind : TextItems, gen : Turns])
    /\ Len(ttsQ) <= TtsQueueSize
    /\ tts \in TtsWork
    /\ evQ \in Seq([kind : EventKinds, gen : Turns])
    /\ Len(evQ) <= EventQueueSize
    /\ greeting \in {"synthesizing", "done"}
    /\ handoff \in HandoffStates /\ requested \in BOOLEAN
    /\ gateway \in {"none", "ack", "answer"}

\* No audio of a cancelled generation waits to be sent: the flush of a
\* barge-in and every producer's check together leave no gap.
NoCancelledAudio ==
    \A i \in DOMAIN evQ : evQ[i].kind = "audio" => evQ[i].gen \notin cancelled

\* Playback never belongs to a cancelled generation, also when a transcript
\* arrives after the barge-in that cancelled its turn.
PlaybackIsLive == active \notin cancelled

\* Until the session closes the turn that hears the caller is not cancelled.
CurrentTurnIsLive == call # "closed" => cur \notin token \cup cancelled

\* A caller who has just interrupted hears nothing: nothing plays, no audio is
\* queued and the speech is being collected.
SilentAfterBargeIn ==
    state = "LISTENING_AFTER_BARGE_IN" =>
        /\ ~Playing /\ inSpeech
        /\ \A i \in DOMAIN evQ : evQ[i].kind # "audio"

\* While something plays the caller can interrupt it: the flag that makes the
\* turn manager ignore caller frames is never left from an earlier barge-in.
NeverDeaf == call = "active" /\ Playing => ~handled

\* What is queued behind the flush of an interruption belongs to a later turn
\* than the interrupted one: nothing the flush was sent for follows it.  Only
\* the greeting may, which a caller can overtake (see BargeInCancelsAll).
FlushIsFinal ==
    \A i, j \in DOMAIN evQ :
        i < j /\ evQ[i].kind = "cancelled" /\ evQ[j].kind = "audio"
            => evQ[j].gen > evQ[i].gen \/ evQ[j].gen = 1

\* The pipeline keeps the promise of PlaybackFloor: a generation takes the
\* playback only while it is not cancelled, an interruption cancels what the
\* call has produced and a closed session plays nothing.
Floor == INSTANCE PlaybackFloor WITH
             newest <- cur, floor <- active,
             silenced <- cancelled, over <- (call = "closed")
FloorIsKept == Floor!Spec

\* Text and playback of a cancelled generation leave the TTS stage, unless
\* the TTS worker has ended.
AtTts(t) == \/ tts.pc # "idle" /\ tts.gen = t
            \/ \E i \in DOMAIN ttsQ : ttsQ[i].gen = t
CancelledSpeechDrains ==
    \A t \in Turns : (t \in cancelled /\ AtTts(t))
                         ~> (~AtTts(t) \/ "tts" \notin workers)

=============================================================================
