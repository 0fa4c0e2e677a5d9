---------------------------- MODULE SpeechToText ----------------------------
(***************************************************************************)
(* The streaming speech-to-text session of one call                        *)
(* (voice-engine/app/stt/sarvam.py) and its two users in the engine: the   *)
(* VAD worker, which resets it at the start of an utterance and pushes     *)
(* audio, and the task of each utterance, which asks for its transcript.   *)
(* Audio goes through a bounded queue and a sender to the provider's       *)
(* WebSocket; a receiver keeps what comes back.  An utterance is answered  *)
(* from the stream if that looks healthy and in time, by a batch request   *)
(* of its whole audio otherwise.  Texts are only told apart as there or    *)
(* not.                                                                    *)
(***************************************************************************)
EXTENDS Naturals, Sequences, FiniteSets, SequencesExt

CONSTANTS
    MaxUtterances,   \* utterances of the caller
    MaxChunks,       \* audio frames of an utterance
    QueueSize,       \* maxsize of the audio queue: 50 in the code
    MaxMessages,     \* messages of the provider on their way
    Permits,         \* batch requests at a time: 5 in the code
    MaxAttempts      \* tries of a batch request: 5 in the code

ASSUME SpeechToTextAssumption ==
    /\ {MaxUtterances, MaxChunks, QueueSize, Permits, MaxAttempts} \subseteq Nat \ {0}
    /\ MaxMessages \in Nat

VARIABLES
    \* the caller and the engine
    utterance,   \* the latest utterance, 0 before the first
    chunks,      \* how many frames of it were spoken
    speaking,    \* it has not ended
    turn,        \* the turn id of every utterance
    listening,   \* current_turn is LISTENING or LISTENING_AFTER_BARGE_IN
    transcribed, \* current_turn.raw_transcript or generated_text is set
    at,          \* how far the answer to each utterance is
    attempts,    \* batch requests made for each utterance
    \* the session
    current,     \* _current_turn_id, 0 if None
    queue,       \* _audio_queue
    connected, degraded, closed,   \* _is_connected, _is_degraded, _closed
    sender, hand,     \* what the sender does, and the frame it holds
    receiver,         \* "none", "listening" or "done"
    interim, final,   \* a transcript is there
    finalEvent,       \* _final_event
    \* the provider's WebSocket
    socket,      \* "none", "up" or "down"
    heard,       \* audio reached the provider on it
    messages,    \* on their way to the receiver
    \* history
    gone,        \* frames that were sent, found no room or failed to be sent
    shared,      \* another utterance of the same turn id still used the session
                 \* when the latest began
    own          \* frames it can have before an answer takes the turn from it

caller == <<utterance, chunks, speaking, turn, listening, transcribed, shared, own>>
transcripts == <<interim, final, finalEvent>>
link == <<connected, degraded, receiver, socket, heard, messages>>
sending == <<sender, hand>>
vars == <<caller, at, attempts, current, queue, closed, sending, transcripts,
          link, gone>>

Utterances == 1 .. MaxUtterances
NoFrame == <<0, 0>>

\* Frames whose fate is known, as far as they are of the latest utterance.
Known(f) == IF f[1] = utterance THEN gone \cup {f} ELSE gone

Init ==
    /\ utterance = 0 /\ chunks = 0 /\ speaking = FALSE
    /\ turn = [u \in Utterances |-> 0]
    /\ listening = FALSE /\ transcribed = FALSE
    /\ at = [u \in Utterances |-> "no"]
    /\ attempts = [u \in Utterances |-> 0]
    /\ current = 0 /\ queue = <<>>
    /\ connected = FALSE /\ degraded = FALSE /\ closed = FALSE
    /\ sender = "get" /\ hand = NoFrame /\ receiver = "none"
    /\ interim = FALSE /\ final = FALSE /\ finalEvent = FALSE
    /\ socket = "none" /\ heard = FALSE /\ messages = <<>>
    /\ gone = {} /\ shared = FALSE /\ own = MaxChunks

-----------------------------------------------------------------------------
(* The engine's VAD worker                                                 *)

\* push_audio never waits: a frame that finds no room marks the stream.
Pushes(f) ==
    IF Len(queue) < QueueSize
    THEN queue' = Append(queue, f) /\ UNCHANGED <<degraded, gone>>
    ELSE degraded' = TRUE /\ gone' = Known(f) /\ UNCHANGED queue

\* What a reset makes of the marks: what happened to the stream before does
\* not count for the new turn, if it is connected.
Forgiven == degraded /\ ~connected

\* SPEECH_STARTED or BARGE_IN.  A turn that is still LISTENING, because its last
\* utterance came to nothing, is spoken into again under the same id; a barge-in
\* opens a turn of its own and cancels the tasks that have not begun.  An
\* utterance that goes on over a response, or was begun before the greeting had
\* been played, is given up without an end of its own.
SpeechStarts ==
    /\ utterance < MaxUtterances /\ ~closed
    /\ \E bargeIn \in BOOLEAN :
         LET u == utterance + 1
             t == IF utterance > 0 /\ listening /\ ~transcribed /\ ~bargeIn
                  THEN turn[utterance] ELSE u
         IN  /\ utterance' = u /\ chunks' = 1 /\ speaking' = TRUE
             /\ turn' = [turn EXCEPT ![u] = t]
             /\ listening' = TRUE /\ transcribed' = FALSE
             /\ current' = t
             /\ at' = [v \in Utterances |->
                         IF v = u THEN "speaking"
                         ELSE IF at[v] = "speaking" THEN "answered"
                         ELSE IF bargeIn /\ at[v] = "ended" THEN "answered"
                         ELSE at[v]]
             /\ interim' = FALSE /\ final' = FALSE /\ finalEvent' = FALSE
             /\ shared' = \E v \in 1 .. utterance :
                            turn[v] = t /\ at[v] \in {"ended", "flush", "wait", "woken"}
             /\ queue' = <<<<u, 1>>>> /\ gone' = {} /\ own' = MaxChunks
    /\ degraded' = Forgiven
    /\ UNCHANGED <<attempts, closed, sending, connected, receiver, socket,
                   heard, messages>>

\* A frame is pushed as long as the current turn listens: what the caller says
\* after a late answer or a response has taken it reaches nobody.
Speaks ==
    /\ speaking /\ chunks < MaxChunks /\ ~closed
    /\ chunks' = chunks + 1
    /\ IF listening THEN Pushes(<<utterance, chunks + 1>>)
       ELSE UNCHANGED <<queue, degraded, gone>>
    /\ UNCHANGED <<utterance, speaking, turn, listening, transcribed, shared, own, at, attempts,
                   current, closed, sending, transcripts, connected, receiver,
                   socket, heard, messages>>

\* SPEECH_ENDED: too little voice is taken for noise, anything else gets a task.
SpeechEnds ==
    /\ speaking /\ ~closed /\ speaking' = FALSE /\ own' = MaxChunks
    /\ \E noise \in BOOLEAN :
         /\ listening' = noise
         /\ at' = [at EXCEPT ![utterance] = IF noise THEN "answered" ELSE "ended"]
    /\ UNCHANGED <<utterance, chunks, turn, transcribed, shared, attempts, current, queue,
                   closed, sending, transcripts, link, gone>>

-----------------------------------------------------------------------------
(* The sender and the receiver                                             *)

\* The frame it takes is in no queue any more, and a reset does not reach it.
SenderTakes ==
    /\ sender = "get" /\ queue # <<>>
    /\ hand' = Head(queue) /\ queue' = Tail(queue)
    /\ sender' = IF connected THEN "send" ELSE "connect"
    /\ socket' = IF connected THEN socket ELSE "none"
    /\ UNCHANGED <<caller, at, attempts, current, closed, transcripts, connected,
                   degraded, receiver, heard, messages, gone>>

\* Mutant: a receiver is started once only.
NeedsFirstReceiver == receiver = "none"

\* One that ended with its connection is replaced.
NeedsReceiver == receiver # "listening"

\* A connection clears the mark of the stream, whatever left it.  Closing the old
\* socket has ended its receiver long before the new handshake is through.
Connects ==
    /\ sender = "connect" /\ receiver # "listening"
    /\ connected' = TRUE /\ degraded' = FALSE /\ socket' = "up"
    /\ heard' = FALSE /\ messages' = <<>>
    /\ receiver' = IF NeedsReceiver THEN "listening" ELSE receiver
    /\ sender' = "send"
    /\ UNCHANGED <<caller, at, attempts, current, queue, closed, hand, transcripts,
                   gone>>

FailsToConnect ==
    /\ sender = "connect"
    /\ connected' = FALSE /\ degraded' = TRUE /\ socket' = "none"
    /\ gone' = Known(hand) /\ hand' = NoFrame /\ sender' = "get"
    /\ UNCHANGED <<caller, at, attempts, current, queue, closed, transcripts,
                   receiver, heard, messages>>

\* A socket that is down may take the frame before the loss shows.
Sends ==
    /\ sender = "send" /\ socket # "none"
    /\ gone' = Known(hand) /\ hand' = NoFrame /\ sender' = "get"
    /\ heard' = (heard \/ socket = "up")
    /\ UNCHANGED <<caller, at, attempts, current, queue, closed, transcripts, connected,
                   degraded, receiver, socket, messages>>

FailsToSend ==
    /\ sender = "send" /\ socket # "up"
    /\ gone' = Known(hand) /\ hand' = NoFrame /\ sender' = "get"
    /\ connected' = FALSE /\ degraded' = TRUE
    /\ UNCHANGED <<caller, at, attempts, current, queue, closed, transcripts,
                   receiver, socket, heard, messages>>

\* Whoever waits for the event goes on, even if it is cleared before it does.
Woken == [u \in Utterances |-> IF at[u] = "wait" THEN "woken" ELSE at[u]]

\* The last transcript of either kind is kept, whichever turn it was made of.
Receives ==
    /\ receiver = "listening" /\ messages # <<>>
    /\ messages' = Tail(messages)
    /\ interim' = (interim \/ Head(messages) = "interim")
    /\ final' = (final \/ Head(messages) = "final")
    /\ receiver' = IF connected THEN "listening" ELSE "done"
    /\ finalEvent' = (finalEvent \/ Head(messages) = "final" \/ ~connected)
    /\ at' = IF Head(messages) = "final" \/ ~connected THEN Woken ELSE at
    /\ UNCHANGED <<caller, attempts, current, queue, closed, sending, connected,
                   degraded, socket, heard, gone>>

ReceiverEnds ==
    /\ receiver = "listening" /\ socket # "up"
    /\ receiver' = "done" /\ connected' = FALSE
    /\ finalEvent' = TRUE /\ at' = Woken
    /\ UNCHANGED <<caller, attempts, current, queue, closed, sending, interim, final,
                   degraded, socket, heard, messages, gone>>

-----------------------------------------------------------------------------
(* The provider                                                            *)

\* Transcripts come when they come: after a flush, at a pause the provider found
\* itself, or much later.
ProviderAnswers ==
    /\ socket = "up" /\ heard /\ Len(messages) < MaxMessages
    /\ \E m \in {"interim", "final"} : messages' = Append(messages, m)
    /\ UNCHANGED <<caller, at, attempts, current, queue, closed, sending, transcripts,
                   connected, degraded, receiver, socket, heard, gone>>

ConnectionBreaks ==
    /\ socket = "up" /\ socket' = "down"
    /\ UNCHANGED <<caller, at, attempts, current, queue, closed, sending, transcripts,
                   connected, degraded, receiver, heard, messages, gone>>

-----------------------------------------------------------------------------
(* The answer to an utterance: _process_stt_turn and finalize              *)

Healthy == connected /\ ~degraded /\ socket # "none"

\* Mutant: the session is always reset.
ResetsAnyTurn(u) == TRUE

\* A late answer leaves the session alone when another turn has it.
MayReset(u) == current \in {turn[u], 0}

SafeReset(u) ==
    IF MayReset(u)
    THEN /\ current' = turn[u] /\ queue' = <<>> /\ degraded' = Forgiven
         /\ interim' = FALSE /\ final' = FALSE /\ finalEvent' = FALSE
    ELSE UNCHANGED <<current, queue, degraded, transcripts>>

\* What the transcript is taken for is about the turn that is current by now: a
\* filler lets it listen again, anything else is its transcript, and a cancelled
\* turn's is dropped.
Used ==
    \/ UNCHANGED <<listening, transcribed>>
    \/ listening' = TRUE /\ UNCHANGED transcribed
    \/ transcribed' = TRUE /\ UNCHANGED listening

TaskOnly == UNCHANGED <<utterance, chunks, speaking, turn, shared, own, closed, sending, connected,
                        receiver, socket, heard, messages, gone>>

Goes(u, next) == at' = [at EXCEPT ![u] = next] /\ TaskOnly

\* Answered from the stream if it has a text, asked for as a batch otherwise.
Takes(u, text) ==
    /\ SafeReset(u) /\ UNCHANGED attempts
    /\ IF text THEN Goes(u, "answered") /\ Used
       ELSE Goes(u, "rest") /\ UNCHANGED <<listening, transcribed>>

FinalizeStarts(u) ==
    /\ at[u] = "ended"
    /\ IF Healthy
       THEN /\ Goes(u, "flush")
            /\ UNCHANGED <<listening, transcribed, attempts, current, queue, degraded,
                           transcripts>>
       ELSE Takes(u, FALSE)

\* The flush is sent past the frames that are still in the queue.
Flushes(u) ==
    /\ at[u] = "flush" /\ socket # "none"
    /\ Goes(u, IF finalEvent THEN "woken" ELSE "wait")
    /\ UNCHANGED <<listening, transcribed, attempts, current, queue, degraded,
                   transcripts>>

FlushFails(u) == at[u] = "flush" /\ Takes(u, FALSE)

Wakes(u) == at[u] = "woken" /\ Takes(u, final \/ interim)

\* Mutant: the event is waited for as long as it takes.
NeverTimesOut(u) == FALSE

\* After 200 ms.
TimesOut(u) == at[u] = "wait" /\ Takes(u, interim)

Asking == {u \in Utterances : at[u] = "asking"}

BatchOnly == UNCHANGED <<current, queue, degraded, transcripts>>

BatchStarts(u) ==
    /\ at[u] = "rest" /\ Cardinality(Asking) < Permits
    /\ attempts' = [attempts EXCEPT ![u] = 1]
    /\ Goes(u, "asking") /\ UNCHANGED <<listening, transcribed>> /\ BatchOnly

\* A rate limit, a server error or a transport error is tried again, with the
\* permit held; a client error, or the last of the tries, is an error and no transcript.
BatchEnds(u) ==
    /\ at[u] = "asking" /\ BatchOnly
    /\ \/ /\ attempts[u] < MaxAttempts
          /\ attempts' = [attempts EXCEPT ![u] = @ + 1]
          /\ Goes(u, "asking") /\ UNCHANGED <<listening, transcribed>>
       \/ /\ attempts' = [attempts EXCEPT ![u] = 0]
          /\ Goes(u, "answered") /\ Used

\* What becomes of an answer, in the router, the language model and the playback,
\* sets the state of whichever turn is current, over the caller's speech too.
AnswerGoesOn ==
    /\ utterance > 0 /\ listening' = ~listening
    /\ own' = IF speaking /\ listening /\ chunks < own THEN chunks ELSE own
    /\ UNCHANGED <<utterance, chunks, speaking, turn, transcribed, shared, at, attempts,
                   current, queue, closed, sending, transcripts, link, gone>>

\* close(): the two tasks are cancelled, and the receiver wakes who waits.
Closes ==
    /\ ~closed /\ closed' = TRUE
    /\ connected' = FALSE /\ socket' = "none"
    /\ sender' = "done" /\ hand' = NoFrame
    /\ receiver' = IF receiver = "listening" THEN "done" ELSE receiver
    /\ finalEvent' = (finalEvent \/ receiver = "listening")
    /\ at' = IF receiver = "listening" THEN Woken ELSE at
    /\ UNCHANGED <<caller, attempts, current, queue, interim, final, degraded,
                   heard, messages, gone>>

-----------------------------------------------------------------------------

Stream == SenderTakes \/ Connects \/ FailsToConnect \/ Sends \/ FailsToSend
          \/ Receives \/ ReceiverEnds

Answering(u) ==
    \/ FinalizeStarts(u) \/ Flushes(u) \/ FlushFails(u) \/ Wakes(u) \/ TimesOut(u)
    \/ BatchStarts(u) \/ BatchEnds(u)

Next ==
    \/ SpeechStarts \/ Speaks \/ SpeechEnds \/ AnswerGoesOn
    \/ Stream \/ ProviderAnswers \/ ConnectionBreaks \/ Closes
    \/ \E u \in Utterances : Answering(u)

\* The event loop runs the tasks, timeouts fire, and an HTTP request ends within
\* its own timeout; nothing makes the provider answer on the WebSocket, or the
\* sender get through.
Fairness == \A u \in Utterances : WF_vars(Answering(u))

Spec == Init /\ [][Next]_vars /\ Fairness

-----------------------------------------------------------------------------
(* Properties *)

\* While the stream counts as connected somebody listens to it: otherwise every
\* turn would run into the timeout, with its transcripts never read.
ConnectedIsHeard == connected => receiver = "listening"

\* What a caller says before a late answer or a response takes the turn is not
\* lost without a trace, then or later in the utterance: each frame is in the
\* queue or the sender's hand, was sent, or found no room or no connection.  In
\* particular the reset that ends a late answer does not reach it.  What comes
\* after the turn was taken is not pushed, and a turn id that two utterances
\* share at a time is not protected.
SpeechIsKept ==
    speaking /\ ~closed /\ ~shared =>
    \A i \in 1 .. chunks : i <= own =>
       <<utterance, i>> \in gone \cup {hand} \cup {queue[j] : j \in DOMAIN queue}

\* Every utterance whose task began has its transcript or its failure, whatever
\* the stream, the provider and a close in between do.
UtterancesAreAnswered ==
    \A u \in Utterances : at[u] = "ended" ~> at[u] = "answered"
=============================================================================
