---------------------------- MODULE TurnEvidence ----------------------------
(***************************************************************************)
(* How the voice engine decides, frame by frame, that a caller speaks, has *)
(* stopped, or wants to interrupt: the acoustic features and the voice     *)
(* activity detector give each frame of 20 ms its marks, the turn manager  *)
(* weighs them in a leaky bucket while the assistant can be heard and in   *)
(* two counters while it cannot, and the VAD worker collects the audio of  *)
(* the utterance that is transcribed in the end.                           *)
(*                                                                         *)
(* Frames are numbered; audio is the sequence of the numbers of its        *)
(* frames.  A sound is what the feature extractor measures of a frame:     *)
(* levels in thousandths, shares in percent, frequencies in Hz.            *)
(***************************************************************************)
EXTENDS Integers, Sequences

CONSTANTS
    Sounds,         \* what can be heard in a frame
    OnsetFrames,    \* min_speech_duration_ms           (40 ms: 2)
    NormalSilence,  \* silence that ends an utterance   (350 ms: 18)
    ChoiceSilence,  \* ... while a language is chosen   (350 ms: 18)
    BargeInSilence, \* ... after a barge-in             (400 ms: 20)
    NumericSilence, \* ... while digits are dictated    (1200 ms: 60)
    StrongFrames,   \* strong frames for the fast path  (4)
    StrongConfirm,  \* bucket level it takes then       (8)
    QuietFrames,    \* quiet frames for the quiet path  (6)
    NormalConfirm,  \* bucket level without any hum     (10)
    SlowConfirm,    \* bucket level otherwise           (14)
    HumFrames,      \* hums that make a candidate passive (2)
    RingFrames,     \* capacity of pre_speech_ring_buffer (8)
    PreRoll,        \* frames put before a barge-in     (2)
    MaxFrames       \* bound: frames of a run

Sound == [rms : Nat, vocal : Nat, ratio : Nat, snr : Nat, zcr : Nat,
          pitch : Nat, centroid : Nat, flux : Nat, flatness : Nat,
          crest : Nat, conf : Nat, echo : BOOLEAN, caller : BOOLEAN]

Silences == {NormalSilence, ChoiceSilence, BargeInSilence, NumericSilence}

ASSUME TurnEvidenceAssumption ==
    /\ Sounds \subseteq Sound
    /\ {OnsetFrames, StrongFrames, StrongConfirm, QuietFrames,
        NormalConfirm, SlowConfirm, HumFrames, RingFrames, PreRoll,
        MaxFrames} \cup Silences \subseteq Nat \ {0}
    /\ HumFrames <= SlowConfirm
    /\ StrongFrames <= StrongConfirm
    /\ OnsetFrames <= RingFrames
    /\ \A s \in Silences : RingFrames <= s

-----------------------------------------------------------------------------
(* Features of one frame *)

Hum(s) ==
    /\ s.rms >= 3
    /\ \/ s.centroid < 950 /\ s.zcr < 20 /\ s.pitch >= 25
       \/ s.flux < 15 /\ s.zcr < 22 /\ s.pitch >= 30 /\ s.centroid < 1150

Breath(s) ==
    \/ s.zcr >= 38 /\ s.pitch < 20 /\ s.centroid >= 3000
    \/ s.zcr >= 45 /\ s.pitch < 25

Transient(s) ==
    \/ s.centroid >= 3500 /\ s.pitch < 15 /\ s.zcr < 5
    \/ s.rms > 50 /\ s.pitch < 10 /\ s.centroid >= 3800
    \/ s.crest > 12 /\ s.pitch < 15 /\ s.rms < 40

ValidSpeech(s) ==
    /\ ~s.echo /\ ~Breath(s) /\ ~Transient(s)
    /\ \/ s.ratio >= 60 /\ s.vocal >= 12 /\ (s.pitch >= 20 \/ s.snr >= 3)
       \/ s.pitch >= 25 /\ s.ratio >= 15 /\ s.snr >= 3
       \/ s.ratio >= 40 /\ s.snr >= 6 /\ s.pitch >= 20
       \/ s.rms >= 35 /\ s.pitch >= 25 /\ s.ratio >= 15

\* The extractor's verdict, or the more lenient one of the record's constructor.
Voiced(s) ==
    /\ s.vocal >= 22 \/ s.rms >= 25
    /\ s.pitch >= 35 /\ ~Breath(s) /\ ~Transient(s) /\ ~Hum(s)
    /\ \/ s.flatness <= 38 /\ s.zcr <= 22 /\ s.flux >= 8 /\ s.crest <= 10
       \/ ValidSpeech(s) /\ s.zcr <= 25

\* Whether the detector takes the frame for speech.  "spoke": the frame before
\* was; "onnx": the network gave a result (else the features alone decide).
IsSpeech(s, playing, spoke, onnx) ==
    IF ~onnx THEN ValidSpeech(s)
    ELSE IF s.conf >= (IF playing THEN 45 ELSE 35)
    THEN /\ ~(s.echo /\ s.rms < 40)
         /\ ~(Transient(s) /\ ~spoke)
         /\ ~(Breath(s) /\ s.conf < 70)
    ELSE ValidSpeech(s) /\ (s.conf >= 15 \/ (s.pitch >= 35 /\ s.snr >= 5))

Least(a, b) == IF a < b THEN a ELSE b
Most(a, b)  == IF a < b THEN b ELSE a

Confidence(s, speech, onnx) ==
    IF ~onnx THEN Least(100, s.pitch \div 2 + (5 * Least(s.snr, 20)) \div 2)
    ELSE IF speech /\ ValidSpeech(s) THEN Most(s.conf, 80) ELSE s.conf

-----------------------------------------------------------------------------
(* What the turn manager makes of a frame *)

\* While the assistant can be heard.  A profile of the caller's voice, once
\* there is one, is asked about quiet speech only.
Weighed(s, speech, conf, enrolled) ==
    LET noise  == Breath(s) \/ Transient(s)
        hum    == Hum(s) \/ (s.centroid < 950 /\ s.zcr < 20)
        quiet  == /\ speech /\ ~noise /\ ~hum
                  /\ (10 <= s.vocal /\ s.vocal < 40) \/ (12 <= s.rms /\ s.rms < 40)
                  /\ s.pitch >= 28 /\ s.flatness <= 40 /\ s.zcr <= 22
                  /\ s.ratio >= 40 \/ conf >= 70
                  /\ enrolled => s.caller
        normal == /\ speech /\ Voiced(s) /\ ~noise /\ ~hum
                  /\ s.vocal >= 25 \/ s.rms >= 25
                  /\ s.ratio >= 50 \/ conf >= 80
        strong == /\ normal /\ s.centroid >= 1000
                  /\ s.rms >= 45 \/ s.vocal >= 45
                  /\ s.flux >= 18 /\ s.pitch >= 35 /\ conf >= 80
        weak   == \/ hum
                  \/ speech /\ s.centroid < 950
                  \/ speech /\ s.flux < 15 /\ s.centroid < 1150
                  \/ speech /\ s.flux < 18 /\ s.rms < 40
                  \/ noise /\ ~normal
    IN IF s.echo /\ s.rms < 35 /\ s.vocal < 30        THEN "echo"
       ELSE IF ~(normal \/ quiet \/ (speech /\ weak))  THEN "miss"
       ELSE IF strong                                  THEN "strong"
       ELSE IF quiet                                   THEN "quiet"
       ELSE IF weak                                    THEN "hum"
       ELSE "plain"

\* While it cannot.
Genuine(s, speech, conf) ==
    /\ speech /\ ~Breath(s) /\ ~Transient(s) /\ ~s.echo
    /\ conf >= 40
    /\ s.vocal >= 25 \/ s.rms >= 10
    /\ s.ratio >= 50 \/ conf >= 85

\* The marks of a frame, all that the turn manager and the worker go by.
Mark(s, playing, spoke, enrolled, onnx) ==
    LET speech == IsSpeech(s, playing, spoke, onnx)
        conf   == Confidence(s, speech, onnx)
    IN [speech |-> speech,
        as |-> IF playing THEN Weighed(s, speech, conf, enrolled)
               ELSE IF Genuine(s, speech, conf) THEN "genuine" ELSE "pause"]

Marks(playing, spoke, enrolled) ==
    {Mark(s, playing, spoke, enrolled, onnx) : s \in Sounds, onnx \in BOOLEAN}

-----------------------------------------------------------------------------
VARIABLES
    now,        \* number of the last frame
    playback,   \* a response and its generation, what is left of it, or none
    greeted,    \* the greeting was played
    topic,      \* a language is chosen, digits are dictated, or neither
    turn,       \* the current turn: barge_in_handled, is_post_barge_in, and
                \* whether its state is LISTENING or LISTENING_AFTER_BARGE_IN
    inSpeech,   \* _is_in_speech
    speech,     \* _speech_accumulated_ms, up to the onset
    silence,    \* _silence_accumulated_ms (and _consecutive_silence_frames)
    evidence,   \* _barge_in_bucket, the candidate's frames, barge_in_pre_buffer
    audio,      \* current_speech_audio
    spoke,      \* the detector's _consecutive_speech_frames > 0
    enrolled,   \* the profiler has the caller's voice
    transition, \* what handle_speech_frame returned last
    seen        \* history, for the properties only

vars == <<now, playback, greeted, topic, turn, inSpeech, speech, silence,
          evidence, audio, spoke, enrolled, transition, seen>>

Kinds   == {"strong", "quiet", "hum"}
NoEvidence == [bucket |-> 0, counts |-> [k \in Kinds |-> 0], pre |-> <<>>]
NewTurn == [handled |-> FALSE, postBarge |-> FALSE, listening |-> TRUE]

\* word: a frame other than a hum is among the evidence; run: strong frames in
\* a row; last: the last frame taken for speech; given: the last such frame of
\* an utterance that was ended; since: the first frame of the present one;
\* taken: an answer or a response took the turn from the present one.
Unseen == [word |-> FALSE, run |-> 0, last |-> 0, given |-> 0, since |-> 0,
           taken |-> FALSE]

TypeOK ==
    /\ now \in 0 .. MaxFrames
    /\ playback \in {"none", "generation", "tail"}
    /\ topic \in {"language", "numeric", "open"}
    /\ turn \in [handled : BOOLEAN, postBarge : BOOLEAN, listening : BOOLEAN]
    /\ {greeted, inSpeech, spoke, enrolled} \subseteq BOOLEAN
    /\ speech \in 0 .. OnsetFrames
    /\ silence \in 0 .. now
    /\ evidence \in [bucket : 0 .. now, counts : [Kinds -> 0 .. now], pre : Seq(1 .. now)]
    /\ audio \in Seq(1 .. now)
    /\ transition \in {"none", "BARGE_IN", "SPEECH_STARTED", "SPEECH_ENDED"}
    /\ seen \in [word : BOOLEAN, run : 0 .. now, last : 0 .. now,
                 given : 0 .. now, since : 0 .. now, taken : BOOLEAN]

Init ==
    /\ now = 0 /\ playback = "none" /\ greeted = FALSE /\ topic = "language"
    /\ turn = [NewTurn EXCEPT !.listening = FALSE]
    /\ inSpeech = FALSE /\ speech = 0 /\ silence = 0
    /\ evidence = NoEvidence /\ audio = <<>>
    /\ spoke = FALSE /\ enrolled = FALSE
    /\ transition = "none" /\ seen = Unseen

-----------------------------------------------------------------------------
(* While the assistant can be heard *)

\* Mutant: one strong sound among the hums changes nothing.
PassiveAnyway(c) ==
    c["hum"] >= HumFrames /\ 2 * c["hum"] >= c["strong"] + c["quiet"] + c["hum"]

\* Passive listening, which must never interrupt.
Passive(c) ==
    /\ c["hum"] >= HumFrames /\ c["strong"] = 0
    /\ 2 * c["hum"] >= c["strong"] + c["quiet"] + c["hum"]

\* The bucket's level that confirms an interruption.
Threshold(c) ==
    CASE c["strong"] >= StrongFrames -> StrongConfirm
      [] /\ c["strong"] < StrongFrames
         /\ c["quiet"] >= QuietFrames
         /\ 2 * c["quiet"] >= c["strong"] + c["quiet"] + c["hum"] -> SlowConfirm
      [] OTHER -> IF c["hum"] = 0 THEN NormalConfirm ELSE SlowConfirm

\* Mutant: hums only take longer.
ConfirmedSlowly(e) == e.bucket >= Threshold(e.counts)

Confirmed(e) == ~Passive(e.counts) /\ e.bucket >= Threshold(e.counts)

\* Mutant: the bucket is drained further when it is empty.
WeighsBelow(as) ==
    IF as = "echo" THEN NoEvidence
    ELSE IF as = "miss" THEN [evidence EXCEPT !.bucket = @ - 1]
    ELSE [bucket |-> evidence.bucket + 1, counts |-> evidence.counts,
          pre    |-> Append(evidence.pre, now')]

\* The leaky bucket: a frame that qualifies fills it, another drains it, and
\* with the last drop, or an echo, the candidate is forgotten.
Weighs(as) ==
    IF as = "echo" \/ (as = "miss" /\ evidence.bucket <= 1) THEN NoEvidence
    ELSE IF as = "miss" THEN [evidence EXCEPT !.bucket = @ - 1]
    ELSE [bucket |-> evidence.bucket + 1,
          counts |-> IF as = "plain" THEN evidence.counts
                     ELSE [evidence.counts EXCEPT ![as] = @ + 1],
          pre    |-> Append(evidence.pre, now')]

Qualifies(as) == as \in Kinds \cup {"plain"}

\* Mutant: the ring buffer keeps everything.
RingOfAll == [i \in 1 .. now' |-> i]

\* The frames of the ring buffer, this one included.
Ring == [i \in 1 .. Least(RingFrames, now') |-> now' - Least(RingFrames, now') + i]

\* The worker puts up to PreRoll frames of the ring before the interruption.
PreRolled(n) ==
    LET before == IF n = 0 \/ n >= Len(Ring) THEN <<>> ELSE SubSeq(Ring, 1, Len(Ring) - n)
    IN SubSeq(before, Most(1, Len(before) - PreRoll + 1), Len(before))

\* A caller who already speaks is recorded on, as long as the turn is theirs:
\* what comes after a late answer or a response has taken it is left out.
Records ==
    audio' = IF inSpeech /\ turn.listening THEN Append(audio, now') ELSE audio

\* An utterance has a first frame only outside playback, or by interrupting.
Opened == IF inSpeech THEN seen.since ELSE 0

\* The interruption was acted on and only the rest of an old response plays.
Deaf == turn.handled /\ playback = "tail"

Ignores ==
    /\ Deaf
    /\ Records
    /\ transition' = "none"
    /\ seen' = [seen EXCEPT !.run = 0, !.since = Opened]
    /\ UNCHANGED <<turn, inSpeech, speech, silence, evidence, playback>>

Heard(as) ==
    [seen EXCEPT !.word  = as # "hum" \/ (evidence.bucket > 0 /\ @),
                 !.run   = IF as = "strong" THEN @ + 1 ELSE 0,
                 !.last  = now',
                 !.since = Opened]

Waits(as) ==
    /\ ~Deaf /\ ~Confirmed(Weighs(as))
    /\ turn' = [turn EXCEPT !.handled = FALSE]
    /\ evidence' = Weighs(as)
    /\ speech' = IF Qualifies(as) THEN Least(speech + 1, OnsetFrames)
                 ELSE IF Weighs(as) = NoEvidence THEN 0 ELSE speech
    /\ silence' = IF Qualifies(as) THEN 0 ELSE silence
    /\ Records
    /\ transition' = "none"
    /\ seen' = IF Qualifies(as) THEN Heard(as)
               ELSE [seen EXCEPT !.run = 0, !.since = Opened]
    /\ UNCHANGED <<inSpeech, playback>>

\* Mutant: the response is not cancelled.
InterruptsUnder(as) ==
    LET e == Weighs(as) IN
    /\ ~Deaf /\ Confirmed(e)
    /\ turn' = [handled |-> TRUE, postBarge |-> TRUE, listening |-> TRUE]
    /\ inSpeech' = TRUE /\ speech' = 0 /\ silence' = 0
    /\ audio' = e.pre /\ evidence' = NoEvidence
    /\ transition' = "BARGE_IN"
    /\ seen' = [Heard(as) EXCEPT !.run = 0, !.since = now', !.taken = FALSE]
    /\ UNCHANGED playback

\* trigger_barge_in and the worker's part of it: the response is cancelled, a
\* new turn belongs to the caller and what was heard of it so far is kept.
Interrupts(as) ==
    LET e == Weighs(as) IN
    /\ ~Deaf /\ Confirmed(e)
    /\ turn' = [handled |-> TRUE, postBarge |-> TRUE, listening |-> TRUE]
    /\ playback' = "none"
    /\ inSpeech' = TRUE /\ speech' = 0 /\ silence' = 0
    /\ audio' = PreRolled(Len(e.pre)) \o e.pre
    /\ evidence' = NoEvidence
    /\ transition' = "BARGE_IN"
    /\ seen' = [Heard(as) EXCEPT !.run = 0, !.since = now', !.taken = FALSE]

-----------------------------------------------------------------------------
(* While it cannot *)

EffectiveSilence ==
    IF topic = "numeric" THEN NumericSilence
    ELSE IF turn.postBarge \/ turn.handled THEN BargeInSilence
    ELSE IF topic = "language" THEN ChoiceSilence ELSE NormalSilence

Began == IF inSpeech \/ seen.since > 0 THEN seen.since ELSE now'

\* Mutant: the silence before a word still counts after it.
SpeaksOn ==
    /\ speech' = Least(speech + 1, OnsetFrames)
    /\ inSpeech \/ speech' < OnsetFrames
    /\ Records
    /\ transition' = "none"
    /\ seen' = [seen EXCEPT !.run = 0, !.last = now', !.since = Began]
    /\ UNCHANGED <<turn, inSpeech, silence, evidence, playback>>

Speaks ==
    /\ speech' = Least(speech + 1, OnsetFrames)
    /\ silence' = IF inSpeech THEN 0 ELSE silence
    /\ inSpeech \/ speech' < OnsetFrames
    /\ Records
    /\ transition' = "none"
    /\ seen' = [seen EXCEPT !.run = 0, !.last = now', !.since = Began]
    /\ UNCHANGED <<turn, inSpeech, evidence, playback>>

\* Mutant: the caller speaks in a turn that is being answered.
StartsInTurn ==
    /\ ~inSpeech
    /\ speech' = Least(speech + 1, OnsetFrames)
    /\ speech' = OnsetFrames
    /\ inSpeech' = TRUE /\ silence' = 0
    /\ audio' = Append(Ring, now')
    /\ transition' = "SPEECH_STARTED"
    /\ seen' = [seen EXCEPT !.run = 0, !.last = now', !.since = Began, !.taken = FALSE]
    /\ UNCHANGED <<turn, evidence, playback>>

\* The worker starts the utterance with the ring buffer, which ends with this
\* frame, and adds the frame once more.
Starts ==
    /\ ~inSpeech
    /\ speech' = Least(speech + 1, OnsetFrames)
    /\ speech' = OnsetFrames
    /\ inSpeech' = TRUE /\ silence' = 0
    \* a turn that was transcribed, cancelled or is being answered is over
    /\ turn' \in {NewTurn} \cup {t \in {turn} : t.listening}
    /\ audio' = Append(Ring, now')
    /\ transition' = "SPEECH_STARTED"
    /\ seen' = [seen EXCEPT !.run = 0, !.last = now', !.since = Began, !.taken = FALSE]
    /\ UNCHANGED <<evidence, playback>>

Forget == evidence' = [evidence EXCEPT !.pre = <<>>]

Pauses ==
    /\ speech' = 0 /\ Forget
    /\ silence' = IF inSpeech THEN silence + 1 ELSE silence
    /\ inSpeech => silence' < EffectiveSilence \/ silence' < 2
    /\ Records
    /\ transition' = "none"
    /\ seen' = [seen EXCEPT !.run = 0, !.since = IF inSpeech THEN @ ELSE 0]
    /\ UNCHANGED <<turn, inSpeech, playback>>

\* The worker hands the audio to an STT task, unless it takes it for noise and
\* listens on, and may learn the caller's voice.
Ends ==
    /\ inSpeech
    /\ silence + 1 >= EffectiveSilence /\ silence + 1 >= 2
    /\ speech' = 0 /\ Forget
    /\ inSpeech' = FALSE /\ silence' = 0
    /\ audio' = <<>>
    /\ \E noise \in BOOLEAN : turn' = [turn EXCEPT !.listening = noise]
    /\ transition' = "SPEECH_ENDED"
    /\ seen' = [seen EXCEPT !.run = 0, !.given = seen.last, !.since = 0, !.taken = FALSE]
    /\ UNCHANGED playback

Frame ==
    /\ now < MaxFrames /\ now' = now + 1
    /\ \E m \in Marks(playback # "none", spoke, enrolled) :
         /\ spoke' = m.speech
         /\ \/ playback # "none"   /\ (Ignores \/ Waits(m.as) \/ Interrupts(m.as))
            \/ m.as = "genuine"    /\ (Speaks \/ Starts)
            \/ m.as = "pause"      /\ (Pauses \/ Ends)
    /\ enrolled' \in IF transition' = "SPEECH_ENDED" THEN {enrolled, TRUE} ELSE {enrolled}
    /\ UNCHANGED <<greeted, topic>>

-----------------------------------------------------------------------------
(* What the rest of the engine does meanwhile *)

TurnIsTaken == seen' = [seen EXCEPT !.taken = @ \/ (inSpeech /\ ~turn'.listening)]

\* The TTS worker takes up a sentence and with it the current turn.
PlaybackStarts ==
    /\ playback' = "generation"
    /\ turn' = [turn EXCEPT !.handled = FALSE, !.listening = FALSE]
    /\ TurnIsTaken
    /\ transition' = "none"
    /\ UNCHANGED <<now, greeted, topic, inSpeech, speech, silence,
                   evidence, audio, spoke, enrolled>>

\* The generation is over before the caller has heard all of it; with the last
\* of it, or a failed synthesis, the turn is the caller's again.
PlaybackEnds ==
    /\ \/ playback = "generation" /\ playback' \in {"tail", "none"}
       \/ playback = "tail" /\ playback' = "none"
    /\ turn' \in {turn, [turn EXCEPT !.listening = TRUE]}
    /\ seen' = [seen EXCEPT !.run = 0]
    /\ UNCHANGED <<now, greeted, topic, inSpeech, speech, silence,
                   evidence, audio, spoke, enrolled,
                   transition>>

\* A late transcript or answer sets the state of whichever turn is current; the
\* announcement of a failed transfer begins a turn that is not the caller's.
AnswerComes ==
    /\ turn' \in {[turn EXCEPT !.listening = ~@], [NewTurn EXCEPT !.listening = FALSE]}
    /\ TurnIsTaken
    /\ UNCHANGED <<now, playback, greeted, topic, inSpeech, speech, silence,
                   evidence, audio, spoke, enrolled,
                   transition>>

\* The greeting is sent in one step and leaves the rest of its playout, unless
\* it was interrupted before, a new turn and a manager that starts afresh.
GreetingPlays ==
    /\ ~greeted /\ greeted' = TRUE
    /\ playback' \in {"tail"} \cup (IF playback = "tail" THEN {} ELSE {"none"})
    /\ turn' = NewTurn /\ inSpeech' = FALSE /\ speech' = 0 /\ silence' = 0
    /\ evidence' = NoEvidence /\ spoke' = FALSE
    /\ seen' = [seen EXCEPT !.run = 0, !.since = 0, !.taken = FALSE]
    /\ transition' = "none"
    /\ UNCHANGED <<now, topic, audio, enrolled>>

\* The language is chosen, the conversation comes to a phone number or leaves it.
TopicChanges ==
    /\ topic' \in {"numeric", "open"} \ {topic}
    /\ UNCHANGED <<now, playback, greeted, turn, inSpeech, speech, silence,
                   evidence, audio, spoke, enrolled,
                   transition, seen>>

Next == \/ Frame \/ TopicChanges
        \/ PlaybackStarts \/ PlaybackEnds \/ AnswerComes \/ GreetingPlays

Spec == Init /\ [][Next]_vars

-----------------------------------------------------------------------------
(* Properties *)

\* The frames amount to what TurnPipeline supposes of the turn manager.
Taken == INSTANCE TurnFloor WITH playing <- playback # "none"
TurnsAreTaken == Taken!Spec

\* "Passive sounds must never interrupt assistant playback": of the frames the
\* bucket holds when a caller interrupts, at least one is not a hum, however
\* the candidate came about and whatever was left over of an earlier one.
HumsNeverInterrupt == transition = "BARGE_IN" => seen.word

\* Strong speech interrupts after StrongConfirm frames, whatever was counted
\* before: the interruption cannot be put off by what an earlier sound left.
StrongSpeechInterrupts == seen.run < StrongConfirm

\* No frame of speech is in two utterances: the frames put before an onset or
\* an interruption never reach back to the speech that was handed over.
NothingIsTranscribedTwice ==
    \A i \in DOMAIN audio : audio[i] > seen.given \/ ~inSpeech

\* The audio of a caller who speaks has every frame since the word that opened
\* the utterance, pauses and hums too, until a late answer or a response takes
\* the turn: whatever was answered or heard before the word does not, and only
\* from then on frames may be missing.
NothingIsLost ==
    inSpeech /\ ~seen.taken =>
        seen.since > 0 /\ seen.since .. now \subseteq {audio[i] : i \in DOMAIN audio}

\* No utterance is ended within its last words: between the last frame of
\* speech and the end there is at least the shortest silence.
NobodyIsCutOff ==
    transition = "SPEECH_ENDED" => \E s \in Silences : now - seen.last >= s
=============================================================================
