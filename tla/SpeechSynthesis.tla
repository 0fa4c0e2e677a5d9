-------------------------- MODULE SpeechSynthesis --------------------------
(***************************************************************************)
(* One response on its way through stream_synthesize                       *)
(* (voice-engine/app/tts/sarvam.py): a segmenter cuts the text into        *)
(* segments, a feeder starts a synthesis of each without waiting, a        *)
(* synthesizer puts the audio in order, and the generator hands it to the  *)
(* engine's TTS worker.  The stages are joined by two bounded queues with  *)
(* an end mark.  A barge-in cancels the token, and the consumer may leave  *)
(* at any time.  Behind each synthesis is the deduplication cache          *)
(* (voice-engine/app/tts/cache.py).                                        *)
(***************************************************************************)
EXTENDS Naturals, Sequences, SequencesExt

CONSTANTS
    Texts,          \* the texts a segment may have
    MaxSegments,    \* segments of the response
    StageQueueSize, \* maxsize of both queues: 10 in the code
    MaxEntries,     \* _max_entries of the cache in memory: 500 in the code
    End             \* the mark None

ASSUME SpeechSynthesisAssumption ==
    /\ {MaxSegments, StageQueueSize, MaxEntries} \subseteq Nat \ {0}
    /\ End \notin Nat

VARIABLES
    cancelled,   \* the cancellation token
    text,        \* the text of each segment so far
    segmenter,   \* "reading", "putting", "closing" or "done"
    segments,    \* segment_queue
    feeder,      \* "starting", "getting" or "done"
    task,        \* the synth_worker of each segment taken
    synthesizer, \* "looking", "putting", "joining", "closing" or "done"
    next,        \* task_idx: the segment whose audio is due
    audio,       \* audio_buffer_queue
    generator,   \* "getting", "playing", "ended" or "left"
    spoken,      \* the segments handed to the engine
    memory,      \* keys of _memory_cache in the order of insertion
    disk         \* texts in the cache directory

cutting == <<text, segmenter, segments>>
making == <<feeder, task>>
ordering == <<synthesizer, next, audio>>
giving == <<generator, spoken>>
cache == <<memory, disk>>
stages == <<cancelled, cutting, making, ordering, giving, cache>>

\* The generator has looked at the token when it starts the stages.
ResponseInit ==
    /\ cancelled = FALSE
    /\ text = <<>> /\ segmenter = "reading" /\ segments = <<>>
    /\ feeder = "starting" /\ task = <<>>
    /\ synthesizer = "looking" /\ next = 1 /\ audio = <<>>
    /\ generator = "getting" /\ spoken = <<>>
    /\ memory = <<>> /\ disk \in SUBSET Texts

-----------------------------------------------------------------------------
(* The segmenter                                                           *)

Room(q) == Len(q) < StageQueueSize

\* A long delta is cut into several segments; a full queue holds the segmenter up.
Extracts ==
    /\ segmenter = "reading" /\ Len(text) < MaxSegments
    /\ \E t \in Texts : text' = Append(text, t)
    /\ IF Room(segments)
       THEN segments' = Append(segments, Len(text) + 1) /\ UNCHANGED segmenter
       ELSE segmenter' = "putting" /\ UNCHANGED segments
    /\ UNCHANGED <<cancelled, making, ordering, giving, cache>>

PutsSegment ==
    /\ segmenter = "putting" /\ Room(segments)
    /\ segments' = Append(segments, Len(text)) /\ segmenter' = "reading"
    /\ UNCHANGED <<cancelled, text, making, ordering, giving, cache>>

\* Mutant: a cancelled segmenter does not mark the end.
MarksUnlessCancelled == ~cancelled

\* The mark is put whatever ended the segmenter.
MarksEnd == TRUE

PutsMark ==
    /\ Room(segments) /\ segmenter' = "done"
    /\ segments' = IF MarksEnd THEN Append(segments, End) ELSE segments

\* The text is over, took longer than the engine waits for it, or is not wanted
\* any more; without room for the mark the segmenter waits.
TextEnds ==
    /\ segmenter = "reading"
    /\ \/ PutsMark
       \/ ~Room(segments) /\ segmenter' = "closing" /\ UNCHANGED segments
    /\ UNCHANGED <<cancelled, text, making, ordering, giving, cache>>

PutsEnd ==
    /\ segmenter = "closing" /\ PutsMark
    /\ UNCHANGED <<cancelled, text, making, ordering, giving, cache>>

-----------------------------------------------------------------------------
(* The feeder and the synthesis of a segment                               *)

\* The token is looked at before every wait for a segment, not during one.
Waiting == IF cancelled THEN "done" ELSE "getting"

FeederStarts ==
    /\ feeder = "starting" /\ feeder' = Waiting
    /\ UNCHANGED <<cancelled, cutting, task, ordering, giving, cache>>

FeederTakes ==
    /\ feeder = "getting" /\ segments # <<>>
    /\ segments' = Tail(segments)
    /\ IF Head(segments) = End
       THEN feeder' = "done" /\ UNCHANGED task
       ELSE /\ task' = Append(task, "new")
            /\ feeder' = Waiting
    /\ UNCHANGED <<cancelled, text, segmenter, ordering, giving, cache>>

\* get(): what is on disk goes to memory too, which it may fill beyond its bound.
Cached(t) == t \in disk \/ \E i \in DOMAIN memory : memory[i] = t

Promoted(t) ==
    IF \E i \in DOMAIN memory : memory[i] = t THEN memory ELSE Append(memory, t)

\* put(): the oldest entry makes room, also for a text that has one already; the
\* file may fail to be written.
Stored(t) ==
    LET kept == IF Len(memory) >= MaxEntries THEN Tail(memory) ELSE memory
    IN  IF \E i \in DOMAIN kept : kept[i] = t THEN kept ELSE Append(kept, t)

\* A segment without a word, or of a cancelled response, is not asked for.
TaskStarts(i) ==
    /\ task[i] = "new"
    /\ \/ /\ cancelled \/ ~Cached(text[i])
          /\ task' = [task EXCEPT ![i] = "nothing"] /\ UNCHANGED memory
       \/ /\ ~cancelled /\ Cached(text[i])
          /\ task' = [task EXCEPT ![i] = "audio"]
          /\ memory' = Promoted(text[i])
       \/ /\ ~cancelled /\ ~Cached(text[i])
          /\ task' = [task EXCEPT ![i] = "asking"] /\ UNCHANGED memory
    /\ UNCHANGED <<cancelled, cutting, feeder, ordering, giving, disk>>

Ended(i, result) ==
    task' = [task EXCEPT ![i] = IF cancelled THEN "nothing" ELSE result]

\* The provider's audio is stored even if nobody wants it any more; a refusal is
\* spoken as silence of the length of the text, and a transport error skips it.
TaskEnds(i) ==
    /\ task[i] = "asking"
    /\ \/ /\ Ended(i, "audio") /\ memory' = Stored(text[i])
          /\ disk' \in {disk, disk \cup {text[i]}}
       \/ Ended(i, "audio") /\ UNCHANGED cache
       \/ Ended(i, "nothing") /\ UNCHANGED cache
    /\ UNCHANGED <<cancelled, cutting, feeder, ordering, giving>>

-----------------------------------------------------------------------------
(* The synthesizer                                                         *)

Finished(i) == task[i] \in {"audio", "nothing", "dropped"}

\* Mutant: the segments are taken for spoken when the feeder has ended.
FedAll == feeder = "done"

\* All segments were taken and their audio put.
AllPut == feeder = "done" /\ next > Len(task)

\* The audio that is due is waited for, even after a cancellation.
Waits ==
    /\ synthesizer = "looking" /\ ~AllPut
    /\ next <= Len(task) /\ Finished(next)
    /\ IF task[next] = "audio" /\ ~cancelled
       THEN synthesizer' = "putting" /\ UNCHANGED next
       ELSE next' = next + 1 /\ UNCHANGED synthesizer
    /\ UNCHANGED <<cancelled, cutting, making, audio, giving, cache>>

PutsAudio ==
    /\ synthesizer = "putting" /\ Room(audio)
    /\ audio' = Append(audio, next) /\ next' = next + 1
    /\ synthesizer' = "looking"
    /\ UNCHANGED <<cancelled, cutting, making, giving, cache>>

Stops ==
    /\ synthesizer = "looking" /\ (cancelled \/ AllPut)
    /\ synthesizer' = "joining"
    /\ UNCHANGED <<cancelled, cutting, making, next, audio, giving, cache>>

Dropped == [i \in DOMAIN task |-> IF Finished(i) THEN task[i] ELSE "dropped"]

Joins ==
    /\ synthesizer = "joining" /\ feeder = "done"
    /\ synthesizer' = "closing" /\ task' = Dropped
    /\ UNCHANGED <<cancelled, cutting, feeder, next, audio, giving, cache>>

PutsAudioEnd ==
    /\ synthesizer = "closing" /\ Room(audio)
    /\ audio' = Append(audio, End) /\ synthesizer' = "done"
    /\ UNCHANGED <<cancelled, cutting, making, next, giving, cache>>

-----------------------------------------------------------------------------
(* The generator and its consumer                                          *)

\* The generator's end cancels the segmenter and the synthesizer.  Each goes to
\* its own end mark, and is not held up by it any more if it was there already;
\* a feeder the synthesizer waits for is cancelled with it, any other goes on.
Leaves(how) ==
    /\ generator' = how
    /\ segmenter' = IF segmenter \in {"reading", "putting"} THEN "closing" ELSE "done"
    /\ synthesizer' = IF synthesizer \in {"looking", "putting", "joining"}
                      THEN "closing" ELSE "done"
    /\ task' = Dropped
    /\ feeder' = IF synthesizer = "joining" THEN "done" ELSE feeder
    /\ UNCHANGED <<cancelled, text, segments, next, cache>>

GeneratorTakes ==
    /\ generator = "getting" /\ audio # <<>>
    /\ audio' = Tail(audio)
    /\ IF Head(audio) = End \/ cancelled
       THEN Leaves("ended") /\ UNCHANGED spoken
       ELSE /\ generator' = "playing" /\ spoken' = Append(spoken, Head(audio))
            /\ UNCHANGED <<cancelled, cutting, making, synthesizer, next, cache>>

\* Its frames were taken.
Plays ==
    /\ generator = "playing"
    /\ IF cancelled
       THEN Leaves("ended")
       ELSE /\ generator' = "getting"
            /\ UNCHANGED <<cancelled, cutting, making, synthesizer, next, cache>>
    /\ UNCHANGED <<audio, spoken>>

\* The consumer finds the generation cancelled or replaced, or the eight seconds
\* the engine gives a response are over.
ConsumerLeaves ==
    /\ generator \in {"getting", "playing"} /\ Leaves("left")
    /\ UNCHANGED <<audio, spoken>>

\* A barge-in, at any point.
Cancel ==
    /\ ~cancelled /\ cancelled' = TRUE
    /\ UNCHANGED <<cutting, making, ordering, giving, cache>>

-----------------------------------------------------------------------------

Segmenting == PutsSegment \/ TextEnds \/ PutsEnd
Synthesizing == Waits \/ PutsAudio \/ Stops \/ Joins \/ PutsAudioEnd
Feeding == FeederStarts \/ FeederTakes
Working(i) == i \in DOMAIN task /\ (TaskStarts(i) \/ TaskEnds(i))

ResponseNext ==
    \/ Extracts \/ Segmenting \/ Feeding \/ Synthesizing
    \/ \E i \in DOMAIN task : Working(i)
    \/ GeneratorTakes \/ Plays \/ ConsumerLeaves \/ Cancel

\* The event loop runs every stage, the text ends because the engine waits two
\* seconds for more of it, an HTTP request within its timeout, and the consumer
\* takes what it gets.  Nobody has to leave or to cancel.
ResponseFairness ==
    /\ WF_stages(Segmenting) /\ WF_stages(Feeding) /\ WF_stages(Synthesizing)
    /\ \A i \in 1 .. MaxSegments : WF_stages(Working(i))
    /\ WF_stages(GeneratorTakes \/ Plays)

ResponseSpec == ResponseInit /\ [][ResponseNext]_stages /\ ResponseFairness

-----------------------------------------------------------------------------
(* Properties *)

\* The syntheses run at the same time and end in any order; what is spoken is in
\* the order of the text, nothing twice, and when the stream ends of itself
\* every segment that got audio was spoken.
SpeechIsWhole ==
    /\ \A i, j \in DOMAIN spoken : i < j => spoken[i] < spoken[j]
    /\ generator = "ended" /\ ~cancelled =>
         ToSet(spoken) = {i \in DOMAIN task : task[i] = "audio"}
         /\ Len(task) = Len(text)

\* Cancelled, left or played to the end, with the queues full or empty: the
\* stream comes to its end, and no request is left running.  A stage may be left
\* waiting: for the mark of a segmenter that was cancelled before it had room for
\* it, or for room for its own mark.
StreamEnds ==
    <>[](/\ generator \in {"ended", "left"}
         /\ \A i \in DOMAIN task : Finished(i))
=============================================================================
