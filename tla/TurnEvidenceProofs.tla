------------------------- MODULE TurnEvidenceProofs -------------------------
(***************************************************************************)
(* Theorems about TurnEvidence for every choice of sounds, thresholds and  *)
(* silences its assumption allows: hums never interrupt, strong speech     *)
(* cannot be put off, what is recorded is complete and handed over once,   *)
(* nobody is cut off, and the frames implement TurnFloor.  They rest on    *)
(* one inductive invariant, Inv.                                           *)
(***************************************************************************)
EXTENDS TurnEvidence, SequenceTheorems, TLAPS

-----------------------------------------------------------------------------
(* What the bucket holds.  The candidate's frames are counted when they fill *)
(* the bucket and forgotten with its last drop, so a bucket in which no word *)
(* was heard holds no more than the hums, and strong frames in a row are all *)
(* in it.  A candidate that waits is never one that was confirmed.           *)

NotConfirmed == ~Confirmed(evidence)
EmptyIsNew   == evidence.bucket = 0 => \A k \in Kinds : evidence.counts[k] = 0
OnlyHums     == ~seen.word => /\ evidence.counts["strong"] = 0
                              /\ evidence.counts["quiet"] = 0
                              /\ evidence.bucket <= evidence.counts["hum"]
RunIsHeld    == seen.run <= evidence.bucket /\ seen.run <= evidence.counts["strong"]
Bucket       == NotConfirmed /\ EmptyIsNew /\ OnlyHums /\ RunIsHeld

-----------------------------------------------------------------------------
(* What is recorded.  The last word lies before the counted silence, the     *)
(* utterance that was handed over before the ring, the words before an onset *)
(* within the counted speech, and what waits for an interruption after it.   *)
(* The turn of an utterance is the caller's until it is taken.               *)

SilenceIsQuiet == inSpeech => seen.last + silence <= now
GivenIsPast    == seen.given = 0 \/ seen.given + RingFrames <= now
OnsetIsNear    == ~inSpeech /\ seen.since > 0 =>
                      now - seen.since < speech /\ speech < OnsetFrames
WaitingIsNew   == \A i \in DOMAIN evidence.pre : evidence.pre[i] > seen.given
TurnIsCallers  == inSpeech /\ ~seen.taken => turn.listening
Recording      == SilenceIsQuiet /\ GivenIsPast /\ OnsetIsNear /\ WaitingIsNew /\ TurnIsCallers

Inv == /\ TypeOK /\ Bucket /\ Recording
       /\ HumsNeverInterrupt /\ StrongSpeechInterrupts
       /\ NothingIsTranscribedTwice /\ NothingIsLost /\ NobodyIsCutOff

-----------------------------------------------------------------------------
(* What the constants and the operators give.                                *)

Heardable == {"echo", "miss", "strong", "quiet", "hum", "plain"}

LEMMA Thresholds ==
    /\ OnsetFrames \in Int /\ StrongFrames \in Int /\ StrongConfirm \in Int
    /\ QuietFrames \in Int /\ NormalConfirm \in Int /\ SlowConfirm \in Int
    /\ HumFrames \in Int /\ RingFrames \in Int /\ PreRoll \in Int /\ MaxFrames \in Int
    /\ OnsetFrames >= 1 /\ StrongFrames >= 1 /\ StrongConfirm >= 1 /\ QuietFrames >= 1
    /\ NormalConfirm >= 1 /\ SlowConfirm >= 1 /\ HumFrames >= 1 /\ RingFrames >= 1
    /\ PreRoll >= 1 /\ MaxFrames >= 1
    /\ HumFrames <= SlowConfirm /\ StrongFrames <= StrongConfirm
    /\ OnsetFrames <= RingFrames
  BY TurnEvidenceAssumption

LEMMA EverySilence ==
    \A s \in Silences : s \in Int /\ RingFrames <= s
  BY TurnEvidenceAssumption

\* Every way to weigh a frame is one of these, in playback and outside it.
LEMMA MarkKinds ==
    ASSUME NEW m \in Marks(playback # "none", spoke, enrolled)
    PROVE  /\ m.speech \in BOOLEAN
           /\ playback # "none" => m.as \in Heardable
           /\ playback = "none" => m.as \in {"genuine", "pause"}
<1> DEFINE playing == playback # "none"
<1>1. PICK s \in Sounds, onnx \in BOOLEAN : m = Mark(s, playing, spoke, enrolled, onnx)
  BY DEF Marks
<1>2. IsSpeech(s, playing, spoke, onnx) \in BOOLEAN
  BY DEF IsSpeech, ValidSpeech
<1>3. \A speaks, conf : Weighed(s, speaks, conf, enrolled) \in Heardable
  BY DEF Weighed, Heardable
<1>4. QED BY <1>1, <1>2, <1>3 DEF Mark

\* A frame is one of eight steps; what it leaves to the rest of the engine
\* stays as it is.
LEMMA FrameCases ==
    ASSUME Frame
    PROVE  /\ now < MaxFrames /\ now' = now + 1
           /\ spoke' \in BOOLEAN /\ enrolled' \in {enrolled, TRUE}
           /\ UNCHANGED <<greeted, topic>>
           /\ \/ /\ playback # "none"
                 /\ Ignores \/ \E as \in Heardable : Waits(as) \/ Interrupts(as)
              \/ playback = "none" /\ (Speaks \/ Starts \/ Pauses \/ Ends)
<1>1. PICK m \in Marks(playback # "none", spoke, enrolled) :
        /\ spoke' = m.speech
        /\ \/ playback # "none" /\ (Ignores \/ Waits(m.as) \/ Interrupts(m.as))
           \/ m.as = "genuine"  /\ (Speaks \/ Starts)
           \/ m.as = "pause"    /\ (Pauses \/ Ends)
  BY DEF Frame
<1>2. /\ m.speech \in BOOLEAN
      /\ playback # "none" => m.as \in Heardable
      /\ playback = "none" => m.as \in {"genuine", "pause"}
  BY MarkKinds
<1>3. CASE playback # "none"
  <2>1. Ignores \/ Waits(m.as) \/ Interrupts(m.as)
    BY <1>1, <1>2, <1>3 DEF Heardable
  <2>2. QED BY <1>1, <1>2, <1>3, <2>1 DEF Frame
<1>4. CASE playback = "none"
  BY <1>1, <1>2, <1>4 DEF Frame
<1>5. QED BY <1>3, <1>4

\* Elements of a sequence that are all in T make it a sequence over T.
LEMMA SeqOver ==
    ASSUME NEW S, NEW T, NEW q \in Seq(S), \A i \in DOMAIN q : q[i] \in T
    PROVE  q \in Seq(T)
  OBVIOUS

LEMMA SeqElements ==
    ASSUME NEW S, NEW q \in Seq(S)
    PROVE  \A i \in DOMAIN q : q[i] \in S
  OBVIOUS

LEMMA SeqWithin ==
    ASSUME NEW S, NEW T, S \subseteq T, NEW q \in Seq(S)
    PROVE  q \in Seq(T)
  OBVIOUS

LEMMA EmptyIsOver ==
    ASSUME NEW S, NEW q, q = <<>>
    PROVE  q \in Seq(S) /\ Len(q) = 0
  OBVIOUS

\* The ring holds the latest frames, and what is put before an interruption
\* is taken from it.
Latest == {x \in 1 .. now' : x + RingFrames > now'}

LEMMA RingIsLatest ==
    ASSUME now' \in Nat \ {0}
    PROVE  /\ Ring \in Seq(Latest)
           /\ \A x \in Latest : \E i \in DOMAIN Ring : Ring[i] = x
<1>1. PICK n \in Nat : /\ n = Least(RingFrames, now')
                       /\ n <= now' /\ n <= RingFrames
                       /\ n = now' \/ n = RingFrames
  BY Thresholds DEF Least
<1>2. PICK c \in Nat : c = now'
  OBVIOUS
<1>3. Ring = [i \in 1 .. n |-> c - n + i]
  BY <1>1, <1>2 DEF Ring
<1>4. /\ RingFrames \in Int /\ n <= c /\ n <= RingFrames
      /\ n = c \/ n = RingFrames
  BY <1>1, <1>2, Thresholds
<1>5. \A i \in 1 .. n : c - n + i \in 1 .. c /\ c - n + i + RingFrames > c
  BY <1>4
<1>6. Latest = {x \in 1 .. c : x + RingFrames > c}
  BY <1>2 DEF Latest
<1>7. Ring \in Seq(Latest)
  BY <1>3, <1>5, <1>6
<1>8. ASSUME NEW x \in Latest
      PROVE  \E i \in DOMAIN Ring : Ring[i] = x
  <2>1. x \in 1 .. c /\ x + RingFrames > c
    BY <1>6
  <2>2. x - c + n \in 1 .. n /\ c - n + (x - c + n) = x
    BY <1>4, <2>1
  <2>3. QED BY <2>2, <1>3
<1>9. QED BY <1>7, <1>8

LEMMA PreRolledIsLatest ==
    ASSUME now' \in Nat \ {0}, NEW n \in Nat
    PROVE  PreRolled(n) \in Seq(Latest)
<1> DEFINE before == IF n = 0 \/ n >= Len(Ring) THEN <<>> ELSE SubSeq(Ring, 1, Len(Ring) - n)
<1>1. Ring \in Seq(Latest)
  BY RingIsLatest
<1>2. before \in Seq(Latest)
  <2>1. CASE n = 0 \/ n >= Len(Ring)
    BY <2>1, EmptyIsOver
  <2>2. CASE ~(n = 0 \/ n >= Len(Ring))
    <3>1. \A i \in 1 .. Len(Ring) - n : Ring[i] \in Latest
      BY <1>1
    <3>2. Len(Ring) - n \in Int
      BY <1>1
    <3>3. SubSeq(Ring, 1, Len(Ring) - n) \in Seq(Latest)
      BY <3>1, <3>2, SubSeqProperties
    <3>4. QED BY <2>2, <3>3
  <2>3. QED BY <2>1, <2>2
<1>3. PreRolled(n) = SubSeq(before, Most(1, Len(before) - PreRoll + 1), Len(before))
  BY DEF PreRolled
<1> HIDE DEF before
<1>4. /\ Most(1, Len(before) - PreRoll + 1) \in Int
      /\ Most(1, Len(before) - PreRoll + 1) >= 1
  BY <1>2, Thresholds DEF Most
<1>5. \A i \in Most(1, Len(before) - PreRoll + 1) .. Len(before) : before[i] \in Latest
  BY <1>2, <1>4
<1>6. QED BY <1>2, <1>3, <1>4, <1>5, SubSeqProperties

-----------------------------------------------------------------------------
(* Types.                                                                    *)

EvidenceUpTo(n) == [bucket : 0 .. n, counts : [Kinds -> 0 .. n], pre : Seq(1 .. n)]
SeenUpTo(n)     == [word : BOOLEAN, run : 0 .. n, last : 0 .. n, given : 0 .. n, since : 0 .. n,
                    taken : BOOLEAN]

\* What was typed is typed a frame later.
LEMMA Later ==
    ASSUME TypeOK, now' = now + 1
    PROVE  /\ now \in Nat /\ now' \in Nat \ {0}
           /\ evidence \in EvidenceUpTo(now') /\ evidence.bucket <= now
           /\ \A k \in Kinds : evidence.counts[k] <= now
           /\ audio \in Seq(1 .. now')
           /\ seen \in SeenUpTo(now') /\ seen.run <= now /\ silence + 1 \in 0 .. now'
           /\ silence \in 0 .. now'
<1>1. now \in Nat /\ now' \in Nat \ {0}
  BY DEF TypeOK
<1>2. \A x \in 0 .. now : x \in 0 .. now' /\ x + 1 \in 0 .. now'
  BY <1>1
<1>3. \A x \in 1 .. now : x \in 1 .. now'
  BY <1>1
<1>4. audio \in Seq(1 .. now')
  BY <1>3, SeqOver DEF TypeOK
<1>5. evidence.pre \in Seq(1 .. now')
  BY <1>3, SeqOver DEF TypeOK
<1>6. evidence \in EvidenceUpTo(now)
  BY DEF TypeOK, EvidenceUpTo
<1>7. evidence.bucket \in 0 .. now /\ evidence.counts \in [Kinds -> 0 .. now]
  BY <1>6 DEF EvidenceUpTo
<1>8. evidence.counts \in [Kinds -> 0 .. now']
  BY <1>2, <1>7
<1>9. evidence \in EvidenceUpTo(now')
  BY <1>2, <1>5, <1>6, <1>7, <1>8 DEF EvidenceUpTo
<1>10. seen \in SeenUpTo(now) /\ silence \in 0 .. now
  BY DEF TypeOK, SeenUpTo
<1>11. seen \in SeenUpTo(now') /\ seen.run \in 0 .. now
  BY <1>2, <1>10 DEF SeenUpTo
<1>12. QED BY <1>1, <1>2, <1>4, <1>7, <1>9, <1>10, <1>11

LEMMA NoEvidenceType ==
    ASSUME NEW n \in Nat
    PROVE  NoEvidence \in EvidenceUpTo(n)
<1>1. [k \in Kinds |-> 0] \in [Kinds -> 0 .. n]
  OBVIOUS
<1>2. QED BY <1>1, EmptyIsOver DEF NoEvidence, EvidenceUpTo

\* What a frame does to the bucket.
LEMMA WeighsCases ==
    ASSUME TypeOK, now' = now + 1, NEW as \in Heardable
    PROVE  \/ Weighs(as) = NoEvidence /\ ~Qualifies(as)
           \/ /\ as = "miss" /\ evidence.bucket > 1
              /\ Weighs(as).bucket = evidence.bucket - 1
              /\ Weighs(as).counts = evidence.counts
              /\ Weighs(as).pre = evidence.pre
           \/ /\ Qualifies(as)
              /\ Weighs(as).bucket = evidence.bucket + 1
              /\ Weighs(as).pre = Append(evidence.pre, now')
              /\ as = "plain" => Weighs(as).counts = evidence.counts
              /\ as # "plain" => /\ as \in Kinds
                                 /\ Weighs(as).counts = [evidence.counts EXCEPT ![as] = @ + 1]
<1>1. evidence \in EvidenceUpTo(now') /\ evidence.bucket <= now
  BY Later
<1>2. evidence = [bucket |-> evidence.bucket, counts |-> evidence.counts, pre |-> evidence.pre]
  BY <1>1 DEF EvidenceUpTo
<1>3. CASE as = "echo" \/ (as = "miss" /\ evidence.bucket <= 1)
  BY <1>3 DEF Weighs, Qualifies, Kinds
<1>4. CASE as = "miss" /\ ~(evidence.bucket <= 1)
  <2>1. evidence.bucket \in Int
    BY <1>1 DEF EvidenceUpTo
  <2>2. QED BY <1>1, <1>2, <1>4, <2>1 DEF Weighs, EvidenceUpTo
<1>5. CASE as # "echo" /\ as # "miss"
  BY <1>5 DEF Weighs, Qualifies, Kinds, Heardable
<1>6. QED BY <1>3, <1>4, <1>5

LEMMA WeighsType ==
    ASSUME TypeOK, now' = now + 1, NEW as \in Heardable
    PROVE  Weighs(as) \in EvidenceUpTo(now')
<1>1. /\ now \in Nat /\ now' \in Nat \ {0}
      /\ evidence \in EvidenceUpTo(now') /\ evidence.bucket <= now
      /\ \A k \in Kinds : evidence.counts[k] <= now
  BY Later
<1>2. /\ evidence.bucket \in 0 .. now' /\ evidence.counts \in [Kinds -> 0 .. now']
      /\ evidence.pre \in Seq(1 .. now')
  BY <1>1 DEF EvidenceUpTo
<1>3. CASE as = "echo" \/ (as = "miss" /\ evidence.bucket <= 1)
  BY <1>1, <1>3, NoEvidenceType DEF Weighs
<1>4. CASE as = "miss" /\ ~(evidence.bucket <= 1)
  <2>1. evidence.bucket - 1 \in 0 .. now'
    BY <1>1, <1>2, <1>4
  <2>2. Weighs(as) = [evidence EXCEPT !.bucket = @ - 1]
    BY <1>4 DEF Weighs
  <2>3. QED BY <1>1, <2>1, <2>2 DEF EvidenceUpTo
<1>5. CASE as # "echo" /\ as # "miss"
  <2>1. evidence.bucket + 1 \in 0 .. now'
    BY <1>1, <1>2
  <2>2. Append(evidence.pre, now') \in Seq(1 .. now')
    BY <1>1, <1>2
  <2>3. (IF as = "plain" THEN evidence.counts ELSE [evidence.counts EXCEPT ![as] = @ + 1])
            \in [Kinds -> 0 .. now']
    <3>1. CASE as = "plain"
      BY <1>2, <3>1
    <3>2. CASE as # "plain"
      <4>1. as \in Kinds
        BY <1>5, <3>2 DEF Heardable, Kinds
      <4>2. evidence.counts[as] + 1 \in 0 .. now'
        <5>1. \A x \in 0 .. now : x + 1 \in 0 .. now'
          BY <1>1
        <5>2. evidence.counts[as] \in 0 .. now
          BY <4>1 DEF TypeOK
        <5>3. QED BY <5>1, <5>2
      <4>3. [evidence.counts EXCEPT ![as] = @ + 1] \in [Kinds -> 0 .. now']
        BY <1>2, <4>2
      <4>4. QED BY <3>2, <4>3
    <3>3. QED BY <3>1, <3>2
  <2>4. QED BY <1>5, <2>1, <2>2, <2>3 DEF Weighs, EvidenceUpTo
<1>6. QED BY <1>3, <1>4, <1>5

LEMMA HeardType ==
    ASSUME TypeOK, now' = now + 1, NEW as \in Heardable
    PROVE  Heard(as) \in SeenUpTo(now')
<1>1. /\ now \in Nat /\ now' \in Nat /\ seen \in SeenUpTo(now') /\ seen.run <= now
  BY Later
<1>2. seen.run + 1 \in 0 .. now' /\ now' \in 0 .. now' /\ 0 \in 0 .. now'
  BY <1>1 DEF SeenUpTo
<1>3. Opened \in 0 .. now'
  BY <1>1, <1>2 DEF Opened, SeenUpTo
<1>4. (as # "hum" \/ (evidence.bucket > 0 /\ seen.word)) \in BOOLEAN
  OBVIOUS
<1>5. QED BY <1>1, <1>2, <1>3, <1>4 DEF Heard, SeenUpTo

\* What makes up the type of a later state, in the order the steps give it.
LEMMA TypeOf ==
    ASSUME now' \in 0 .. MaxFrames, playback' \in {"none", "generation", "tail"},
           topic' \in {"language", "numeric", "open"},
           turn' \in [handled : BOOLEAN, postBarge : BOOLEAN, listening : BOOLEAN],
           greeted' \in BOOLEAN, inSpeech' \in BOOLEAN,
           spoke' \in BOOLEAN, enrolled' \in BOOLEAN,
           speech' \in 0 .. OnsetFrames, silence' \in 0 .. now',
           evidence' \in EvidenceUpTo(now'), audio' \in Seq(1 .. now'),
           transition' \in {"none", "BARGE_IN", "SPEECH_STARTED", "SPEECH_ENDED"},
           seen' \in SeenUpTo(now')
    PROVE  TypeOK'
  BY DEF TypeOK, EvidenceUpTo, SeenUpTo

\* The parts a frame may change.
PartsTyped ==
    /\ playback' \in {"none", "generation", "tail"}
    /\ turn' \in [handled : BOOLEAN, postBarge : BOOLEAN, listening : BOOLEAN]
    /\ inSpeech' \in BOOLEAN /\ speech' \in 0 .. OnsetFrames /\ silence' \in 0 .. now'
    /\ evidence' \in EvidenceUpTo(now') /\ audio' \in Seq(1 .. now')
    /\ transition' \in {"none", "BARGE_IN", "SPEECH_STARTED", "SPEECH_ENDED"}
    /\ seen' \in SeenUpTo(now')

LEMMA RecordsType ==
    ASSUME TypeOK, now' = now + 1, Records
    PROVE  audio' \in Seq(1 .. now')
<1>1. audio \in Seq(1 .. now') /\ now' \in Nat \ {0}
  BY Later
<1>2. now' \in 1 .. now'
  BY <1>1
<1>3. Append(audio, now') \in Seq(1 .. now')
  BY <1>1, <1>2
<1>4. QED BY <1>1, <1>3 DEF Records

LEMMA FrameParts ==
    ASSUME TypeOK, now' = now + 1,
           \/ Ignores \/ \E as \in Heardable : Waits(as) \/ Interrupts(as)
           \/ Speaks \/ Starts \/ Pauses \/ Ends
    PROVE  PartsTyped
<1>1. /\ now \in Nat /\ now' \in Nat \ {0}
      /\ evidence \in EvidenceUpTo(now')
      /\ audio \in Seq(1 .. now')
      /\ seen \in SeenUpTo(now')
      /\ silence + 1 \in 0 .. now' /\ silence \in 0 .. now'
  BY Later
<1>2. /\ playback \in {"none", "generation", "tail"}
      /\ turn \in [handled : BOOLEAN, postBarge : BOOLEAN, listening : BOOLEAN]
      /\ inSpeech \in BOOLEAN /\ speech \in 0 .. OnsetFrames
  BY DEF TypeOK
<1>3. /\ 0 \in 0 .. OnsetFrames /\ 0 \in 0 .. now' /\ now' \in 0 .. now'
      /\ Least(speech + 1, OnsetFrames) \in 0 .. OnsetFrames
  BY <1>1, <1>2, Thresholds DEF Least
<1>4. Opened \in 0 .. now' /\ Began \in 0 .. now'
  BY <1>1, <1>3 DEF Opened, Began, SeenUpTo
<1>5. NewTurn \in [handled : BOOLEAN, postBarge : BOOLEAN, listening : BOOLEAN]
  BY DEF NewTurn
<1>6. Forget => evidence' \in EvidenceUpTo(now')
  <2>1. ASSUME Forget PROVE evidence' \in EvidenceUpTo(now')
    <3>1. \A q : q = <<>> => q \in Seq(1 .. now')
      BY EmptyIsOver
    <3>2. QED BY <1>1, <2>1, <3>1 DEF Forget, EvidenceUpTo
  <2>2. QED BY <2>1
<1>7. Latest \subseteq 1 .. now'
  BY DEF Latest
<1>8. CASE Ignores
  <2>1. audio' \in Seq(1 .. now')
    BY <1>8, RecordsType DEF Ignores
  <2>2. seen' \in SeenUpTo(now')
    BY <1>1, <1>3, <1>4, <1>8 DEF Ignores, SeenUpTo
  <2>3. QED BY <1>1, <1>2, <1>8, <2>1, <2>2 DEF Ignores, PartsTyped
<1>9. ASSUME NEW as \in Heardable, Waits(as) PROVE PartsTyped
  <2>1. audio' \in Seq(1 .. now')
    BY <1>9, RecordsType DEF Waits
  <2>2. seen' \in SeenUpTo(now')
    <3>1. [seen EXCEPT !.run = 0, !.since = Opened] \in SeenUpTo(now')
      BY <1>1, <1>3, <1>4 DEF SeenUpTo
    <3>2. QED BY <1>9, <3>1, HeardType DEF Waits
  <2>3. evidence' \in EvidenceUpTo(now')
    BY <1>9, WeighsType DEF Waits
  <2>4. turn' \in [handled : BOOLEAN, postBarge : BOOLEAN, listening : BOOLEAN]
    BY <1>2, <1>9 DEF Waits
  <2>5. speech' \in 0 .. OnsetFrames /\ silence' \in 0 .. now'
    BY <1>1, <1>2, <1>3, <1>9 DEF Waits
  <2>6. QED BY <1>1, <1>2, <1>9, <2>1, <2>2, <2>3, <2>4, <2>5 DEF Waits, PartsTyped
<1>10. ASSUME NEW as \in Heardable, Interrupts(as) PROVE PartsTyped
  <2>1. Weighs(as).pre \in Seq(1 .. now')
    BY WeighsType DEF EvidenceUpTo
  <2>2. PreRolled(Len(Weighs(as).pre)) \in Seq(1 .. now')
    <3>1. Len(Weighs(as).pre) \in Nat
      <4>1. \A q : q \in Seq(1 .. now') => Len(q) \in Nat
        OBVIOUS
      <4>2. QED BY <2>1, <4>1
    <3>2. PreRolled(Len(Weighs(as).pre)) \in Seq(Latest)
      BY <1>1, <3>1, PreRolledIsLatest
    <3>3. QED BY <1>7, <3>2, SeqWithin
  <2>3. audio' \in Seq(1 .. now')
    BY <1>10, <2>1, <2>2, ConcatProperties DEF Interrupts
  <2>4. seen' \in SeenUpTo(now')
    BY <1>1, <1>3, <1>10, HeardType DEF Interrupts, SeenUpTo
  <2>5. evidence' \in EvidenceUpTo(now')
    BY <1>1, <1>10, NoEvidenceType DEF Interrupts
  <2>6. QED BY <1>1, <1>2, <1>3, <1>10, <2>3, <2>4, <2>5 DEF Interrupts, PartsTyped
<1>11. CASE Speaks
  <2>1. audio' \in Seq(1 .. now')
    BY <1>11, RecordsType DEF Speaks
  <2>2. seen' \in SeenUpTo(now')
    BY <1>1, <1>3, <1>4, <1>11 DEF Speaks, SeenUpTo
  <2>3. QED BY <1>1, <1>2, <1>3, <1>11, <2>1, <2>2 DEF Speaks, PartsTyped
<1>12. CASE Starts
  <2>1. audio' \in Seq(1 .. now')
    <3>1. Ring \in Seq(1 .. now')
      BY <1>1, <1>7, RingIsLatest, SeqWithin
    <3>2. now' \in 1 .. now'
      BY <1>1
    <3>3. Append(Ring, now') \in Seq(1 .. now')
      BY <3>1, <3>2
    <3>4. QED BY <1>12, <3>3 DEF Starts
  <2>2. seen' \in SeenUpTo(now')
    BY <1>1, <1>3, <1>4, <1>12 DEF Starts, SeenUpTo
  <2>3. turn' \in [handled : BOOLEAN, postBarge : BOOLEAN, listening : BOOLEAN]
    BY <1>2, <1>5, <1>12 DEF Starts
  <2>4. QED BY <1>1, <1>2, <1>3, <1>12, <2>1, <2>2, <2>3 DEF Starts, PartsTyped
<1>13. CASE Pauses
  <2>1. audio' \in Seq(1 .. now')
    BY <1>13, RecordsType DEF Pauses
  <2>2. seen' \in SeenUpTo(now')
    BY <1>1, <1>3, <1>13 DEF Pauses, SeenUpTo
  <2>3. silence' \in 0 .. now'
    BY <1>1, <1>13 DEF Pauses
  <2>4. QED BY <1>1, <1>2, <1>3, <1>6, <1>13, <2>1, <2>2, <2>3 DEF Pauses, PartsTyped
<1>14. CASE Ends
  <2>1. audio' \in Seq(1 .. now')
    BY <1>14, EmptyIsOver DEF Ends
  <2>2. seen' \in SeenUpTo(now')
    BY <1>1, <1>3, <1>14 DEF Ends, SeenUpTo
  <2>3. turn' \in [handled : BOOLEAN, postBarge : BOOLEAN, listening : BOOLEAN]
    BY <1>2, <1>14 DEF Ends
  <2>4. QED BY <1>1, <1>2, <1>3, <1>6, <1>14, <2>1, <2>2, <2>3 DEF Ends, PartsTyped
<1>15. QED BY <1>8, <1>9, <1>10, <1>11, <1>12, <1>13, <1>14

LEMMA TypeInit == Init => TypeOK
<1> SUFFICES ASSUME Init PROVE TypeOK
  OBVIOUS
<1>1. now = 0 /\ now \in Nat /\ 0 \in 0 .. now /\ 0 \in 0 .. MaxFrames /\ 0 \in 0 .. OnsetFrames
  BY Thresholds DEF Init
<1>2. evidence \in EvidenceUpTo(now)
  BY <1>1, NoEvidenceType DEF Init
<1>3. audio \in Seq(1 .. now)
  BY EmptyIsOver DEF Init
<1>4. seen \in SeenUpTo(now)
  BY <1>1 DEF Init, Unseen, SeenUpTo
<1>5. turn \in [handled : BOOLEAN, postBarge : BOOLEAN, listening : BOOLEAN]
  BY DEF Init, NewTurn
<1>6. QED BY <1>1, <1>2, <1>3, <1>4, <1>5 DEF Init, TypeOK, EvidenceUpTo, SeenUpTo

\* The caller's frames and what the rest of the engine does keep the types.
LEMMA TypeStep == TypeOK /\ [Next]_vars => TypeOK'
<1> SUFFICES ASSUME TypeOK, [Next]_vars PROVE TypeOK'
  OBVIOUS
<1>1. CASE Frame
  <2>1. now' = now + 1 /\ now < MaxFrames
    BY <1>1, FrameCases
  <2>2. PartsTyped
    BY <1>1, <2>1, FrameCases, FrameParts
  <2>3. now' \in 0 .. MaxFrames
    BY <2>1, Thresholds DEF TypeOK
  <2>4. greeted' \in BOOLEAN /\ spoke' \in BOOLEAN /\ enrolled' \in BOOLEAN
        /\ topic' \in {"language", "numeric", "open"}
    BY <1>1, FrameCases DEF TypeOK
  <2>5. QED BY <2>2, <2>3, <2>4, TypeOf DEF PartsTyped
<1>2. now \in Nat /\ 0 \in 0 .. now /\ 0 \in 0 .. OnsetFrames
      /\ evidence \in EvidenceUpTo(now) /\ seen \in SeenUpTo(now)
  BY Thresholds DEF TypeOK, EvidenceUpTo, SeenUpTo
<1>3. CASE PlaybackStarts \/ AnswerComes
  <2>1. turn' \in [handled : BOOLEAN, postBarge : BOOLEAN, listening : BOOLEAN]
    BY <1>3 DEF PlaybackStarts, AnswerComes, NewTurn, TypeOK
  <2>2. (seen.taken \/ (inSpeech /\ ~turn'.listening)) \in BOOLEAN
    OBVIOUS
  <2>3. seen' \in SeenUpTo(now)
    BY <1>2, <1>3, <2>2 DEF PlaybackStarts, AnswerComes, TurnIsTaken, SeenUpTo
  <2>4. QED BY <1>3, <2>1, <2>3 DEF PlaybackStarts, AnswerComes, TypeOK, SeenUpTo
<1>4. CASE PlaybackEnds
  <2>1. seen' \in SeenUpTo(now)
    BY <1>2, <1>4 DEF PlaybackEnds, SeenUpTo
  <2>2. turn' \in [handled : BOOLEAN, postBarge : BOOLEAN, listening : BOOLEAN]
    BY <1>4 DEF PlaybackEnds, TypeOK
  <2>3. QED BY <1>4, <2>1, <2>2 DEF PlaybackEnds, TypeOK, SeenUpTo
<1>5. CASE GreetingPlays
  <2>1. seen' \in SeenUpTo(now)
    BY <1>2, <1>5 DEF GreetingPlays, SeenUpTo
  <2>2. evidence' \in EvidenceUpTo(now)
    BY <1>2, <1>5, NoEvidenceType DEF GreetingPlays
  <2>3. turn' \in [handled : BOOLEAN, postBarge : BOOLEAN, listening : BOOLEAN]
    BY <1>5 DEF GreetingPlays, NewTurn
  <2>4. QED BY <1>2, <1>5, <2>1, <2>2, <2>3 DEF GreetingPlays, TypeOK, SeenUpTo, EvidenceUpTo
<1>6. CASE TopicChanges
  BY <1>6 DEF TopicChanges, TypeOK
<1>7. CASE UNCHANGED vars
  BY <1>7 DEF vars, TypeOK
<1>8. QED BY <1>1, <1>3, <1>4, <1>5, <1>6, <1>7 DEF Next

-----------------------------------------------------------------------------
(* The bucket.                                                               *)

LEMMA Numbers ==
    ASSUME TypeOK
    PROVE  /\ evidence.bucket \in Int /\ evidence.bucket >= 0
           /\ evidence.counts \in [Kinds -> Int]
           /\ \A k \in Kinds : evidence.counts[k] \in Int /\ evidence.counts[k] >= 0
           /\ seen.run \in Int /\ seen.run >= 0 /\ seen.word \in BOOLEAN
           /\ now \in Int /\ silence \in Int /\ silence >= 0
           /\ speech \in Int /\ speech >= 0
           /\ seen.last \in Int /\ seen.given \in Int /\ seen.since \in Int
           /\ seen.last <= now /\ seen.given <= now /\ seen.since <= now
           /\ seen.since >= 0 /\ seen.given >= 0
<1>1. now \in Int
  BY DEF TypeOK
<1>2. \A x \in 0 .. now : x \in Int /\ x >= 0 /\ x <= now
  BY <1>1
<1>3. /\ evidence.bucket \in 0 .. now /\ evidence.counts \in [Kinds -> 0 .. now]
      /\ seen.run \in 0 .. now /\ seen.last \in 0 .. now /\ seen.given \in 0 .. now
      /\ seen.since \in 0 .. now /\ silence \in 0 .. now /\ seen.word \in BOOLEAN
  BY DEF TypeOK
<1>4. speech \in Int /\ speech >= 0
  BY Thresholds DEF TypeOK
<1>5. evidence.counts \in [Kinds -> Int]
  BY <1>2, <1>3
<1>6. QED BY <1>1, <1>2, <1>3, <1>4, <1>5

LEMMA AllKinds == Kinds = {"strong", "quiet", "hum"}
  BY DEF Kinds

LEMMA NothingConfirms == ~Confirmed(NoEvidence)
<1>1. /\ NoEvidence.bucket = 0
      /\ \A k \in Kinds : NoEvidence.counts[k] = 0
  BY DEF NoEvidence
<1>2. QED BY <1>1, AllKinds, Thresholds DEF Confirmed, Threshold

\* An empty bucket, whoever emptied it.
LEMMA BucketEmptied ==
    ASSUME evidence' = NoEvidence, seen'.run = 0
    PROVE  Bucket'
<1>1. /\ evidence'.bucket = 0
      /\ \A k \in Kinds : evidence'.counts[k] = 0
  BY DEF NoEvidence
<1>2. NotConfirmed'
  BY NothingConfirms DEF NotConfirmed
<1>3. QED BY <1>1, <1>2, AllKinds DEF Bucket, EmptyIsNew, OnlyHums, RunIsHeld

\* The steps that do not weigh a frame keep the bucket, and strong frames are
\* in a row only where they were before.
Unweighed ==
    /\ evidence'.bucket = evidence.bucket /\ evidence'.counts = evidence.counts
    /\ seen'.word = seen.word
    /\ seen'.run = 0 \/ seen'.run = seen.run

LEMMA UnweighedSteps ==
    ASSUME TypeOK,
           \/ Ignores
           \/ Speaks \/ Starts \/ Pauses \/ Ends
           \/ PlaybackStarts \/ PlaybackEnds \/ AnswerComes \/ TopicChanges \/ UNCHANGED vars
    PROVE  Unweighed
<1>1. /\ evidence = [bucket |-> evidence.bucket, counts |-> evidence.counts, pre |-> evidence.pre]
      /\ DOMAIN seen = {"word", "run", "last", "given", "since", "taken"}
  BY DEF TypeOK
<1>2. CASE Ignores
  BY <1>1, <1>2 DEF Ignores, Unweighed
<1>3. CASE Speaks \/ Starts
  BY <1>1, <1>3 DEF Speaks, Starts, Unweighed
<1>4. CASE Pauses \/ Ends
  BY <1>1, <1>4 DEF Pauses, Ends, Forget, Unweighed
<1>5. CASE PlaybackStarts \/ PlaybackEnds \/ AnswerComes \/ TopicChanges \/ UNCHANGED vars
  BY <1>1, <1>5 DEF PlaybackStarts, PlaybackEnds, AnswerComes, TurnIsTaken, TopicChanges, vars, Unweighed
<1>6. QED BY <1>2, <1>3, <1>4, <1>5

LEMMA UnweighedBucket ==
    ASSUME TypeOK, Bucket, StrongSpeechInterrupts, Unweighed
    PROVE  Bucket' /\ StrongSpeechInterrupts'
<1>1. NotConfirmed'
  BY DEF Bucket, NotConfirmed, Confirmed, Unweighed
<1>2. QED BY <1>1, Numbers, AllKinds, Thresholds
          DEF Bucket, EmptyIsNew, OnlyHums, RunIsHeld, Unweighed, StrongSpeechInterrupts

LEMMA HeardParts ==
    ASSUME TypeOK, NEW as
    PROVE  /\ Heard(as).word <=> (as # "hum" \/ (evidence.bucket > 0 /\ seen.word))
           /\ Heard(as).run = IF as = "strong" THEN seen.run + 1 ELSE 0
           /\ Heard(as).last = now' /\ Heard(as).since = Opened
           /\ Heard(as).given = seen.given /\ Heard(as).taken = seen.taken
           /\ DOMAIN seen = {"word", "run", "last", "given", "since", "taken"}
<1>1. DOMAIN seen = {"word", "run", "last", "given", "since", "taken"}
  BY DEF TypeOK
<1>2. QED BY <1>1 DEF Heard

\* A frame that fills the bucket.
LEMMA FilledBucket ==
    ASSUME TypeOK, now' = now + 1, Bucket, StrongSpeechInterrupts,
           NEW as \in Heardable, Qualifies(as)
    PROVE  /\ ~Heard(as).word => /\ as = "hum"
                                 /\ Weighs(as).counts["strong"] = 0
                                 /\ Weighs(as).counts["quiet"] = 0
                                 /\ Weighs(as).bucket <= Weighs(as).counts["hum"]
           /\ Heard(as).run <= Weighs(as).bucket
           /\ Heard(as).run <= Weighs(as).counts["strong"]
           /\ Weighs(as).bucket >= 1
           /\ Heard(as).run <= StrongConfirm
           /\ Heard(as).run \in Int /\ Weighs(as).bucket \in Int
           /\ \A k \in Kinds : /\ Weighs(as).counts[k] \in Int
                                /\ Weighs(as).counts[k] >= 0
<1> DEFINE e == evidence
           w == Weighs(as)
<1>1. /\ w.bucket = e.bucket + 1
      /\ as = "plain" => w.counts = e.counts
      /\ as # "plain" => as \in Kinds /\ w.counts = [e.counts EXCEPT ![as] = @ + 1]
  <2>1. w # NoEvidence \/ Qualifies(as)
    OBVIOUS
  <2>2. as # "miss"
    BY DEF Qualifies, Kinds
  <2>3. QED BY <2>2, WeighsCases
<1> HIDE DEF w
<1>2. \A k \in Kinds : w.counts[k] = IF k = as THEN e.counts[k] + 1 ELSE e.counts[k]
  BY <1>1, Numbers, AllKinds
<1>3. /\ w.counts["strong"] = IF as = "strong" THEN e.counts["strong"] + 1 ELSE e.counts["strong"]
      /\ w.counts["quiet"] = IF as = "quiet" THEN e.counts["quiet"] + 1 ELSE e.counts["quiet"]
      /\ w.counts["hum"] = IF as = "hum" THEN e.counts["hum"] + 1 ELSE e.counts["hum"]
  BY <1>2, AllKinds
<1>4. ASSUME NEW k \in Kinds
      PROVE  w.counts[k] \in Int /\ w.counts[k] >= 0
  <2>1. e.counts[k] \in Int /\ e.counts[k] >= 0
    BY Numbers
  <2>2. w.counts[k] = e.counts[k] + 1 \/ w.counts[k] = e.counts[k]
    BY <1>2
  <2>3. QED BY <2>1, <2>2
<1>5. /\ Heard(as).word <=> (as # "hum" \/ (e.bucket > 0 /\ seen.word))
      /\ Heard(as).run = IF as = "strong" THEN seen.run + 1 ELSE 0
  BY HeardParts
<1>6. /\ e.bucket \in Int /\ e.bucket >= 0 /\ seen.run \in Int
      /\ e.counts["strong"] \in Int /\ e.counts["quiet"] \in Int /\ e.counts["hum"] \in Int
      /\ e.counts["strong"] >= 0
  BY Numbers, AllKinds
<1>7. ASSUME ~Heard(as).word
      PROVE  /\ as = "hum" /\ w.counts["strong"] = 0 /\ w.counts["quiet"] = 0
             /\ w.bucket <= w.counts["hum"]
  <2>1. as = "hum" /\ (e.bucket = 0 \/ ~seen.word)
    <3>1. as = "hum" /\ ~(e.bucket > 0 /\ seen.word)
      BY <1>5, <1>7, Zenon
    <3>2. e.bucket > 0 \/ e.bucket = 0
      BY <1>6
    <3>3. QED BY <3>1, <3>2, Zenon
  <2>2. e.counts["strong"] = 0 /\ e.counts["quiet"] = 0 /\ e.bucket <= e.counts["hum"]
    BY <2>1, AllKinds DEF Bucket, EmptyIsNew, OnlyHums
  <2>3. QED BY <1>1, <1>3, <1>6, <2>1, <2>2
<1>8. /\ Heard(as).run <= w.bucket /\ Heard(as).run <= w.counts["strong"]
      /\ Heard(as).run \in Int /\ Heard(as).run <= StrongConfirm
  <2>1. CASE as = "strong"
    <3>1. Heard(as).run = seen.run + 1 /\ w.counts["strong"] = e.counts["strong"] + 1
      BY <1>3, <1>5, <2>1
    <3>2. seen.run <= e.bucket /\ seen.run <= e.counts["strong"] /\ seen.run < StrongConfirm
      BY DEF Bucket, RunIsHeld, StrongSpeechInterrupts
    <3>3. QED BY <1>1, <1>6, <3>1, <3>2, Thresholds
  <2>2. CASE as # "strong"
    <3>1. Heard(as).run = 0 /\ w.counts["strong"] = e.counts["strong"]
      BY <1>3, <1>5, <2>2
    <3>2. QED BY <1>1, <1>6, <3>1, Thresholds
  <2>3. QED BY <2>1, <2>2
<1>9. w.bucket >= 1 /\ w.bucket \in Int
  BY <1>1, <1>6
<1>10. QED BY <1>4, <1>7, <1>8, <1>9 DEF w

LEMMA StrongThreshold ==
    ASSUME NEW c, c["strong"] \in Int, c["strong"] >= StrongFrames
    PROVE  Threshold(c) = StrongConfirm
<1>1. ~(c["strong"] < StrongFrames)
  BY Thresholds
<1>2. QED BY <1>1 DEF Threshold

LEMMA BucketStep ==
    ASSUME TypeOK, Bucket, StrongSpeechInterrupts, [Next]_vars
    PROVE  Bucket' /\ StrongSpeechInterrupts'
<1> USE DEF StrongSpeechInterrupts
<1>1. CASE Frame
  <2>1. now' = now + 1
    BY <1>1, FrameCases
  <2>2. ASSUME NEW as \in Heardable, Waits(as)
        PROVE  Bucket' /\ StrongSpeechInterrupts'
    <3>1. evidence' = Weighs(as) /\ ~Confirmed(Weighs(as))
      BY <2>2 DEF Waits
    <3>2. NotConfirmed'
      BY <3>1 DEF NotConfirmed
    <3>3. CASE Qualifies(as)
      <4>1. seen' = Heard(as)
        BY <2>2, <3>3 DEF Waits
      <4>2. EmptyIsNew' /\ OnlyHums' /\ RunIsHeld'
        <5>1. evidence'.bucket \in Int /\ evidence'.bucket >= 1
          BY <2>1, <3>1, <3>3, FilledBucket
        <5>2. EmptyIsNew'
          BY <5>1 DEF EmptyIsNew
        <5>3. OnlyHums'
          BY <2>1, <3>1, <3>3, <4>1, FilledBucket, Zenon DEF OnlyHums
        <5>4. RunIsHeld'
          BY <2>1, <3>1, <3>3, <4>1, FilledBucket, Zenon DEF RunIsHeld
        <5>5. QED BY <5>2, <5>3, <5>4
      <4>3. Heard(as).run # StrongConfirm
        <5>1. SUFFICES ASSUME Heard(as).run = StrongConfirm PROVE FALSE
          OBVIOUS
        <5>2. /\ Weighs(as).bucket >= StrongConfirm
              /\ Weighs(as).counts["strong"] >= StrongConfirm
              /\ Weighs(as).bucket \in Int /\ Weighs(as).counts["strong"] \in Int
          BY <2>1, <3>3, <5>1, FilledBucket, AllKinds, Thresholds
        <5>3. \A n \in Int : n >= StrongConfirm => n # 0 /\ n >= StrongFrames
          BY Thresholds
        <5>4. /\ Weighs(as).counts["strong"] # 0
              /\ Weighs(as).counts["strong"] >= StrongFrames
          BY <5>2, <5>3
        <5>5. Threshold(Weighs(as).counts) = StrongConfirm
          BY <5>2, <5>4, StrongThreshold
        <5>6. QED BY <3>1, <5>2, <5>4, <5>5 DEF Confirmed, Passive
      <4>4. seen'.run < StrongConfirm
        <5>1. Heard(as).run \in Int /\ Heard(as).run <= StrongConfirm
          BY <2>1, <3>3, FilledBucket
        <5>2. \A n \in Int : n <= StrongConfirm /\ n # StrongConfirm => n < StrongConfirm
          BY Thresholds
        <5>3. QED BY <4>1, <4>3, <5>1, <5>2
      <4>5. QED BY <3>2, <4>2, <4>4 DEF Bucket
    <3>4. CASE ~Qualifies(as)
      <4>1. seen' = [seen EXCEPT !.run = 0, !.since = Opened]
        BY <2>2, <3>4 DEF Waits
      <4>2. seen'.run = 0 /\ seen'.word = seen.word
        BY <4>1 DEF TypeOK
      <4>3. CASE Weighs(as) = NoEvidence
        BY <3>1, <4>2, <4>3, BucketEmptied, Thresholds
      <4>4. CASE /\ evidence.bucket > 1
                 /\ Weighs(as).bucket = evidence.bucket - 1
                 /\ Weighs(as).counts = evidence.counts
        <5>1. /\ evidence'.bucket = evidence.bucket - 1 /\ evidence.bucket > 1
              /\ evidence'.counts = evidence.counts
          BY <3>1, <4>4
        <5>2. /\ evidence.bucket \in Int /\ evidence.counts["hum"] \in Int
              /\ evidence.counts["strong"] \in Int /\ evidence.counts["strong"] >= 0
          BY Numbers, AllKinds
        <5>3. EmptyIsNew' /\ RunIsHeld'
          BY <4>2, <5>1, <5>2 DEF EmptyIsNew, RunIsHeld
        <5>4. OnlyHums'
          BY <4>2, <5>1, <5>2 DEF OnlyHums, Bucket
        <5>5. QED BY <3>2, <4>2, <5>3, <5>4, Thresholds DEF Bucket
      <4>5. QED BY <2>1, <3>4, <4>3, <4>4, WeighsCases
    <3>5. QED BY <3>3, <3>4
  <2>3. ASSUME NEW as \in Heardable, Interrupts(as)
        PROVE  Bucket' /\ StrongSpeechInterrupts'
    <3>1. evidence' = NoEvidence /\ seen'.run = 0
      BY <2>3, HeardParts DEF Interrupts, Heard
    <3>2. QED BY <3>1, BucketEmptied, Thresholds
  <2>4. CASE Ignores \/ Speaks \/ Starts \/ Pauses \/ Ends
    <3>1. Unweighed
      BY <2>4, UnweighedSteps
    <3>2. QED BY <3>1, UnweighedBucket
  <2>5. QED BY <1>1, <2>2, <2>3, <2>4, FrameCases
<1>2. CASE PlaybackStarts \/ PlaybackEnds \/ AnswerComes \/ TopicChanges \/ UNCHANGED vars
  BY <1>2, UnweighedSteps, UnweighedBucket
<1>3. CASE GreetingPlays
  <2>1. evidence' = NoEvidence /\ seen'.run = 0
    BY <1>3 DEF GreetingPlays, TypeOK
  <2>2. QED BY <2>1, BucketEmptied, Thresholds
<1>4. QED BY <1>1, <1>2, <1>3 DEF Next

LEMMA ThresholdIsNumber ==
    ASSUME NEW c
    PROVE  Threshold(c) \in Int
<1>1. Threshold(c) \in {StrongConfirm, SlowConfirm, NormalConfirm}
  BY DEF Threshold
<1>2. QED BY <1>1, Thresholds

\* An interruption is confirmed by a frame that fills the bucket, and with a
\* word in it.
LEMMA WordsConfirm ==
    ASSUME TypeOK, now' = now + 1, Bucket, StrongSpeechInterrupts,
           NEW as \in Heardable, Confirmed(Weighs(as))
    PROVE  Qualifies(as) /\ Heard(as).word
<1> DEFINE w == Weighs(as)
<1>1. w # NoEvidence
  BY NothingConfirms
<1>2. Qualifies(as)
  <2>1. SUFFICES ASSUME ~Qualifies(as) PROVE FALSE
    OBVIOUS
  <2>2. w.bucket = evidence.bucket - 1 /\ w.counts = evidence.counts
    BY <1>1, <2>1, WeighsCases
  <2>3. w.bucket >= Threshold(evidence.counts) /\ ~Passive(evidence.counts)
    BY <2>2 DEF Confirmed
  <2>4. evidence.bucket >= Threshold(evidence.counts)
    BY <2>2, <2>3, Numbers, ThresholdIsNumber
  <2>5. QED BY <2>3, <2>4 DEF Bucket, NotConfirmed, Confirmed
<1>3. Heard(as).word
  <2>1. SUFFICES ASSUME ~Heard(as).word PROVE FALSE
    OBVIOUS
  <2>2. /\ w.counts["strong"] = 0 /\ w.counts["quiet"] = 0
        /\ w.bucket <= w.counts["hum"]
    BY <1>2, <2>1, FilledBucket, Zenon
  <2>3. w.bucket \in Int /\ w.bucket >= 1 /\ w.counts["hum"] \in Int
    BY <1>2, FilledBucket, AllKinds
  <2> HIDE DEF w
  <2>4. Threshold(w.counts) = SlowConfirm
    <3>1. ~(w.counts["strong"] >= StrongFrames) /\ ~(w.counts["quiet"] >= QuietFrames)
      BY <2>2, Thresholds
    <3>2. w.counts["hum"] # 0
      BY <2>2, <2>3
    <3>3. QED BY <3>1, <3>2 DEF Threshold
  <2>5. w.bucket >= SlowConfirm /\ ~Passive(w.counts)
    BY <2>4 DEF Confirmed, w
  <2>6. w.counts["hum"] >= HumFrames
    BY <2>2, <2>3, <2>5, Thresholds
  <2>7. 2 * w.counts["hum"] >= w.counts["strong"] + w.counts["quiet"] + w.counts["hum"]
    BY <2>2, <2>3
  <2>8. QED BY <2>2, <2>5, <2>6, <2>7 DEF Passive
<1>4. QED BY <1>2, <1>3

LEMMA HumsStep ==
    ASSUME TypeOK, Bucket, StrongSpeechInterrupts, HumsNeverInterrupt, [Next]_vars
    PROVE  HumsNeverInterrupt'
<1>1. CASE Frame
  <2>1. now' = now + 1
    BY <1>1, FrameCases
  <2>2. ASSUME NEW as \in Heardable, Interrupts(as) PROVE HumsNeverInterrupt'
    <3>1. Heard(as).word
      BY <2>1, <2>2, WordsConfirm DEF Interrupts
    <3>2. seen'.word = Heard(as).word
      BY <2>2, HeardParts DEF Interrupts, Heard
    <3>3. QED BY <3>1, <3>2 DEF HumsNeverInterrupt
  <2>3. (\E as \in Heardable : Waits(as)) \/ Ignores \/ Speaks \/ Starts \/ Pauses \/ Ends
            => transition' # "BARGE_IN"
    BY DEF Waits, Ignores, Speaks, Starts, Pauses, Ends
  <2>4. QED BY <1>1, <2>2, <2>3, FrameCases DEF HumsNeverInterrupt
<1>2. CASE PlaybackStarts \/ GreetingPlays
  BY <1>2 DEF PlaybackStarts, GreetingPlays, HumsNeverInterrupt
<1>3. CASE PlaybackEnds \/ AnswerComes \/ TopicChanges \/ UNCHANGED vars
  BY <1>3 DEF PlaybackEnds, AnswerComes, TurnIsTaken, TopicChanges, vars, HumsNeverInterrupt, TypeOK
<1>4. QED BY <1>1, <1>2, <1>3 DEF Next

-----------------------------------------------------------------------------
(* The recording.                                                            *)

\* What a frame notes of the utterance.
LEMMA SeenAfter ==
    ASSUME TypeOK
    PROVE  /\ Ignores => /\ seen'.last = seen.last /\ seen'.given = seen.given
                         /\ seen'.since = Opened /\ seen'.taken = seen.taken
           /\ \A as : Waits(as) => /\ seen'.given = seen.given /\ seen'.since = Opened
                                   /\ seen'.taken = seen.taken
                                   /\ Qualifies(as) => seen'.last = now'
                                   /\ ~Qualifies(as) => seen'.last = seen.last
           /\ \A as : Interrupts(as) => /\ seen'.given = seen.given
                                        /\ seen'.last = now' /\ seen'.since = now'
           /\ Speaks \/ Starts => /\ seen'.given = seen.given /\ seen'.last = now'
                                  /\ seen'.since = Began
           /\ Speaks \/ Pauses => seen'.taken = seen.taken
           /\ Pauses => /\ seen'.last = seen.last /\ seen'.given = seen.given
                        /\ seen'.since = IF inSpeech THEN seen.since ELSE 0
           /\ Ends => /\ seen'.last = seen.last /\ seen'.given = seen.last
                      /\ seen'.since = 0
<1>1. DOMAIN seen = {"word", "run", "last", "given", "since", "taken"}
  BY DEF TypeOK
<1>2. ASSUME NEW as, Waits(as)
      PROVE  /\ seen'.given = seen.given /\ seen'.since = Opened
             /\ seen'.taken = seen.taken
             /\ Qualifies(as) => seen'.last = now'
             /\ ~Qualifies(as) => seen'.last = seen.last
  <2>1. CASE Qualifies(as)
    BY <1>2, <2>1, HeardParts DEF Waits
  <2>2. CASE ~Qualifies(as)
    BY <1>1, <1>2, <2>2 DEF Waits
  <2>3. QED BY <2>1, <2>2
<1>3. ASSUME NEW as, Interrupts(as)
      PROVE  /\ seen'.given = seen.given
             /\ seen'.last = now' /\ seen'.since = now'
  BY <1>1, <1>3 DEF Interrupts, Heard
<1>4. QED BY <1>1, <1>2, <1>3 DEF Ignores, Speaks, Starts, Pauses, Ends

\* The steps between two frames, but for the greeting, leave the recording alone.
LEMMA Between ==
    ASSUME TypeOK, PlaybackStarts \/ PlaybackEnds \/ AnswerComes \/ TopicChanges \/ UNCHANGED vars
    PROVE  /\ UNCHANGED <<now, inSpeech, speech, silence, evidence, audio>>
           /\ seen'.last = seen.last /\ seen'.given = seen.given /\ seen'.since = seen.since
           /\ ~seen'.taken => ~seen.taken
           /\ inSpeech /\ ~seen'.taken /\ turn.listening => turn'.listening
           /\ transition' = "none" \/ transition' = transition
<1>1. /\ DOMAIN seen = {"word", "run", "last", "given", "since", "taken"}
      /\ DOMAIN turn = {"handled", "postBarge", "listening"}
  BY DEF TypeOK
<1>2. CASE PlaybackStarts \/ AnswerComes
  <2>1. TurnIsTaken
    BY <1>2 DEF PlaybackStarts, AnswerComes
  <2>2. seen'.taken = (seen.taken \/ (inSpeech /\ ~turn'.listening))
    BY <1>1, <2>1 DEF TurnIsTaken
  <2>3. seen'.last = seen.last /\ seen'.given = seen.given /\ seen'.since = seen.since
    BY <1>1, <2>1 DEF TurnIsTaken
  <2>4. QED BY <1>2, <2>2, <2>3, Zenon DEF PlaybackStarts, AnswerComes
<1>3. CASE PlaybackEnds
  <2>1. turn'.listening = turn.listening \/ turn'.listening = TRUE
    BY <1>1, <1>3 DEF PlaybackEnds
  <2>2. QED BY <1>1, <1>3, <2>1 DEF PlaybackEnds
<1>4. CASE TopicChanges \/ UNCHANGED vars
  BY <1>4 DEF TopicChanges, vars
<1>5. QED BY <1>2, <1>3, <1>4

LEMMA SilenceStep ==
    ASSUME TypeOK, SilenceIsQuiet, [Next]_vars
    PROVE  SilenceIsQuiet'
<1>1. /\ now \in Int /\ silence \in Int /\ seen.last \in Int
      /\ inSpeech => seen.last + silence <= now
  BY Numbers DEF SilenceIsQuiet
<1>2. CASE Frame
  <2>1. now' = now + 1
    BY <1>2, FrameCases
  <2>2. ASSUME NEW as \in Heardable, Waits(as) PROVE SilenceIsQuiet'
    <3>1. CASE Qualifies(as)
      <4>1. silence' = 0 /\ seen'.last = now'
        BY <2>2, <3>1, SeenAfter DEF Waits
      <4>2. QED BY <1>1, <2>1, <4>1 DEF SilenceIsQuiet
    <3>2. CASE ~Qualifies(as)
      BY <1>1, <2>1, <2>2, <3>2, SeenAfter DEF SilenceIsQuiet, Waits
    <3>3. QED BY <3>1, <3>2
  <2>3. ASSUME NEW as \in Heardable, Interrupts(as) PROVE SilenceIsQuiet'
    <3>1. silence' = 0 /\ seen'.last = now'
      BY <2>3, SeenAfter DEF Interrupts
    <3>2. QED BY <1>1, <2>1, <3>1 DEF SilenceIsQuiet
  <2>4. CASE Ignores
    BY <1>1, <2>1, <2>4, SeenAfter DEF SilenceIsQuiet, Ignores
  <2>5. CASE Speaks
    BY <1>1, <2>1, <2>5, SeenAfter DEF SilenceIsQuiet, Speaks
  <2>6. CASE Starts
    BY <1>1, <2>1, <2>6, SeenAfter DEF SilenceIsQuiet, Starts
  <2>7. CASE Pauses
    BY <1>1, <2>1, <2>7, SeenAfter DEF SilenceIsQuiet, Pauses
  <2>8. CASE Ends
    BY <2>8 DEF SilenceIsQuiet, Ends
  <2>9. QED BY <1>2, <2>2, <2>3, <2>4, <2>5, <2>6, <2>7, <2>8, FrameCases
<1>3. CASE PlaybackStarts \/ PlaybackEnds \/ AnswerComes \/ TopicChanges \/ UNCHANGED vars
  BY <1>1, <1>3, Between DEF SilenceIsQuiet
<1>4. CASE GreetingPlays
  BY <1>4 DEF GreetingPlays, SilenceIsQuiet
<1>5. QED BY <1>2, <1>3, <1>4 DEF Next

\* The silence that ended an utterance is at least as long as the ring.
LEMMA EndsAfterRing ==
    ASSUME TypeOK, SilenceIsQuiet, now' = now + 1, Ends
    PROVE  /\ EffectiveSilence \in Silences
           /\ seen.last + EffectiveSilence <= now' /\ seen.last + RingFrames <= now'
<1>1. /\ now \in Int /\ silence \in Int /\ seen.last \in Int
      /\ seen.last + silence <= now
  BY Numbers DEF SilenceIsQuiet, Ends
<1>2. EffectiveSilence \in Silences
  BY DEF EffectiveSilence, Silences
<1>3. EffectiveSilence \in Int /\ RingFrames <= EffectiveSilence /\ RingFrames \in Int
  BY <1>2, EverySilence, Thresholds
<1>4. silence + 1 >= EffectiveSilence
  BY DEF Ends
<1>5. QED BY <1>1, <1>2, <1>3, <1>4

LEMMA GivenStep ==
    ASSUME TypeOK, SilenceIsQuiet, GivenIsPast, [Next]_vars
    PROVE  GivenIsPast'
<1>1. /\ now \in Int /\ seen.given \in Int /\ RingFrames \in Int
      /\ seen.given = 0 \/ seen.given + RingFrames <= now
  BY Numbers, Thresholds DEF GivenIsPast
<1>2. CASE Frame
  <2>1. now' = now + 1
    BY <1>2, FrameCases
  <2>2. CASE Ends
    BY <2>1, <2>2, SeenAfter, EndsAfterRing DEF GivenIsPast
  <2>3. CASE ~Ends
    <3>1. seen'.given = seen.given
      BY <1>2, <2>3, SeenAfter, FrameCases
    <3>2. QED BY <1>1, <2>1, <3>1 DEF GivenIsPast
  <2>4. QED BY <2>2, <2>3
<1>3. CASE PlaybackStarts \/ PlaybackEnds \/ AnswerComes \/ TopicChanges \/ UNCHANGED vars
  BY <1>1, <1>3, Between DEF GivenIsPast
<1>4. CASE GreetingPlays
  <2>1. seen'.given = seen.given /\ now' = now
    BY <1>4 DEF GreetingPlays, TypeOK
  <2>2. QED BY <1>1, <2>1 DEF GivenIsPast
<1>5. QED BY <1>2, <1>3, <1>4 DEF Next

LEMMA OnsetStep ==
    ASSUME TypeOK, OnsetIsNear, [Next]_vars
    PROVE  OnsetIsNear'
<1>1. /\ now \in Int /\ speech \in Int /\ speech >= 0 /\ seen.since \in Int
      /\ OnsetFrames \in Int
  BY Numbers, Thresholds
<1>2. CASE Frame
  <2>1. now' = now + 1
    BY <1>2, FrameCases
  <2>2. CASE (\E as \in Heardable : Waits(as)) \/ Ignores
    <3>1. seen'.since = Opened /\ inSpeech' = inSpeech
      BY <2>2, SeenAfter DEF Waits, Ignores
    <3>2. QED BY <3>1 DEF OnsetIsNear, Opened
  <2>3. CASE Pauses \/ Ends
    <3>1. inSpeech' \/ seen'.since = 0
      BY <2>3, SeenAfter DEF Pauses
    <3>2. QED BY <3>1 DEF OnsetIsNear
  <2>4. CASE Starts \/ \E as \in Heardable : Interrupts(as)
    BY <2>4 DEF Starts, Interrupts, OnsetIsNear
  <2>5. CASE Speaks
    <3>1. CASE inSpeech
      BY <2>5, <3>1 DEF Speaks, OnsetIsNear
    <3>2. CASE ~inSpeech
      <4>1. speech' = speech + 1 /\ speech' < OnsetFrames
        BY <1>1, <2>5, <3>2 DEF Speaks, Least
      <4>2. seen'.since = IF seen.since > 0 THEN seen.since ELSE now'
        BY <2>5, <3>2, SeenAfter DEF Began
      <4>3. seen.since > 0 => now - seen.since < speech
        BY <3>2 DEF OnsetIsNear
      <4>4. now' - seen'.since < speech'
        BY <1>1, <2>1, <4>1, <4>2, <4>3
      <4>5. QED BY <4>1, <4>4 DEF OnsetIsNear
    <3>3. QED BY <3>1, <3>2
  <2>6. QED BY <1>2, <2>2, <2>3, <2>4, <2>5, FrameCases
<1>3. CASE PlaybackStarts \/ PlaybackEnds \/ AnswerComes \/ TopicChanges \/ UNCHANGED vars
  BY <1>3, Between DEF OnsetIsNear
<1>4. CASE GreetingPlays
  <2>1. seen'.since = 0
    BY <1>4 DEF GreetingPlays, TypeOK
  <2>2. QED BY <2>1 DEF OnsetIsNear
<1>5. QED BY <1>2, <1>3, <1>4 DEF Next

LEMMA CallersStep ==
    ASSUME TypeOK, TurnIsCallers, [Next]_vars
    PROVE  TurnIsCallers'
<1>1. CASE Frame
  <2>1. CASE Starts \/ \E as \in Heardable : Interrupts(as)
    <3>1. turn'.listening
      <4>1. CASE Starts
        BY <4>1 DEF Starts, NewTurn
      <4>2. CASE \E as \in Heardable : Interrupts(as)
        BY <4>2 DEF Interrupts
      <4>3. QED BY <2>1, <4>1, <4>2
    <3>2. QED BY <3>1, Zenon DEF TurnIsCallers
  <2>2. CASE (\E as \in Heardable : Waits(as)) \/ Ignores \/ Speaks \/ Pauses
    <3>1. inSpeech' = inSpeech /\ seen'.taken = seen.taken
      BY <2>2, SeenAfter DEF Waits, Ignores, Speaks, Pauses
    <3>2. turn'.listening = turn.listening
      BY <2>2 DEF Waits, Ignores, Speaks, Pauses, TypeOK
    <3>3. QED BY <3>1, <3>2 DEF TurnIsCallers
  <2>3. CASE Ends
    BY <2>3 DEF Ends, TurnIsCallers
  <2>4. QED BY <1>1, <2>1, <2>2, <2>3, FrameCases
<1>2. CASE PlaybackStarts \/ PlaybackEnds \/ AnswerComes \/ TopicChanges \/ UNCHANGED vars
  <2>1. /\ UNCHANGED <<now, inSpeech, speech, silence, evidence, audio>>
        /\ ~seen'.taken => ~seen.taken
        /\ inSpeech /\ ~seen'.taken /\ turn.listening => turn'.listening
    BY <1>2, Between, Zenon
  <2>2. QED BY <2>1, Zenon DEF TurnIsCallers
<1>3. CASE GreetingPlays
  BY <1>3 DEF GreetingPlays, TurnIsCallers
<1>4. QED BY <1>1, <1>2, <1>3 DEF Next

\* Numbers later than g, up to n.
After(g, n) == {x \in 1 .. n : x > g}

\* With every waiting frame in a set the sequences are over sets, and the steps
\* are about sets only.
LEMMA WaitingIsAfter ==
    ASSUME TypeOK
    PROVE  /\ WaitingIsNew => evidence.pre \in Seq(After(seen.given, now))
           /\ inSpeech /\ NothingIsTranscribedTwice => audio \in Seq(After(seen.given, now))
<1>1. evidence.pre \in Seq(1 .. now) /\ audio \in Seq(1 .. now)
  BY DEF TypeOK
<1>2. ASSUME WaitingIsNew PROVE evidence.pre \in Seq(After(seen.given, now))
  <2>1. \A i \in DOMAIN evidence.pre : evidence.pre[i] \in After(seen.given, now)
    <3>1. \A i \in DOMAIN evidence.pre : evidence.pre[i] \in 1 .. now
      BY <1>1, SeqElements
    <3>2. \A i \in DOMAIN evidence.pre : evidence.pre[i] > seen.given
      BY <1>2 DEF WaitingIsNew
    <3>3. QED BY <3>1, <3>2 DEF After
  <2>2. QED BY <1>1, <2>1, SeqOver
<1>3. ASSUME inSpeech, NothingIsTranscribedTwice
      PROVE  audio \in Seq(After(seen.given, now))
  <2>1. \A i \in DOMAIN audio : audio[i] \in After(seen.given, now)
    <3>1. \A i \in DOMAIN audio : audio[i] \in 1 .. now
      BY <1>1, SeqElements
    <3>2. \A i \in DOMAIN audio : audio[i] > seen.given
      BY <1>3 DEF NothingIsTranscribedTwice
    <3>3. QED BY <3>1, <3>2 DEF After
  <2>2. QED BY <1>1, <2>1, SeqOver
<1>4. QED BY <1>2, <1>3

LEMMA AfterIsNew ==
    ASSUME NEW g, NEW n, NEW q \in Seq(After(g, n))
    PROVE  \A i \in DOMAIN q : q[i] > g
  BY DEF After

\* A frame later they still are, and the frame itself is among them.
LEMMA AfterGrows ==
    ASSUME TypeOK, now' = now + 1
    PROVE  /\ After(seen.given, now) \subseteq After(seen.given, now')
           /\ now' \in After(seen.given, now')
           /\ GivenIsPast => Latest \subseteq After(seen.given, now')
<1>1. /\ now \in Int /\ now >= 0 /\ now' \in Int /\ RingFrames \in Int
      /\ seen.given \in Int /\ seen.given <= now /\ RingFrames >= 1
  BY Numbers, Thresholds DEF TypeOK
<1>2. /\ After(seen.given, now) \subseteq After(seen.given, now')
      /\ now' \in After(seen.given, now')
  BY <1>1 DEF After
<1>3. GivenIsPast => Latest \subseteq After(seen.given, now')
  BY <1>1 DEF After, Latest, GivenIsPast
<1>4. QED BY <1>2, <1>3

\* What waits is put after what waited.
LEMMA WeighsAfter ==
    ASSUME TypeOK, now' = now + 1, WaitingIsNew, NEW as \in Heardable
    PROVE  Weighs(as).pre \in Seq(After(seen.given, now'))
<1>1. evidence.pre \in Seq(After(seen.given, now'))
  BY WaitingIsAfter, AfterGrows, SeqWithin
<1>2. now' \in After(seen.given, now')
  BY AfterGrows
<1>3. Append(evidence.pre, now') \in Seq(After(seen.given, now'))
  BY <1>1, <1>2
<1>4. NoEvidence.pre \in Seq(After(seen.given, now'))
  BY EmptyIsOver DEF NoEvidence
<1>5. QED BY <1>1, <1>3, <1>4, WeighsCases

LEMMA WaitingStep ==
    ASSUME TypeOK, WaitingIsNew, [Next]_vars
    PROVE  WaitingIsNew'
<1>1. \A q : q = <<>> => DOMAIN q = {}
  OBVIOUS
<1>2. NoEvidence.pre = <<>>
  BY DEF NoEvidence
<1>3. Forget => evidence'.pre = <<>>
  BY DEF Forget, TypeOK
<1>4. CASE Frame
  <2>1. now' = now + 1
    BY <1>4, FrameCases
  <2>2. ASSUME NEW as \in Heardable, Waits(as) PROVE WaitingIsNew'
    <3>1. evidence' = Weighs(as) /\ seen'.given = seen.given
      BY <2>2, SeenAfter DEF Waits
    <3>2. \A i \in DOMAIN Weighs(as).pre : Weighs(as).pre[i] > seen.given
      BY <2>1, WeighsAfter, AfterIsNew
    <3>3. QED BY <3>1, <3>2 DEF WaitingIsNew
  <2>3. ASSUME NEW as \in Heardable, Interrupts(as) PROVE WaitingIsNew'
    BY <1>1, <1>2, <2>3 DEF Interrupts, WaitingIsNew
  <2>4. CASE Pauses \/ Ends
    BY <1>1, <1>3, <2>4 DEF Pauses, Ends, WaitingIsNew
  <2>5. CASE Ignores \/ Speaks \/ Starts
    <3>1. evidence' = evidence /\ seen'.given = seen.given
      BY <2>5, SeenAfter DEF Ignores, Speaks, Starts
    <3>2. QED BY <3>1 DEF WaitingIsNew
  <2>6. QED BY <1>4, <2>2, <2>3, <2>4, <2>5, FrameCases
<1>5. CASE PlaybackStarts \/ PlaybackEnds \/ AnswerComes \/ TopicChanges \/ UNCHANGED vars
  BY <1>5, Between DEF WaitingIsNew
<1>6. CASE GreetingPlays
  BY <1>1, <1>2, <1>6 DEF GreetingPlays, WaitingIsNew
<1>7. QED BY <1>4, <1>5, <1>6 DEF Next

LEMMA TwiceStep ==
    ASSUME TypeOK, WaitingIsNew, GivenIsPast, NothingIsTranscribedTwice, [Next]_vars
    PROVE  NothingIsTranscribedTwice'
<1> DEFINE S == After(seen.given, now')
<1>1. CASE Frame
  <2>1. now' = now + 1 /\ now' \in Nat \ {0}
    BY <1>1, FrameCases, Later
  <2>2. now' \in S /\ Latest \subseteq S
    BY <2>1, AfterGrows
  <2>3. CASE Ends
    BY <2>3 DEF Ends, NothingIsTranscribedTwice
  <2>4. CASE ~Ends
    <3>1. seen'.given = seen.given
      BY <1>1, <2>4, SeenAfter, FrameCases
    <3>2. SUFFICES ASSUME inSpeech' PROVE audio' \in Seq(S)
      <4>1. audio' \in Seq(S) => \A i \in DOMAIN audio' : audio'[i] > seen.given
        BY AfterIsNew
      <4>2. QED BY <3>1, <4>1 DEF NothingIsTranscribedTwice
    <3>3. CASE Records /\ inSpeech' = inSpeech
      <4>1. audio \in Seq(S)
        BY <2>1, <3>2, <3>3, WaitingIsAfter, AfterGrows, SeqWithin
      <4>2. Append(audio, now') \in Seq(S)
        BY <2>2, <4>1
      <4>3. QED BY <3>3, <4>1, <4>2 DEF Records
    <3>4. ASSUME NEW as \in Heardable, Interrupts(as) PROVE audio' \in Seq(S)
      <4>1. Weighs(as).pre \in Seq(S)
        BY <2>1, WeighsAfter
      <4>2. \A q : q \in Seq(S) => Len(q) \in Nat
        OBVIOUS
      <4>3. PreRolled(Len(Weighs(as).pre)) \in Seq(S)
        <5>1. PreRolled(Len(Weighs(as).pre)) \in Seq(Latest)
          BY <2>1, <4>1, <4>2, PreRolledIsLatest
        <5>2. QED BY <2>2, <5>1, SeqWithin
      <4>4. QED BY <3>4, <4>1, <4>3, ConcatProperties DEF Interrupts
    <3>5. CASE Starts
      <4>1. Ring \in Seq(S)
        BY <2>1, <2>2, RingIsLatest, SeqWithin
      <4>2. Append(Ring, now') \in Seq(S)
        BY <2>2, <4>1
      <4>3. QED BY <3>5, <4>2 DEF Starts
    <3>6. (\E as \in Heardable : Waits(as)) \/ Ignores \/ Speaks \/ Pauses
              => Records /\ inSpeech' = inSpeech
      BY DEF Waits, Ignores, Speaks, Pauses
    <3>7. QED BY <1>1, <2>4, <3>3, <3>4, <3>5, <3>6, FrameCases
  <2>5. QED BY <2>3, <2>4
<1>2. CASE PlaybackStarts \/ PlaybackEnds \/ AnswerComes \/ TopicChanges \/ UNCHANGED vars
  BY <1>2, Between DEF NothingIsTranscribedTwice
<1>3. CASE GreetingPlays
  BY <1>3 DEF GreetingPlays, NothingIsTranscribedTwice
<1>4. QED BY <1>1, <1>2, <1>3 DEF Next

\* What is in a sequence once something is put at its end.
Elements(q) == {q[i] : i \in DOMAIN q}

LEMMA AppendElements ==
    ASSUME NEW S, NEW q \in Seq(S), NEW x
    PROVE  Elements(Append(q, x)) = Elements(q) \cup {x}
<1>1. /\ DOMAIN Append(q, x) = 1 .. Len(q) + 1 /\ Len(q) \in Nat
      /\ Append(q, x)[Len(q) + 1] = x
      /\ \A i \in 1 .. Len(q) : Append(q, x)[i] = q[i]
      /\ DOMAIN q = 1 .. Len(q)
  OBVIOUS
<1>2. 1 .. Len(q) + 1 = (1 .. Len(q)) \cup {Len(q) + 1}
  BY <1>1
<1>3. QED BY <1>1, <1>2 DEF Elements

LEMMA LostStep ==
    ASSUME TypeOK, Bucket, StrongSpeechInterrupts, OnsetIsNear, TurnIsCallers,
           NothingIsLost, [Next]_vars
    PROVE  NothingIsLost'
<1>1. NothingIsLost' <=> (inSpeech' /\ ~seen'.taken =>
                              seen'.since > 0 /\ seen'.since .. now' \subseteq Elements(audio'))
  BY DEF NothingIsLost, Elements
<1>2. NothingIsLost <=> (inSpeech /\ ~seen.taken =>
                             seen.since > 0 /\ seen.since .. now \subseteq Elements(audio))
  BY DEF NothingIsLost, Elements
<1>3. /\ now \in Int /\ now >= 0 /\ seen.since \in Int /\ seen.since <= now
      /\ audio \in Seq(1 .. now)
  BY Numbers DEF TypeOK
<1>4. CASE Frame
  <2>1. now' = now + 1 /\ now' \in Nat \ {0}
    BY <1>4, FrameCases, Later
  <2>2. CASE /\ Records /\ inSpeech' = inSpeech /\ seen'.taken = seen.taken
             /\ inSpeech => seen'.since = seen.since
    <3>1. SUFFICES ASSUME inSpeech, ~seen.taken
                   PROVE  seen.since > 0 /\ seen.since .. now' \subseteq Elements(audio')
      BY <1>1, <2>2
    <3>2. seen.since > 0 /\ seen.since .. now \subseteq Elements(audio)
      BY <1>2, <3>1
    <3>3. audio' = Append(audio, now')
      BY <2>2, <3>1 DEF Records, TurnIsCallers
    <3>4. Elements(audio') = Elements(audio) \cup {now'}
      BY <1>3, <3>3, AppendElements
    <3>5. seen.since .. now' \subseteq (seen.since .. now) \cup {now'}
      BY <1>3, <2>1
    <3>6. QED BY <3>2, <3>4, <3>5
  <2>3. ASSUME NEW as \in Heardable, Interrupts(as) PROVE NothingIsLost'
    <3>1. Qualifies(as)
      BY <2>1, <2>3, WordsConfirm DEF Interrupts
    <3>2. Weighs(as).pre = Append(evidence.pre, now')
      BY <2>1, <3>1, WeighsCases DEF Qualifies, Kinds
    <3>3. Weighs(as).pre \in Seq(1 .. now') /\ evidence.pre \in Seq(1 .. now')
      BY <2>1, WeighsType, Later DEF EvidenceUpTo
    <3>4. PreRolled(Len(Weighs(as).pre)) \in Seq(1 .. now')
      <4>1. \A q : q \in Seq(1 .. now') => Len(q) \in Nat
        OBVIOUS
      <4>2. PreRolled(Len(Weighs(as).pre)) \in Seq(Latest)
        BY <2>1, <3>3, <4>1, PreRolledIsLatest
      <4>3. Latest \subseteq 1 .. now'
        BY DEF Latest
      <4>4. QED BY <4>2, <4>3, SeqWithin
    <3>5. now' \in Elements(audio')
      <4>1. PICK p \in Seq(1 .. now') : audio' = p \o Append(evidence.pre, now')
        BY <2>3, <3>2, <3>4 DEF Interrupts
      <4>2. PICK e \in Seq(1 .. now') : e = evidence.pre
        BY <3>3
      <4>3. now' \in 1 .. now'
        BY <2>1
      <4>4. Append(e, now') \in Seq(1 .. now')
        BY <4>2, <4>3
      <4>5. now' \in Elements(p \o Append(e, now'))
        <5>1. /\ Len(Append(e, now')) = Len(e) + 1 /\ Len(e) \in Nat /\ Len(p) \in Nat
              /\ Append(e, now')[Len(e) + 1] = now'
          BY <4>1, <4>2
        <5>2. DOMAIN (p \o Append(e, now')) = 1 .. Len(p) + Len(e) + 1
          BY <4>1, <4>4, <5>1, ConcatProperties
        <5>3. (p \o Append(e, now'))[Len(p) + Len(e) + 1] = now'
          BY <4>1, <4>4, <5>1, ConcatProperties
        <5>4. QED BY <5>1, <5>2, <5>3 DEF Elements
      <4>6. QED BY <4>1, <4>2, <4>5
    <3>6. seen'.since = now'
      BY <2>3, SeenAfter
    <3>7. now' .. now' = {now'} /\ now' > 0
      BY <2>1
    <3>8. QED BY <1>1, <3>5, <3>6, <3>7
  <2>4. CASE Starts
    <3>1. /\ ~inSpeech /\ audio' = Append(Ring, now')
          /\ Least(speech + 1, OnsetFrames) = OnsetFrames
          /\ seen'.since = IF seen.since > 0 THEN seen.since ELSE now'
      BY <2>4, SeenAfter DEF Starts, Began
    <3>2. Ring \in Seq(Latest) /\ Latest \subseteq Elements(Ring)
      BY <2>1, RingIsLatest DEF Elements
    <3>3. Elements(audio') = Elements(Ring) \cup {now'}
      BY <3>1, <3>2, AppendElements
    <3>4. seen'.since > 0 /\ seen'.since .. now' \subseteq Latest
      <4>1. /\ speech \in Int /\ OnsetFrames \in Int /\ RingFrames \in Int
            /\ OnsetFrames <= RingFrames /\ RingFrames >= 1 /\ seen.since >= 0
        BY Numbers, Thresholds
      <4>2. CASE seen.since > 0
        <5>1. now - seen.since < speech /\ speech < OnsetFrames
          BY <3>1, <4>2 DEF OnsetIsNear
        <5>2. now' - seen.since < RingFrames
          BY <1>3, <2>1, <4>1, <5>1
        <5>3. seen.since .. now' \subseteq Latest
          BY <1>3, <2>1, <4>1, <4>2, <5>2 DEF Latest
        <5>4. QED BY <3>1, <4>2, <5>3
      <4>3. CASE ~(seen.since > 0)
        <5>1. seen'.since = now' /\ now' .. now' = {now'}
          BY <2>1, <3>1, <4>3
        <5>2. now' \in Latest
          BY <2>1, <4>1 DEF Latest
        <5>3. QED BY <2>1, <5>1, <5>2
      <4>4. QED BY <4>2, <4>3
    <3>5. QED BY <1>1, <3>2, <3>3, <3>4
  <2>5. CASE Ends
    BY <1>1, <2>5 DEF Ends
  <2>6. ((\E as \in Heardable : Waits(as)) \/ Ignores \/ Speaks \/ Pauses)
            => /\ Records /\ inSpeech' = inSpeech /\ seen'.taken = seen.taken
               /\ inSpeech => seen'.since = seen.since
    BY SeenAfter DEF Waits, Ignores, Speaks, Pauses, Opened, Began
  <2>7. QED BY <1>4, <2>2, <2>3, <2>4, <2>5, <2>6, FrameCases
<1>5. CASE PlaybackStarts \/ PlaybackEnds \/ AnswerComes \/ TopicChanges \/ UNCHANGED vars
  BY <1>1, <1>2, <1>5, Between
<1>6. CASE GreetingPlays
  BY <1>1, <1>6 DEF GreetingPlays
<1>7. QED BY <1>4, <1>5, <1>6 DEF Next

LEMMA CutOffStep ==
    ASSUME TypeOK, SilenceIsQuiet, NobodyIsCutOff, [Next]_vars
    PROVE  NobodyIsCutOff'
<1>1. CASE Frame
  <2>1. now' = now + 1
    BY <1>1, FrameCases
  <2>2. CASE Ends
    <3>1. seen'.last = seen.last
      BY <2>2, SeenAfter
    <3>2. /\ EffectiveSilence \in Silences /\ EffectiveSilence \in Int
          /\ seen.last + EffectiveSilence <= now'
      BY <2>1, <2>2, EndsAfterRing, EverySilence
    <3>3. now' \in Int /\ seen.last \in Int
      BY <2>1, Numbers
    <3>4. now' - seen'.last >= EffectiveSilence
      BY <3>1, <3>2, <3>3
    <3>5. QED BY <3>2, <3>4 DEF NobodyIsCutOff
  <2>3. CASE ~Ends
    <3>1. transition' # "SPEECH_ENDED"
      BY <1>1, <2>3, FrameCases DEF Waits, Interrupts, Ignores, Speaks, Starts, Pauses
    <3>2. QED BY <3>1 DEF NobodyIsCutOff
  <2>4. QED BY <2>2, <2>3
<1>2. CASE PlaybackStarts \/ PlaybackEnds \/ AnswerComes \/ TopicChanges \/ UNCHANGED vars
  BY <1>2, Between DEF NobodyIsCutOff, Silences
<1>3. CASE GreetingPlays
  BY <1>3 DEF GreetingPlays, NobodyIsCutOff
<1>4. QED BY <1>1, <1>2, <1>3 DEF Next

-----------------------------------------------------------------------------
(* The theorems.                                                             *)

LEMMA InvInit == Init => Inv
<1> SUFFICES ASSUME Init PROVE Inv
  OBVIOUS
<1>1. TypeOK
  BY TypeInit
<1>2. /\ evidence = NoEvidence /\ seen = Unseen /\ ~inSpeech /\ now = 0
      /\ transition = "none"
  BY DEF Init
<1>3. Bucket
  <2>1. /\ evidence.bucket = 0 /\ \A k \in Kinds : evidence.counts[k] = 0
        /\ seen.run = 0
    BY <1>2 DEF NoEvidence, Unseen
  <2>2. NotConfirmed
    BY <1>2, NothingConfirms DEF NotConfirmed
  <2>3. QED BY <2>1, <2>2, AllKinds DEF Bucket, EmptyIsNew, OnlyHums, RunIsHeld
<1>4. Recording
  <2>1. seen.given = 0 /\ seen.since = 0
    BY <1>2 DEF Unseen
  <2>2. \A q : q = <<>> => DOMAIN q = {}
    OBVIOUS
  <2>3. WaitingIsNew
    BY <1>2, <2>2 DEF WaitingIsNew, NoEvidence
  <2>4. QED BY <1>2, <2>1, <2>3 DEF Recording, SilenceIsQuiet, GivenIsPast, OnsetIsNear, TurnIsCallers
<1>5. HumsNeverInterrupt /\ NothingIsTranscribedTwice /\ NothingIsLost /\ NobodyIsCutOff
  BY <1>2 DEF HumsNeverInterrupt, NothingIsTranscribedTwice, NothingIsLost, NobodyIsCutOff
<1>6. StrongSpeechInterrupts
  BY <1>2, Thresholds DEF StrongSpeechInterrupts, Unseen
<1>7. QED BY <1>1, <1>3, <1>4, <1>5, <1>6 DEF Inv

LEMMA InvStep == Inv /\ [Next]_vars => Inv'
<1> SUFFICES ASSUME Inv, [Next]_vars PROVE Inv'
  OBVIOUS
<1>1. TypeOK'
  BY TypeStep DEF Inv
<1>2. Bucket' /\ StrongSpeechInterrupts'
  BY BucketStep DEF Inv
<1>3. Recording'
  BY SilenceStep, GivenStep, OnsetStep, WaitingStep, CallersStep DEF Inv, Recording
<1>4. HumsNeverInterrupt'
  BY HumsStep DEF Inv
<1>5. NothingIsTranscribedTwice'
  BY TwiceStep DEF Inv, Recording
<1>6. NothingIsLost'
  BY LostStep DEF Inv, Recording
<1>7. NobodyIsCutOff'
  BY CutOffStep DEF Inv, Recording
<1>8. QED BY <1>1, <1>2, <1>3, <1>4, <1>5, <1>6, <1>7 DEF Inv

\* Everything below follows from what every frame keeps.
THEOREM EvidenceInvariant == Spec => []Inv
<1>1. QED BY InvInit, InvStep, PTL DEF Spec

\* Of the frames the bucket holds when a caller interrupts, at least one is not
\* a hum (turn_manager.handle_speech_frame's passive listening).
THEOREM HumsAreHarmless == Spec => []HumsNeverInterrupt
<1>1. Inv => HumsNeverInterrupt
  BY DEF Inv
<1>2. QED BY <1>1, EvidenceInvariant, PTL

\* Strong speech is never kept waiting beyond its threshold, whatever an
\* earlier sound left in the bucket (confirm_frames).
THEOREM StrongSpeechIsTaken == Spec => []StrongSpeechInterrupts
<1>1. Inv => StrongSpeechInterrupts
  BY DEF Inv
<1>2. QED BY <1>1, EvidenceInvariant, PTL

\* Neither the ring nor the frames before an interruption reach back to speech
\* that was handed to an STT task before (_vad_worker).
THEOREM TranscribedOnce == Spec => []NothingIsTranscribedTwice
<1>1. Inv => NothingIsTranscribedTwice
  BY DEF Inv
<1>2. QED BY <1>1, EvidenceInvariant, PTL

\* What is recorded of a caller who speaks has every frame since the first word,
\* until a late answer or a response takes the turn (_vad_worker).
THEOREM RecordedWhole == Spec => []NothingIsLost
<1>1. Inv => NothingIsLost
  BY DEF Inv
<1>2. QED BY <1>1, EvidenceInvariant, PTL

\* An utterance ends no sooner after its last word than the shortest silence
\* (effective_silence_duration_ms).
THEOREM LastWordsAreHeard == Spec => []NobodyIsCutOff
<1>1. Inv => NobodyIsCutOff
  BY DEF Inv
<1>2. QED BY <1>1, EvidenceInvariant, PTL

-----------------------------------------------------------------------------
(* The frames implement TurnFloor.                                           *)

LEMMA FloorStep ==
    ASSUME [Next]_vars
    PROVE  [Taken!Next]_<<playback # "none", inSpeech>>
<1> USE DEF Taken!Next, Taken!SpeechStarts, Taken!SpeechEnds, Taken!BargeIn,
            Taken!Playback, Taken!Greets
<1>1. CASE Frame
  <2>1. CASE playback # "none"
    <3>1. CASE Ignores \/ \E as \in Heardable : Waits(as)
      BY <3>1 DEF Ignores, Waits
    <3>2. CASE \E as \in Heardable : Interrupts(as)
      BY <2>1, <3>2 DEF Interrupts
    <3>3. QED BY <1>1, <2>1, <3>1, <3>2, FrameCases
  <2>2. CASE playback = "none"
    <3>1. CASE Speaks \/ Pauses
      BY <3>1 DEF Speaks, Pauses
    <3>2. CASE Starts
      BY <2>2, <3>2 DEF Starts
    <3>3. CASE Ends
      BY <2>2, <3>3 DEF Ends
    <3>4. QED BY <1>1, <2>2, <3>1, <3>2, <3>3, FrameCases
  <2>3. QED BY <2>1, <2>2
<1>2. CASE PlaybackStarts
  BY <1>2 DEF PlaybackStarts
<1>3. CASE PlaybackEnds
  BY <1>3 DEF PlaybackEnds
<1>4. CASE GreetingPlays
  BY <1>4 DEF GreetingPlays
<1>5. CASE AnswerComes \/ TopicChanges \/ UNCHANGED vars
  BY <1>5 DEF AnswerComes, TopicChanges, vars
<1>6. QED BY <1>1, <1>2, <1>3, <1>4, <1>5 DEF Next

\* The transitions the frames decide on are those TurnPipeline supposes of the
\* turn manager: an utterance begins and ends only while the assistant cannot
\* be heard, or silences it in the same step.
THEOREM FramesKeepTurns == Spec => TurnsAreTaken
<1>1. Init => Taken!Init
  BY DEF Init, Taken!Init
<1>2. [Next]_vars => [Taken!Next]_<<playback # "none", inSpeech>>
  BY FloorStep
<1>3. QED BY <1>1, <1>2, PTL DEF Spec, TurnsAreTaken, Taken!Spec
=============================================================================
