----------------------------- MODULE SpeechProofs -----------------------------
(***************************************************************************)
(* Theorems about what is heard and what is said.  SpeechToText, for any   *)
(* number of utterances and frames and queues of any size: a stream that   *)
(* counts as connected has a receiver, and what the caller says before an  *)
(* answer takes the turn is not lost without a trace.  SpeechSynthesis,    *)
(* for any number of segments, queues and a cache of any size: a response  *)
(* is spoken in order, once and whole.                                     *)
(***************************************************************************)
EXTENDS SpeechToText, SpeechSynthesis, TLAPS

-----------------------------------------------------------------------------
(* SpeechToText: the inductive invariant.                                    *)

Frames == Nat \X Nat

\* Where a task is that may still reset the session.
MayStillReset == {"ended", "flush", "wait", "woken"}

Typed ==
    /\ utterance \in Nat /\ chunks \in Nat /\ own \in Nat /\ speaking \in BOOLEAN
    /\ shared \in BOOLEAN /\ closed \in BOOLEAN
    /\ DOMAIN turn = Utterances /\ DOMAIN at = Utterances
    /\ queue \in Seq(Frames) /\ hand \in Frames

\* The sender holds nothing when it goes for the next frame, so that it does not
\* drop one for another.
HandIsFree == sender = "get" => hand = NoFrame

\* No utterance is answered before it began, and every one that began has a turn.
Begun ==
    /\ utterance <= MaxUtterances
    /\ \A u \in Utterances : IF u <= utterance THEN turn[u] # 0 ELSE at[u] = "no"

\* While the caller speaks the session is that utterance's, and only a task that
\* shares its turn could reset it.
Guarded ==
    speaking =>
        /\ utterance \in Utterances /\ at[utterance] = "speaking"
        /\ current = turn[utterance]
        /\ ~shared => \A u \in Utterances :
             turn[u] = current => at[u] \notin MayStillReset

\* What is spoken in a turn that listens no more is not the utterance's own.
Owned == speaking /\ ~listening => own <= chunks

Inv == Typed /\ HandIsFree /\ Begun /\ Guarded /\ Owned /\ ConnectedIsHeard /\ SpeechIsKept

-----------------------------------------------------------------------------
(* Where a frame is.                                                         *)

InQueue(q) == {q[j] : j \in DOMAIN q}

LEMMA AppendedFrames ==
    ASSUME NEW q \in Seq(Frames), NEW f \in Frames
    PROVE  Append(q, f) \in Seq(Frames) /\ InQueue(Append(q, f)) = InQueue(q) \cup {f}
<1>1. Append(q, f) \in Seq(Frames)
  OBVIOUS
<1>2. ASSUME NEW x \in InQueue(Append(q, f)) PROVE x \in InQueue(q) \cup {f}
  <2>1. PICK j \in DOMAIN Append(q, f) : x = Append(q, f)[j]
    BY DEF InQueue
  <2>2. CASE j = Len(q) + 1
    BY <2>1, <2>2
  <2>3. CASE j # Len(q) + 1
    BY <2>1, <2>3 DEF InQueue
  <2>4. QED BY <2>2, <2>3
<1>3. InQueue(q) \subseteq InQueue(Append(q, f))
  BY DEF InQueue
<1>4. f \in InQueue(Append(q, f))
  <2>1. Len(q) + 1 \in DOMAIN Append(q, f) /\ Append(q, f)[Len(q) + 1] = f
    OBVIOUS
  <2>2. QED BY <2>1 DEF InQueue
<1>5. QED BY <1>1, <1>2, <1>3, <1>4

LEMMA TakenFrame ==
    ASSUME NEW q \in Seq(Frames), q # <<>>
    PROVE  /\ Head(q) \in Frames /\ Tail(q) \in Seq(Frames)
           /\ InQueue(q) \subseteq {Head(q)} \cup InQueue(Tail(q))
<1>1. Head(q) \in Frames /\ Tail(q) \in Seq(Frames)
  OBVIOUS
<1>2. ASSUME NEW x \in InQueue(q) PROVE x \in {Head(q)} \cup InQueue(Tail(q))
  <2>1. PICK j \in DOMAIN q : x = q[j]
    BY DEF InQueue
  <2>2. CASE j = 1
    BY <2>1, <2>2
  <2>3. CASE j # 1
    <3>1. j - 1 \in DOMAIN Tail(q) /\ Tail(q)[j - 1] = q[j]
      BY <2>3
    <3>2. QED BY <2>1, <3>1 DEF InQueue
  <2>4. QED BY <2>2, <2>3
<1>3. QED BY <1>1, <1>2

\* What SpeechIsKept says of the latest utterance's frames.
Kept(n) == \A i \in 1 .. n : i <= own => <<utterance, i>> \in gone \cup {hand} \cup InQueue(queue)

LEMMA KeptIsKept == SpeechIsKept <=> (speaking /\ ~closed /\ ~shared => Kept(chunks))
  BY DEF SpeechIsKept, Kept, InQueue

-----------------------------------------------------------------------------
(* Steps that leave the caller alone.                                        *)

\* A frame that leaves the sender's hand is known.
LEMMA HandIsEmptied ==
    ASSUME Inv, NEW i \in Nat, utterance # 0, <<utterance, i>> = hand
    PROVE  <<utterance, i>> \in Known(hand)
  BY DEF Known

\* The caller goes on, the session is reset by nobody and no frame disappears.
LEMMA QuietStep ==
    ASSUME Inv, UNCHANGED <<utterance, chunks, speaking, turn, shared, own>>,
           listening' \in {listening, TRUE},
           closed' \in BOOLEAN, closed => closed', speaking => current' = current,
           DOMAIN at' = Utterances,
           \A u \in Utterances :
             \/ at'[u] = at[u]
             \/ at[u] \in MayStillReset \cup {"rest", "asking"} /\ at'[u] # "speaking"
                 /\ (at[u] \notin MayStillReset => at'[u] \notin MayStillReset),
           queue' \in Seq(Frames), hand' \in Frames, HandIsFree',
           ConnectedIsHeard',
           speaking /\ ~closed' /\ ~shared /\ utterance # 0 => \A i \in Nat :
             <<utterance, i>> \in gone \cup {hand} \cup InQueue(queue) =>
                <<utterance, i>> \in gone' \cup {hand'} \cup InQueue(queue')
    PROVE  Inv'
<1>1. Typed'
  BY DEF Inv, Typed
<1>2. Begun'
  BY DEF Inv, Begun, MayStillReset
<1>3. Guarded'
  BY DEF Inv, Guarded, MayStillReset
<1>4. SpeechIsKept'
  <2>1. SUFFICES ASSUME speaking, ~closed', ~closed, ~shared, NEW i \in 1 .. chunks, i <= own
                 PROVE  <<utterance, i>> \in gone' \cup {hand'} \cup InQueue(queue')
    BY DEF SpeechIsKept, InQueue, Inv, Typed
  <2>2. i \in Nat /\ utterance # 0
    BY <2>1 DEF Inv, Typed, Guarded, Utterances
  <2>3. <<utterance, i>> \in gone \cup {hand} \cup InQueue(queue)
    BY <2>1, KeptIsKept DEF Inv, Kept
  <2>4. QED BY <2>1, <2>2, <2>3
<1>5. Owned'
  BY DEF Inv, Owned
<1>6. QED BY <1>1, <1>2, <1>3, <1>4, <1>5 DEF Inv

LEMMA SenderSteps ==
    ASSUME Inv, SenderTakes \/ Connects \/ FailsToConnect \/ Sends \/ FailsToSend
    PROVE  Inv'
<1>1. /\ queue \in Seq(Frames) /\ hand \in Frames /\ NoFrame \in Frames
      /\ DOMAIN at = Utterances /\ closed \in BOOLEAN
  BY DEF Inv, Typed, NoFrame, Frames
<1>2. CASE SenderTakes
  <2>1. /\ sender = "get" /\ queue # <<>> /\ hand' = Head(queue) /\ queue' = Tail(queue)
        /\ sender' # "get"
        /\ UNCHANGED <<caller, at, current, closed, connected, receiver, gone>>
    BY <1>2 DEF SenderTakes
  <2>2. hand' \in Frames /\ queue' \in Seq(Frames) /\ InQueue(queue) \subseteq {hand'} \cup InQueue(queue')
    BY <1>1, <2>1, TakenFrame
  <2>3. hand = NoFrame
    BY <2>1 DEF Inv, HandIsFree
  <2>4. ASSUME utterance # 0, NEW i \in Nat,
               <<utterance, i>> \in gone \cup {hand} \cup InQueue(queue)
        PROVE  <<utterance, i>> \in gone' \cup {hand'} \cup InQueue(queue')
    <3>1. <<utterance, i>> # hand
      BY <2>3, <2>4 DEF NoFrame
    <3>2. QED BY <2>1, <2>2, <2>4, <3>1
  <2>5. HandIsFree' /\ ConnectedIsHeard'
    BY <2>1 DEF HandIsFree, Inv, ConnectedIsHeard
  <2>6. QED BY <1>1, <2>1, <2>2, <2>4, <2>5, QuietStep DEF caller
<1>3. CASE Connects
  <2>1. HandIsFree' /\ ConnectedIsHeard'
    BY <1>3 DEF Connects, HandIsFree, ConnectedIsHeard, NeedsReceiver
  <2>2. QED BY <1>1, <1>3, <2>1, QuietStep DEF Connects, caller
<1>4. CASE FailsToConnect \/ Sends \/ FailsToSend
  <2>1. /\ gone' = Known(hand) /\ hand' = NoFrame
        /\ UNCHANGED <<caller, at, current, closed, queue>>
    BY <1>4 DEF FailsToConnect, Sends, FailsToSend
  <2>2. ASSUME utterance # 0, NEW i \in Nat,
               <<utterance, i>> \in gone \cup {hand} \cup InQueue(queue)
        PROVE  <<utterance, i>> \in gone' \cup {hand'} \cup InQueue(queue')
    <3>1. gone \subseteq gone'
      BY <2>1 DEF Known
    <3>2. <<utterance, i>> = hand => <<utterance, i>> \in gone'
      BY <2>1, <2>2, HandIsEmptied
    <3>3. QED BY <2>1, <2>2, <3>1, <3>2
  <2>3. HandIsFree' /\ ConnectedIsHeard'
    BY <1>4, <2>1 DEF FailsToConnect, Sends, FailsToSend, HandIsFree, ConnectedIsHeard, Inv
  <2>4. QED BY <1>1, <2>1, <2>2, <2>3, QuietStep DEF caller
<1>5. QED BY <1>2, <1>3, <1>4

\* Whoever waited for the receiver is woken; that is all it does to the tasks.
LEMMA WokenTasks ==
    ASSUME Inv
    PROVE  /\ DOMAIN Woken = Utterances
           /\ \A u \in Utterances :
                Woken[u] = at[u] \/ (at[u] = "wait" /\ Woken[u] = "woken")
  BY DEF Woken

LEMMA OtherSteps ==
    ASSUME Inv, Receives \/ ReceiverEnds \/ ProviderAnswers \/ ConnectionBreaks \/ Closes
    PROVE  Inv'
<1>1. /\ queue \in Seq(Frames) /\ hand \in Frames /\ NoFrame \in Frames
      /\ DOMAIN at = Utterances /\ closed \in BOOLEAN
  BY DEF Inv, Typed, NoFrame, Frames
<1>2. /\ UNCHANGED <<caller, current, queue, gone>>
      /\ at' = at \/ at' = Woken
      /\ hand' = hand \/ (hand' = NoFrame /\ closed')
      /\ closed' \in BOOLEAN /\ (closed => closed')
  BY <1>1 DEF Receives, ReceiverEnds, ProviderAnswers, ConnectionBreaks, Closes, sending
<1>3. /\ DOMAIN at' = Utterances
      /\ \A u \in Utterances :
           \/ at'[u] = at[u]
           \/ at[u] \in MayStillReset \cup {"rest", "asking"} /\ at'[u] # "speaking"
               /\ (at[u] \notin MayStillReset => at'[u] \notin MayStillReset)
  BY <1>1, <1>2, WokenTasks DEF MayStillReset
<1>4. HandIsFree'
  BY DEF Inv, HandIsFree, Receives, ReceiverEnds, ProviderAnswers, ConnectionBreaks, Closes,
         sending
<1>5. ConnectedIsHeard'
  BY DEF Inv, ConnectedIsHeard, Receives, ReceiverEnds, ProviderAnswers, ConnectionBreaks,
         Closes
<1>6. QED BY <1>1, <1>2, <1>3, <1>4, <1>5, QuietStep DEF caller

-----------------------------------------------------------------------------
(* The tasks.                                                                *)

\* A task that still takes the session: it may only do so when nobody speaks, or
\* the session is of a turn it shares with the speaker.
LEMMA ResetStep ==
    ASSUME Inv, NEW u \in Utterances, at[u] \in MayStillReset, SafeReset(u), TaskOnly,
           listening' \in {listening, TRUE},
           NEW step \in MayStillReset \cup {"rest", "answered"},
           at' = [at EXCEPT ![u] = step]
    PROVE  Inv'
<1>1. /\ queue \in Seq(Frames) /\ <<>> \in Seq(Frames) /\ hand \in Frames
      /\ DOMAIN at = Utterances /\ closed \in BOOLEAN
  BY DEF Inv, Typed
<1>2. \/ queue' = queue /\ current' = current
      \/ queue' = <<>> /\ current' = turn[u] /\ current \in {turn[u], 0}
  BY DEF SafeReset, MayReset
<1>3. speaking => current' = current
  BY <1>2 DEF Inv, Guarded, Begun
<1>4. speaking /\ ~shared => queue' = queue
  BY <1>2 DEF Inv, Guarded, Begun
<1>5. HandIsFree' /\ ConnectedIsHeard'
  BY DEF Inv, HandIsFree, ConnectedIsHeard, TaskOnly, sending
<1>6. QED BY <1>1, <1>2, <1>3, <1>4, <1>5, QuietStep
          DEF TaskOnly, sending, MayStillReset

\* A task that leaves the session alone.
LEMMA TaskStep ==
    ASSUME Inv, NEW u \in Utterances, TaskOnly, UNCHANGED <<current, queue>>,
           listening' \in {listening, TRUE},
           at[u] \in MayStillReset \cup {"rest", "asking"},
           NEW step, step # "speaking",
           at[u] \notin MayStillReset => step \notin MayStillReset,
           at' = [at EXCEPT ![u] = step]
    PROVE  Inv'
<1>1. HandIsFree' /\ ConnectedIsHeard'
  BY DEF Inv, HandIsFree, ConnectedIsHeard, TaskOnly, sending
<1>2. QED BY <1>1, QuietStep DEF Inv, Typed, TaskOnly, sending

LEMMA AnsweringStep ==
    ASSUME Inv, NEW u \in Utterances, Answering(u)
    PROVE  Inv'
<1>1. ASSUME NEW said \in BOOLEAN, Takes(u, said), at[u] \in MayStillReset PROVE Inv'
  BY <1>1, ResetStep DEF Takes, Goes, Used
<1>2. CASE FinalizeStarts(u)
  <2>1. CASE Healthy
    BY <1>2, <2>1, TaskStep DEF FinalizeStarts, Goes, MayStillReset
  <2>2. CASE ~Healthy
    BY <1>1, <1>2, <2>2 DEF FinalizeStarts, MayStillReset
  <2>3. QED BY <2>1, <2>2
<1>3. CASE Flushes(u)
  BY <1>3, TaskStep DEF Flushes, Goes, MayStillReset
<1>4. CASE FlushFails(u)
  BY <1>1, <1>4 DEF FlushFails, MayStillReset
<1>5. CASE Wakes(u) \/ TimesOut(u)
  <2>1. at[u] \in MayStillReset
    BY <1>5 DEF Wakes, TimesOut, MayStillReset
  <2>2. PICK said : Takes(u, said)
    BY <1>5 DEF Wakes, TimesOut
  <2>3. /\ SafeReset(u) /\ (Goes(u, "answered") \/ Goes(u, "rest"))
        /\ listening' \in {listening, TRUE}
    BY <2>2 DEF Takes, Used
  <2>4. QED BY <2>1, <2>3, ResetStep DEF Goes
<1>6. CASE BatchStarts(u)
  BY <1>6, TaskStep DEF BatchStarts, BatchOnly, Goes, MayStillReset
<1>7. CASE BatchEnds(u)
  BY <1>7, TaskStep DEF BatchEnds, BatchOnly, Goes, Used, MayStillReset
<1>8. QED BY <1>2, <1>3, <1>4, <1>5, <1>6, <1>7 DEF Answering

-----------------------------------------------------------------------------
(* The caller.                                                               *)

\* A new utterance has the session to itself, unless a task of the same turn has
\* not finished with it.
LEMMA SpeechStartsStep ==
    ASSUME Inv, SpeechStarts
    PROVE  Inv'
<1> DEFINE u == utterance + 1
<1>1. PICK bargeIn \in BOOLEAN :
        LET t == IF utterance > 0 /\ listening /\ ~transcribed /\ ~bargeIn
                 THEN turn[utterance] ELSE u
        IN  /\ utterance' = u /\ chunks' = 1 /\ speaking' = TRUE
            /\ turn' = [turn EXCEPT ![u] = t]
            /\ current' = t
            /\ at' = [v \in Utterances |->
                        IF v = u THEN "speaking"
                        ELSE IF at[v] = "speaking" THEN "answered"
                        ELSE IF bargeIn /\ at[v] = "ended" THEN "answered"
                        ELSE at[v]]
            /\ shared' = \E v \in 1 .. utterance :
                           turn[v] = t /\ at[v] \in {"ended", "flush", "wait", "woken"}
            /\ queue' = <<<<u, 1>>>> /\ gone' = {} /\ own' = MaxChunks
            /\ listening' = TRUE
  BY DEF SpeechStarts
<1>2. PICK t : /\ t = IF utterance > 0 /\ listening /\ ~transcribed /\ ~bargeIn
                      THEN turn[utterance] ELSE u
               /\ utterance' = u /\ chunks' = 1 /\ speaking' = TRUE
               /\ turn' = [turn EXCEPT ![u] = t] /\ current' = t
               /\ at' = [v \in Utterances |->
                        IF v = u THEN "speaking"
                        ELSE IF at[v] = "speaking" THEN "answered"
                        ELSE IF bargeIn /\ at[v] = "ended" THEN "answered"
                        ELSE at[v]]
               /\ shared' = \E v \in 1 .. utterance : turn[v] = t /\ at[v] \in MayStillReset
               /\ queue' = <<<<u, 1>>>> /\ gone' = {} /\ own' = MaxChunks
               /\ listening' = TRUE
               /\ UNCHANGED <<closed, sending, connected, receiver>>
  BY <1>1 DEF SpeechStarts, MayStillReset
<1>3. /\ utterance \in Nat /\ utterance < MaxUtterances
      /\ MaxUtterances \in Nat /\ MaxChunks \in Nat
      /\ DOMAIN turn = Utterances /\ DOMAIN at = Utterances
      /\ hand \in Frames /\ closed \in BOOLEAN
  BY SpeechToTextAssumption DEF Inv, Typed, SpeechStarts
<1>4. u \in Utterances /\ u \in Nat /\ u # 0 /\ \A v \in Utterances : v <= u <=> v <= utterance \/ v = u
  BY <1>3 DEF Utterances
<1>5. t # 0
  <2>1. utterance > 0 => turn[utterance] # 0
    BY <1>3 DEF Inv, Begun, Utterances
  <2>2. QED BY <1>2, <1>4, <2>1
<1> HIDE DEF u
<1>6. Typed'
  <2>1. queue' \in Seq(Frames)
    BY <1>2, <1>4 DEF Frames
  <2>2. QED BY <1>2, <1>3, <1>4, <2>1 DEF Typed, sending
<1>7. Begun'
  <2>1. ASSUME NEW v \in Utterances
        PROVE  IF v <= u THEN turn'[v] # 0 ELSE at'[v] = "no"
    <3>1. IF v <= utterance THEN turn[v] # 0 ELSE at[v] = "no"
      BY DEF Inv, Begun
    <3>2. QED BY <1>2, <1>3, <1>4, <1>5, <3>1
  <2>2. u <= MaxUtterances
    BY <1>4, <1>3 DEF Utterances
  <2>3. QED BY <1>2, <2>1, <2>2 DEF Begun
<1>8. Guarded'
  <2>1. ASSUME ~shared', NEW v \in Utterances, turn'[v] = t
        PROVE  at'[v] \notin MayStillReset
    <3>1. CASE v = u
      BY <1>2, <1>4, <3>1 DEF MayStillReset
    <3>2. CASE v # u /\ v <= utterance
      <4>1. v \in 1 .. utterance /\ turn[v] = t
        BY <1>2, <1>3, <2>1, <3>2 DEF Utterances
      <4>2. at[v] \notin MayStillReset
        BY <1>2, <2>1, <4>1
      <4>3. QED BY <1>2, <3>2, <4>2 DEF MayStillReset
    <3>3. CASE v # u /\ ~(v <= utterance)
      <4>1. at[v] = "no"
        BY <3>3 DEF Inv, Begun
      <4>2. QED BY <1>2, <3>3, <4>1 DEF MayStillReset
    <3>4. QED BY <3>1, <3>2, <3>3
  <2>2. turn'[u] = t /\ at'[u] = "speaking"
    BY <1>2, <1>3, <1>4
  <2>3. QED BY <1>2, <1>4, <2>1, <2>2 DEF Guarded, Utterances
<1>9. SpeechIsKept'
  <2>1. queue' = <<<<utterance', 1>>>> /\ chunks' = 1
    BY <1>2
  <2>2. \A i \in 1 .. chunks' : <<utterance', i>> \in {queue'[j] : j \in DOMAIN queue'}
    <3>1. 1 \in DOMAIN queue' /\ queue'[1] = <<utterance', 1>>
      BY <2>1
    <3>2. \A i \in 1 .. chunks' : i = 1
      BY <2>1
    <3>3. QED BY <3>1, <3>2
  <2>3. QED BY <2>2 DEF SpeechIsKept
<1>10. HandIsFree' /\ ConnectedIsHeard' /\ Owned'
  BY <1>2 DEF Inv, HandIsFree, ConnectedIsHeard, Owned, sending
<1>11. QED BY <1>6, <1>7, <1>8, <1>9, <1>10 DEF Inv

\* A frame is pushed or, if it is not the utterance's own, left out.
LEMMA SpeaksStep ==
    ASSUME Inv, Speaks
    PROVE  Inv'
<1> DEFINE f == <<utterance, chunks + 1>>
<1>1. /\ queue \in Seq(Frames) /\ hand \in Frames /\ utterance \in Nat /\ chunks \in Nat
      /\ own \in Nat /\ f \in Frames /\ chunks' = chunks + 1 /\ speaking
      /\ UNCHANGED <<utterance, speaking, turn, listening, shared, own, at, current, closed,
                     sending, connected, receiver>>
  BY DEF Inv, Typed, Speaks, Frames
<1>2. /\ queue' \in Seq(Frames)
      /\ gone \subseteq gone' /\ InQueue(queue) \subseteq InQueue(queue')
      /\ listening => f \in gone' \cup InQueue(queue')
  <2>1. CASE listening /\ Len(queue) < QueueSize
    <3>1. queue' = Append(queue, f) /\ gone' = gone
      BY <2>1 DEF Speaks, Pushes
    <3>2. QED BY <1>1, <3>1, AppendedFrames
  <2>2. CASE listening /\ ~(Len(queue) < QueueSize)
    <3>1. queue' = queue /\ gone' = Known(f)
      BY <2>2 DEF Speaks, Pushes
    <3>2. QED BY <1>1, <3>1 DEF Known
  <2>3. CASE ~listening
    BY <1>1, <2>3 DEF Speaks
  <2>4. QED BY <2>1, <2>2, <2>3
<1>3. SpeechIsKept'
  <2>1. SUFFICES ASSUME speaking, ~closed, ~shared, NEW i \in 1 .. chunks + 1, i <= own
                 PROVE  <<utterance, i>> \in gone' \cup {hand'} \cup InQueue(queue')
    BY <1>1 DEF SpeechIsKept, InQueue
  <2>2. CASE i = chunks + 1
    <3>1. listening
      BY <1>1, <2>1, <2>2 DEF Inv, Owned
    <3>2. QED BY <1>2, <2>2, <3>1
  <2>3. CASE i # chunks + 1
    <3>1. i \in 1 .. chunks
      BY <1>1, <2>3
    <3>2. <<utterance, i>> \in gone \cup {hand} \cup InQueue(queue)
      BY <2>1, <3>1, KeptIsKept DEF Inv, Kept
    <3>3. QED BY <1>1, <1>2, <3>2 DEF sending
  <2>4. QED BY <2>2, <2>3
<1>4. Typed' /\ Begun' /\ Guarded'
  BY <1>1, <1>2 DEF Inv, Typed, Begun, Guarded, sending
<1>5. HandIsFree' /\ ConnectedIsHeard' /\ Owned'
  BY <1>1 DEF Inv, HandIsFree, ConnectedIsHeard, Owned, sending
<1>6. QED BY <1>3, <1>4, <1>5 DEF Inv

LEMMA SpeechEndsStep ==
    ASSUME Inv, SpeechEnds
    PROVE  Inv'
<1>1. /\ speaking /\ speaking' = FALSE /\ own' = MaxChunks
      /\ UNCHANGED <<utterance, chunks, turn, shared, current, queue, closed, sending, link, gone>>
      /\ \E step : at' = [at EXCEPT ![utterance] = step]
  BY DEF SpeechEnds
<1>2. Typed' /\ Guarded' /\ Owned' /\ SpeechIsKept'
  BY <1>1, SpeechToTextAssumption DEF Inv, Typed, Guarded, Owned, SpeechIsKept, sending
<1>3. Begun'
  BY <1>1 DEF Inv, Begun, Guarded, Typed, Utterances
<1>4. HandIsFree' /\ ConnectedIsHeard'
  BY <1>1 DEF Inv, HandIsFree, ConnectedIsHeard, sending, link
<1>5. QED BY <1>2, <1>3, <1>4 DEF Inv

\* An answer that takes the turn leaves the utterance what was spoken so far.
LEMMA AnswerGoesOnStep ==
    ASSUME Inv, AnswerGoesOn
    PROVE  Inv'
<1>1. /\ UNCHANGED <<utterance, chunks, speaking, turn, shared, at, current, queue,
                     closed, sending, link, gone>>
      /\ listening' = ~listening
      /\ own' = IF speaking /\ listening /\ chunks < own THEN chunks ELSE own
      /\ chunks \in Nat /\ own \in Nat
  BY DEF AnswerGoesOn, Inv, Typed
<1>2. own' \in Nat /\ own' <= own /\ (speaking /\ listening => own' <= chunks)
  BY <1>1
<1>3. SpeechIsKept'
  <2>1. SUFFICES ASSUME speaking, ~closed, ~shared, NEW i \in 1 .. chunks, i <= own'
                 PROVE  <<utterance, i>> \in gone \cup {hand} \cup InQueue(queue)
    BY <1>1 DEF SpeechIsKept, InQueue, sending
  <2>2. i <= own
    BY <1>1, <1>2, <2>1
  <2>3. QED BY <2>1, <2>2, KeptIsKept DEF Inv, Kept
<1>4. Owned'
  BY <1>1, <1>2 DEF Inv, Owned
<1>5. Typed' /\ Begun' /\ Guarded'
  BY <1>1, <1>2 DEF Inv, Typed, Begun, Guarded, sending
<1>6. HandIsFree' /\ ConnectedIsHeard'
  BY <1>1 DEF Inv, HandIsFree, ConnectedIsHeard, sending, link
<1>7. QED BY <1>3, <1>4, <1>5, <1>6 DEF Inv

-----------------------------------------------------------------------------
(* SpeechToText: the theorems.                                               *)

LEMMA InvInit == Init => Inv
<1> SUFFICES ASSUME Init PROVE Inv
  OBVIOUS
<1>1. Typed
  <2>1. queue \in Seq(Frames)
    BY DEF Init
  <2>2. hand \in Frames
    BY DEF Init, Frames, NoFrame
  <2>3. QED BY <2>1, <2>2, SpeechToTextAssumption DEF Init, Typed
<1>2. Begun
  BY SpeechToTextAssumption DEF Init, Begun, Utterances
<1>3. HandIsFree /\ Guarded /\ Owned /\ ConnectedIsHeard /\ SpeechIsKept
  BY DEF Init, HandIsFree, Guarded, Owned, ConnectedIsHeard, SpeechIsKept
<1>4. QED BY <1>1, <1>2, <1>3 DEF Inv

LEMMA InvStep == Inv /\ [Next]_vars => Inv'
<1> SUFFICES ASSUME Inv, [Next]_vars PROVE Inv'
  OBVIOUS
<1>1. CASE SpeechStarts \/ Speaks \/ SpeechEnds \/ AnswerGoesOn
  BY <1>1, SpeechStartsStep, SpeaksStep, SpeechEndsStep, AnswerGoesOnStep
<1>2. CASE Stream
  BY <1>2, SenderSteps, OtherSteps DEF Stream
<1>3. CASE ProviderAnswers \/ ConnectionBreaks \/ Closes
  BY <1>3, OtherSteps
<1>4. CASE \E u \in Utterances : Answering(u)
  BY <1>4, AnsweringStep
<1>5. CASE UNCHANGED vars
  BY <1>5 DEF vars, caller, transcripts, link, sending, Inv, Typed, HandIsFree, Begun, Guarded,
              Owned, ConnectedIsHeard, SpeechIsKept
<1>6. QED BY <1>1, <1>2, <1>3, <1>4, <1>5 DEF Next

\* Every reachable state satisfies the inductive invariant, whatever the caller, the
\* provider and the tasks of earlier utterances do.
THEOREM SessionInvariant == Spec => []Inv
  BY InvInit, InvStep, PTL DEF Spec

\* A stream that counts as connected has a receiver, although connections are lost
\* and made again at any time.
THEOREM ReceiversListen == Spec => []ConnectedIsHeard
  BY SessionInvariant, PTL DEF Inv

\* Nothing the caller says before an answer takes the turn is lost without a trace,
\* however long the queue and however late the resets of earlier turns.
THEOREM FramesAreKept == Spec => []SpeechIsKept
  BY SessionInvariant, PTL DEF Inv

-----------------------------------------------------------------------------
(* SpeechSynthesis: the inductive invariant.                                 *)

\* The generator still hands out audio.
Live == generator \in {"getting", "playing"}

Results == {"new", "asking", "audio", "nothing", "dropped"}
Marked  == Nat \cup {End}

\* Every variable but the cache keeps its type; the mark is no segment.
StagesTyped ==
    /\ End \notin Nat /\ cancelled \in BOOLEAN
    /\ text \in Seq(Texts) /\ segmenter \in {"reading", "putting", "closing", "done"}
    /\ segments \in Seq(Marked)
    /\ feeder \in {"starting", "getting", "done"} /\ task \in Seq(Results)
    /\ synthesizer \in {"looking", "putting", "joining", "closing", "done"}
    /\ next \in Nat \ {0} /\ audio \in Seq(Marked)
    /\ generator \in {"getting", "playing", "ended", "left"} /\ spoken \in Seq(Nat)

\* The elements of the segment queue so far, with its end mark.
Put == CASE segmenter = "putting" -> Len(text) - 1
         [] segmenter = "done"    -> Len(text) + 1
         [] OTHER                 -> Len(text)

\* Until a cancellation no segment is lost between the text and its synthesis: each is
\* in the queue, of which only the last element may be the end mark, or has a task.
Fed ==
    Live /\ ~cancelled =>
      /\ \A k \in DOMAIN segments :
           segments[k] = End <=> segmenter = "done" /\ k = Len(segments)
      /\ IF feeder = "done" THEN segmenter = "done" /\ Len(task) = Len(text)
         ELSE Len(task) + Len(segments) = Put

\* Every segment of q comes before n.
Before(q, n) == \A i \in DOMAIN q : q[i] < n

\* What is queued goes on where what was spoken ends, and the end mark comes last.
Ordered ==
    Live =>
      /\ Before(spoken, next)
      /\ \A j \in DOMAIN audio :
           IF audio[j] = End THEN synthesizer = "done" /\ j = Len(audio)
           ELSE /\ audio[j] < next /\ Before(spoken, audio[j])
                /\ \A i \in 1 .. j - 1 : audio[i] < audio[j]

\* The segments whose audio has left the synthesizer.
Given == (ToSet(spoken) \cup ToSet(audio)) \ {End}

\* Every segment before the one that is due has its result, and its audio, if it got
\* any, has left the synthesizer.
Due ==
    Live /\ ~cancelled =>
      /\ next <= Len(task) + 1 /\ \A i \in 1 .. next - 1 : Finished(i)
      /\ synthesizer = "putting" => next <= Len(task) /\ task[next] = "audio"
      /\ synthesizer \in {"joining", "closing", "done"} => AllPut
      /\ Given = {i \in 1 .. next - 1 : task[i] = "audio"}

\* A stream that ended of itself had all of the text.
Over ==
    generator = "ended" /\ ~cancelled =>
      /\ segmenter = "done" /\ AllPut /\ synthesizer = "done"
      /\ \A i \in DOMAIN task : Finished(i)

StagesInv == StagesTyped /\ Fed /\ Ordered /\ Due /\ Over /\ SpeechIsWhole

-----------------------------------------------------------------------------
(* SpeechSynthesis: every step keeps it.                                     *)

LEMMA Appended ==
    ASSUME NEW S, NEW q \in Seq(S), NEW x \in S
    PROVE  /\ Append(q, x) \in Seq(S) /\ Len(Append(q, x)) = Len(q) + 1
           /\ DOMAIN Append(q, x) = 1 .. Len(q) + 1
           /\ Append(q, x)[Len(q) + 1] = x
           /\ \A i \in 1 .. Len(q) : Append(q, x)[i] = q[i]
           /\ ToSet(Append(q, x)) = ToSet(q) \cup {x}
<1>1. /\ Append(q, x) \in Seq(S) /\ Len(Append(q, x)) = Len(q) + 1
      /\ DOMAIN Append(q, x) = 1 .. Len(q) + 1 /\ DOMAIN q = 1 .. Len(q)
      /\ Append(q, x)[Len(q) + 1] = x /\ Len(q) \in Nat
      /\ \A i \in 1 .. Len(q) : Append(q, x)[i] = q[i]
  OBVIOUS
<1>2. ToSet(Append(q, x)) \subseteq ToSet(q) \cup {x}
  <2>1. ASSUME NEW i \in 1 .. Len(q) + 1 PROVE Append(q, x)[i] \in ToSet(q) \cup {x}
    <3>1. i = Len(q) + 1 \/ i \in 1 .. Len(q)
      BY <1>1
    <3>2. QED BY <1>1, <3>1 DEF ToSet
  <2>2. QED BY <1>1, <2>1 DEF ToSet
<1>3. ToSet(q) \cup {x} \subseteq ToSet(Append(q, x))
  <2>1. \A i \in 1 .. Len(q) : i \in 1 .. Len(q) + 1
    BY <1>1
  <2>2. Len(q) + 1 \in 1 .. Len(q) + 1
    BY <1>1
  <2>3. QED BY <1>1, <2>1, <2>2 DEF ToSet
<1>4. QED BY <1>1, <1>2, <1>3

LEMMA Taken ==
    ASSUME NEW S, NEW q \in Seq(S), q # <<>>
    PROVE  /\ Head(q) \in S /\ Head(q) = q[1] /\ 1 \in DOMAIN q /\ Len(q) >= 1
           /\ Tail(q) \in Seq(S) /\ Len(Tail(q)) = Len(q) - 1
           /\ DOMAIN Tail(q) = 1 .. Len(q) - 1
           /\ \A i \in 1 .. Len(q) - 1 : Tail(q)[i] = q[i + 1] /\ i + 1 \in DOMAIN q
           /\ ToSet(q) = {Head(q)} \cup ToSet(Tail(q))
<1>1. /\ Head(q) \in S /\ Head(q) = q[1] /\ 1 \in DOMAIN q /\ Len(q) >= 1 /\ Len(q) \in Nat
      /\ Tail(q) \in Seq(S) /\ Len(Tail(q)) = Len(q) - 1 /\ DOMAIN q = 1 .. Len(q)
      /\ DOMAIN Tail(q) = 1 .. Len(q) - 1
      /\ \A i \in 1 .. Len(q) - 1 : Tail(q)[i] = q[i + 1] /\ i + 1 \in DOMAIN q
  OBVIOUS
<1>2. ToSet(q) \subseteq {Head(q)} \cup ToSet(Tail(q))
  <2>1. ASSUME NEW i \in 1 .. Len(q) PROVE q[i] \in {Head(q)} \cup ToSet(Tail(q))
    <3>1. CASE i = 1
      BY <1>1, <3>1
    <3>2. CASE i # 1
      <4>1. i - 1 \in 1 .. Len(q) - 1 /\ Tail(q)[i - 1] = q[i]
        BY <1>1, <3>2
      <4>2. QED BY <1>1, <4>1 DEF ToSet
    <3>3. QED BY <3>1, <3>2
  <2>2. QED BY <1>1, <2>1 DEF ToSet
<1>3. {Head(q)} \cup ToSet(Tail(q)) \subseteq ToSet(q)
  BY <1>1 DEF ToSet
<1>4. QED BY <1>1, <1>2, <1>3

\* The segmenter.
LEMMA SegmentingStep ==
    ASSUME StagesInv, Extracts \/ Segmenting
    PROVE  StagesInv'
<1>1. /\ UNCHANGED <<cancelled, making, ordering, giving, cache>>
      /\ segmenter # "done" /\ Len(text) \in Nat /\ Len(segments) \in Nat /\ Len(task) \in Nat
  BY DEF Extracts, Segmenting, PutsSegment, TextEnds, PutsEnd, StagesInv, StagesTyped
<1>2. UNCHANGED <<feeder, task, synthesizer, next, audio, generator, spoken>>
  BY <1>1 DEF making, ordering, giving
<1>3. StagesTyped' /\ Fed'
  <2>1. CASE Extracts
    <3>1. PICK t \in Texts : text' = Append(text, t)
      BY <2>1 DEF Extracts
    <3>2. text' \in Seq(Texts) /\ Len(text') = Len(text) + 1
      BY <3>1, Appended DEF StagesInv, StagesTyped
    <3>3. CASE segments' = Append(segments, Len(text) + 1) /\ UNCHANGED segmenter
      <4>1. Len(text) + 1 \in Marked /\ Len(text) + 1 # End /\ segments \in Seq(Marked)
        BY <1>1 DEF Marked, StagesInv, StagesTyped
      <4>2. /\ segments' \in Seq(Marked) /\ Len(segments') = Len(segments) + 1
            /\ DOMAIN segments' = 1 .. Len(segments) + 1
            /\ segments'[Len(segments) + 1] # End
            /\ \A i \in 1 .. Len(segments) : segments'[i] = segments[i]
        BY <3>3, <4>1, Appended
      <4>3. StagesTyped'
        BY <1>1, <1>2, <3>2, <3>3, <4>2 DEF StagesInv, StagesTyped
      <4>4. Fed'
        <5>1. SUFFICES ASSUME Live, ~cancelled PROVE Fed'
          BY <1>1, <1>2 DEF Fed, Live
        <5>2. segmenter = "reading" /\ segmenter' = "reading"
          BY <2>1, <3>3 DEF Extracts
        <5>3. DOMAIN segments = 1 .. Len(segments)
          BY <4>1
        <5>4. /\ feeder # "done" /\ Len(task) + Len(segments) = Len(text)
              /\ \A k \in 1 .. Len(segments) : segments[k] # End
          BY <5>1, <5>2, <5>3 DEF StagesInv, Fed, Put
        <5>5. \A k \in DOMAIN segments' : segments'[k] # End
          <6>1. \A k \in 1 .. Len(segments) + 1 :
                  k = Len(segments) + 1 \/ k \in 1 .. Len(segments)
            BY <1>1
          <6>2. QED BY <4>2, <5>4, <6>1
        <5>6. feeder' # "done" /\ Len(task') + Len(segments') = Len(text')
          BY <1>1, <1>2, <3>2, <4>2, <5>4
        <5>7. QED BY <5>2, <5>5, <5>6 DEF Fed, Put
      <4>5. QED BY <4>3, <4>4
    <3>4. CASE segmenter' = "putting" /\ UNCHANGED segments
      <4>1. StagesTyped'
        BY <1>1, <1>2, <3>2, <3>4 DEF StagesInv, StagesTyped
      <4>2. Fed'
        BY <1>1, <1>2, <2>1, <3>2, <3>4 DEF Extracts, StagesInv, StagesTyped, Fed, Live, Put
      <4>3. QED BY <4>1, <4>2
    <3>5. QED BY <2>1, <3>3, <3>4 DEF Extracts
  <2>2. CASE PutsSegment
    <3>1. Len(text) \in Marked /\ Len(text) # End /\ segments \in Seq(Marked)
      BY <1>1 DEF Marked, StagesInv, StagesTyped
    <3>2. /\ segments' \in Seq(Marked) /\ Len(segments') = Len(segments) + 1
          /\ DOMAIN segments' = 1 .. Len(segments) + 1
          /\ segments'[Len(segments) + 1] # End
          /\ \A i \in 1 .. Len(segments) : segments'[i] = segments[i]
      BY <2>2, <3>1, Appended DEF PutsSegment
    <3>3. StagesTyped'
      BY <1>1, <1>2, <2>2, <3>2 DEF PutsSegment, StagesInv, StagesTyped
    <3>4. Fed'
      BY <1>1, <1>2, <2>2, <3>1, <3>2 DEF PutsSegment, StagesInv, StagesTyped, Fed, Live, Put
    <3>5. QED BY <3>3, <3>4
  <2>3. CASE PutsMark /\ segmenter \in {"reading", "closing"} /\ UNCHANGED text
    <3>1. End \in Marked /\ segments \in Seq(Marked) /\ segments' = Append(segments, End)
      BY <2>3 DEF Marked, StagesInv, StagesTyped, PutsMark, MarksEnd
    <3>2. /\ segments' \in Seq(Marked) /\ Len(segments') = Len(segments) + 1
          /\ DOMAIN segments' = 1 .. Len(segments) + 1
          /\ segments'[Len(segments) + 1] = End
          /\ \A i \in 1 .. Len(segments) : segments'[i] = segments[i]
      BY <3>1, Appended
    <3>3. StagesTyped'
      BY <1>1, <1>2, <2>3, <3>2 DEF PutsMark, StagesInv, StagesTyped
    <3>4. Fed'
      BY <1>1, <1>2, <2>3, <3>1, <3>2 DEF PutsMark, StagesInv, StagesTyped, Fed, Live, Put
    <3>5. QED BY <3>3, <3>4
  <2>4. CASE segmenter = "reading" /\ segmenter' = "closing" /\ UNCHANGED <<segments, text>>
    <3>1. StagesTyped'
      BY <1>1, <1>2, <2>4 DEF StagesInv, StagesTyped
    <3>2. Fed'
      BY <1>1, <1>2, <2>4 DEF StagesInv, StagesTyped, Fed, Live, Put
    <3>3. QED BY <3>1, <3>2
  <2>5. QED BY <2>1, <2>2, <2>3, <2>4 DEF Segmenting, TextEnds, PutsEnd
<1>4. Ordered' /\ Due'
  BY <1>1, <1>2 DEF StagesInv, Ordered, Due, Live, Before, Finished, AllPut, Given
<1>5. Over' /\ SpeechIsWhole'
  BY <1>1, <1>2 DEF StagesInv, Over, SpeechIsWhole
<1>6. QED BY <1>3, <1>4, <1>5 DEF StagesInv

\* The feeder.
LEMMA FeedingStep ==
    ASSUME StagesInv, Feeding
    PROVE  StagesInv'
<1>1. /\ UNCHANGED <<cancelled, text, segmenter, ordering, giving, cache>>
      /\ feeder # "done" /\ Len(text) \in Nat /\ Len(segments) \in Nat /\ Len(task) \in Nat
      /\ DOMAIN task = 1 .. Len(task)
  BY DEF Feeding, FeederStarts, FeederTakes, cutting, StagesInv, StagesTyped
<1>2. UNCHANGED <<cancelled, text, segmenter, synthesizer, next, audio, generator, spoken>>
  BY <1>1 DEF ordering, giving
<1>3. CASE FeederStarts \/ (FeederTakes /\ Head(segments) = End)
  <2>1. UNCHANGED task
    BY <1>3 DEF FeederStarts, FeederTakes
  <2>2. StagesTyped' /\ Fed'
    <3>1. CASE FeederStarts
      <4>1. feeder' = Waiting /\ UNCHANGED segments
        BY <3>1 DEF FeederStarts, cutting
      <4>2. StagesTyped'
        BY <1>1, <1>2, <2>1, <4>1 DEF StagesInv, StagesTyped, Waiting
      <4>3. Fed'
        BY <1>1, <1>2, <2>1, <4>1 DEF StagesInv, Fed, Live, Put, Waiting
      <4>4. QED BY <4>2, <4>3
    <3>2. CASE FeederTakes /\ Head(segments) = End
      <4>1. feeder' = "done" /\ segments # <<>> /\ segments' = Tail(segments)
        BY <3>2 DEF FeederTakes
      <4>2. /\ segments' \in Seq(Marked) /\ segments[1] = End /\ 1 \in DOMAIN segments
            /\ Len(segments') = Len(segments) - 1 /\ DOMAIN segments' = 1 .. Len(segments) - 1
        BY <3>2, <4>1, Taken DEF StagesInv, StagesTyped
      <4>3. StagesTyped'
        BY <1>1, <1>2, <2>1, <4>1, <4>2 DEF StagesInv, StagesTyped
      <4>4. Fed'
        BY <1>1, <1>2, <2>1, <4>1, <4>2 DEF StagesInv, Fed, Live, Put
      <4>5. QED BY <4>3, <4>4
    <3>3. QED BY <1>3, <3>1, <3>2
  <2>3. Ordered' /\ Due'
    BY <1>1, <1>2, <2>1 DEF StagesInv, Ordered, Due, Live, Before, Finished, AllPut, Given
  <2>4. Over' /\ SpeechIsWhole'
    BY <1>1, <1>2, <2>1 DEF StagesInv, Over, SpeechIsWhole, AllPut
  <2>5. QED BY <2>2, <2>3, <2>4 DEF StagesInv
<1>4. CASE FeederTakes /\ Head(segments) # End
  <2>1. /\ task' = Append(task, "new") /\ feeder' = Waiting
        /\ segments # <<>> /\ segments' = Tail(segments)
    BY <1>4 DEF FeederTakes
  <2>2. /\ task' \in Seq(Results) /\ Len(task') = Len(task) + 1
        /\ DOMAIN task' = 1 .. Len(task) + 1
        /\ \A i \in 1 .. Len(task) : task'[i] = task[i]
    BY <2>1, Appended DEF StagesInv, StagesTyped, Results
  <2>3. /\ segments' \in Seq(Marked) /\ segments[1] # End /\ 1 \in DOMAIN segments
        /\ Len(segments') = Len(segments) - 1 /\ DOMAIN segments' = 1 .. Len(segments) - 1
        /\ \A i \in 1 .. Len(segments) - 1 :
             segments'[i] = segments[i + 1] /\ i + 1 \in DOMAIN segments
    BY <1>4, <2>1, Taken DEF StagesInv, StagesTyped
  <2>4. StagesTyped'
    BY <1>1, <1>2, <2>1, <2>2, <2>3 DEF StagesInv, StagesTyped, Waiting
  <2>5. Fed'
    <3>1. SUFFICES ASSUME Live, ~cancelled
          PROVE  /\ \A k \in DOMAIN segments' :
                      segments'[k] = End <=> segmenter = "done" /\ k = Len(segments')
                 /\ feeder' # "done" /\ Len(task') + Len(segments') = Put
      BY <1>2 DEF Fed, Live, Put
    <3>2. /\ \A k \in DOMAIN segments :
               segments[k] = End <=> segmenter = "done" /\ k = Len(segments)
          /\ Len(task) + Len(segments) = Put
      BY <1>1, <3>1 DEF StagesInv, Fed
    <3>3. \A k \in 1 .. Len(segments) - 1 :
            segments'[k] = End <=> segmenter = "done" /\ k = Len(segments')
      BY <1>1, <2>3, <3>2
    <3>4. feeder' # "done" /\ Len(task') + Len(segments') = Put
      BY <1>1, <2>1, <2>2, <2>3, <3>1, <3>2 DEF Waiting
    <3>5. QED BY <2>3, <3>3, <3>4
  <2>6. Ordered'
    BY <1>1, <1>2 DEF StagesInv, Ordered, Live, Before
  <2>7. Due'
    BY <1>1, <1>2, <2>2 DEF StagesInv, StagesTyped, Due, Live, Finished, AllPut, Given
  <2>8. Over' /\ SpeechIsWhole'
    BY <1>1, <1>2 DEF StagesInv, Over, SpeechIsWhole, AllPut
  <2>9. QED BY <2>4, <2>5, <2>6, <2>7, <2>8 DEF StagesInv
<1>5. QED BY <1>3, <1>4 DEF Feeding

\* The syntheses, which end in any order: one whose audio was put has ended.
LEMMA SynthesisStep ==
    ASSUME StagesInv, NEW i \in DOMAIN task, Working(i)
    PROVE  StagesInv'
<1>1. /\ UNCHANGED <<cancelled, cutting, feeder, ordering, giving>>
      /\ ~Finished(i) /\ Len(task) \in Nat /\ DOMAIN task = 1 .. Len(task)
  BY DEF Working, TaskStarts, TaskEnds, Finished, StagesInv, StagesTyped
<1>2. UNCHANGED <<cancelled, text, segmenter, segments, feeder, synthesizer, next, audio,
                  generator, spoken>>
  BY <1>1 DEF cutting, ordering, giving
<1>3. PICK result \in Results : task' = [task EXCEPT ![i] = result]
  BY DEF Working, TaskStarts, TaskEnds, Ended, Results
<1>4. /\ task' \in Seq(Results) /\ Len(task') = Len(task) /\ DOMAIN task' = DOMAIN task
      /\ \A j \in DOMAIN task : j # i => task'[j] = task[j]
  BY <1>3 DEF StagesInv, StagesTyped
<1>5. StagesTyped' /\ Fed' /\ Ordered'
  BY <1>2, <1>4 DEF StagesInv, StagesTyped, Fed, Put, Ordered, Before, Live
<1>6. Due'
  <2>1. SUFFICES ASSUME Live, ~cancelled PROVE Due'
    BY <1>2 DEF Due, Live
  <2>2. /\ next <= Len(task) + 1 /\ \A j \in 1 .. next - 1 : Finished(j)
        /\ synthesizer = "putting" => next <= Len(task) /\ task[next] = "audio"
        /\ synthesizer \in {"joining", "closing", "done"} => AllPut
        /\ Given = {j \in 1 .. next - 1 : task[j] = "audio"} /\ next \in Nat /\ next # 0
    BY <2>1 DEF StagesInv, StagesTyped, Due
  <2>3. \A j \in 1 .. next - 1 : j \in DOMAIN task /\ j # i /\ task'[j] = task[j]
    BY <1>1, <1>4, <2>2
  <2>4. synthesizer = "putting" => next \in DOMAIN task /\ next # i
    BY <1>1, <2>2 DEF Finished
  <2>5. Given' = Given
    BY <1>2 DEF Given
  <2>6. AllPut' <=> AllPut
    BY <1>2, <1>4 DEF AllPut
  <2>7. {j \in 1 .. next - 1 : task'[j] = "audio"} = {j \in 1 .. next - 1 : task[j] = "audio"}
    BY <2>3
  <2>8. \A j \in 1 .. next - 1 : Finished(j)'
    BY <2>2, <2>3 DEF Finished
  <2>9. synthesizer = "putting" => next <= Len(task) /\ task'[next] = "audio"
    BY <1>4, <2>2, <2>4
  <2>10. QED BY <1>2, <1>4, <2>2, <2>5, <2>6, <2>7, <2>8, <2>9 DEF Due
<1>7. ~(generator = "ended" /\ ~cancelled)
  BY <1>1 DEF StagesInv, Over
<1>8. Over' /\ SpeechIsWhole'
  BY <1>2, <1>7 DEF StagesInv, Over, SpeechIsWhole
<1>9. QED BY <1>5, <1>6, <1>8 DEF StagesInv

\* The synthesizer, which puts the audio that is due or goes on.
LEMMA OrderingStep ==
    ASSUME StagesInv, Synthesizing
    PROVE  StagesInv'
<1>1. /\ UNCHANGED <<cancelled, cutting, feeder, giving, cache>>
      /\ Len(task) \in Nat /\ DOMAIN task = 1 .. Len(task)
      /\ synthesizer # "done" /\ next \in Nat /\ next # 0
      /\ Len(audio) \in Nat /\ DOMAIN audio = 1 .. Len(audio)
  BY DEF Synthesizing, Waits, PutsAudio, Stops, Joins, PutsAudioEnd, making, StagesInv,
         StagesTyped
<1>2. UNCHANGED <<cancelled, text, segmenter, segments, feeder, generator, spoken>>
  BY <1>1 DEF cutting, giving
<1>3. ~(generator = "ended" /\ ~cancelled)
  BY <1>1 DEF StagesInv, Over
<1>4. Over' /\ SpeechIsWhole'
  BY <1>2, <1>3 DEF StagesInv, Over, SpeechIsWhole
<1>5. CASE Waits
  <2>1. /\ UNCHANGED <<task, audio>> /\ synthesizer = "looking"
        /\ next <= Len(task) /\ Finished(next)
        /\ \/ task[next] = "audio" /\ ~cancelled /\ synthesizer' = "putting" /\ next' = next
           \/ ~(task[next] = "audio" /\ ~cancelled) /\ synthesizer' = "looking" /\ next' = next + 1
    BY <1>5 DEF Waits, making
  <2>2. StagesTyped' /\ Fed'
    BY <1>1, <1>2, <2>1 DEF StagesInv, StagesTyped, Fed, Put, Live
  <2>3. Ordered'
    <3>1. SUFFICES ASSUME Live PROVE Ordered'
      BY <1>2 DEF Ordered, Live
    <3>2. Before(spoken, next) /\ \A i \in DOMAIN spoken : spoken[i] \in Nat
      BY <3>1 DEF StagesInv, StagesTyped, Ordered
    <3>3. Before(spoken, next')
      BY <1>1, <2>1, <3>2 DEF Before
    <3>4. \A j \in DOMAIN audio : audio[j] # End /\ audio[j] \in Nat /\ audio[j] < next
      BY <2>1, <3>1 DEF StagesInv, StagesTyped, Ordered, Marked
    <3>5. \A j \in DOMAIN audio : audio[j] < next'
      BY <1>1, <2>1, <3>4
    <3>6. QED BY <1>2, <2>1, <3>1, <3>3, <3>4, <3>5 DEF StagesInv, Ordered, Before
  <2>4. Due'
    <3>1. SUFFICES ASSUME Live, ~cancelled PROVE Due'
      BY <1>2 DEF Due, Live
    <3>2. /\ next <= Len(task) + 1 /\ \A j \in 1 .. next - 1 : Finished(j)
          /\ Given = {j \in 1 .. next - 1 : task[j] = "audio"}
      BY <3>1 DEF StagesInv, Due
    <3>3. Given' = Given
      BY <1>2, <2>1 DEF Given
    <3>4. CASE next' = next
      BY <1>2, <2>1, <3>2, <3>3, <3>4, <3>1 DEF Due, Finished
    <3>5. CASE next' = next + 1
      <4>1. \A j \in 1 .. next'  - 1 : j = next \/ j \in 1 .. next - 1
        BY <1>1, <3>5
      <4>2. task[next] # "audio" /\ synthesizer' = "looking"
        BY <1>1, <2>1, <3>1, <3>5
      <4>3. \A j \in 1 .. next - 1 : j \in 1 .. next' - 1
        BY <1>1, <3>5
      <4>4. Given' = {j \in 1 .. next' - 1 : task[j] = "audio"}
        BY <3>2, <3>3, <4>1, <4>2, <4>3
      <4>5. \A j \in 1 .. next' - 1 : Finished(j)'
        BY <2>1, <3>2, <4>1 DEF Finished
      <4>6. next' <= Len(task) + 1
        BY <1>1, <2>1, <3>5
      <4>7. QED BY <2>1, <4>2, <4>4, <4>5, <4>6 DEF Due
    <3>6. QED BY <2>1, <3>4, <3>5
  <2>5. QED BY <1>4, <2>2, <2>3, <2>4 DEF StagesInv
<1>6. CASE PutsAudio
  <2>1. /\ UNCHANGED task /\ synthesizer = "putting" /\ synthesizer' = "looking"
        /\ audio' = Append(audio, next) /\ next' = next + 1
    BY <1>6 DEF PutsAudio, making
  <2>2. next \in Marked /\ audio \in Seq(Marked) /\ next # End
    BY <1>1 DEF Marked, StagesInv, StagesTyped
  <2>3. /\ audio' \in Seq(Marked) /\ DOMAIN audio' = 1 .. Len(audio) + 1
        /\ Len(audio') = Len(audio) + 1 /\ audio'[Len(audio) + 1] = next
        /\ \A i \in 1 .. Len(audio) : audio'[i] = audio[i]
        /\ ToSet(audio') = ToSet(audio) \cup {next}
    BY <2>1, <2>2, Appended
  <2>4. StagesTyped' /\ Fed'
    BY <1>1, <1>2, <2>1, <2>3 DEF StagesInv, StagesTyped, Fed, Put, Live
  <2>5. Ordered'
    <3>1. SUFFICES ASSUME Live PROVE Ordered'
      BY <1>2 DEF Ordered, Live
    <3>2. Before(spoken, next) /\ \A i \in DOMAIN spoken : spoken[i] \in Nat
      BY <3>1 DEF StagesInv, StagesTyped, Ordered
    <3>3. Before(spoken, next')
      BY <1>1, <2>1, <3>2 DEF Before
    <3>4. \A j \in 1 .. Len(audio) :
            /\ audio[j] \in Nat /\ audio[j] < next /\ audio[j] # End /\ Before(spoken, audio[j])
            /\ \A i \in 1 .. j - 1 : audio[i] < audio[j]
      <4>1. \A j \in 1 .. Len(audio) : audio[j] \in Marked
        BY <1>1 DEF StagesInv, StagesTyped
      <4>2. \A j \in 1 .. Len(audio) :
              /\ audio[j] < next /\ audio[j] # End /\ Before(spoken, audio[j])
              /\ \A i \in 1 .. j - 1 : audio[i] < audio[j]
        BY <1>1, <2>1, <3>1 DEF StagesInv, Ordered
      <4>3. QED BY <4>1, <4>2 DEF Marked
    <3>5. ASSUME NEW j \in DOMAIN audio'
          PROVE  /\ audio'[j] # End /\ audio'[j] < next' /\ Before(spoken, audio'[j])
                 /\ \A i \in 1 .. j - 1 : audio'[i] < audio'[j]
      <4>1. CASE j = Len(audio) + 1
        BY <1>1, <2>1, <2>2, <2>3, <3>2, <3>4, <4>1
      <4>2. CASE j \in 1 .. Len(audio)
        <5>1. \A i \in 1 .. j - 1 : i \in 1 .. Len(audio) /\ audio'[i] = audio[i]
          BY <1>1, <2>3, <4>2
        <5>2. QED BY <1>1, <2>1, <2>3, <3>4, <4>2, <5>1
      <4>3. QED BY <1>1, <2>3, <4>1, <4>2
    <3>6. QED BY <1>2, <3>3, <3>5 DEF Ordered, Before
  <2>6. Due'
    <3>1. SUFFICES ASSUME Live, ~cancelled PROVE Due'
      BY <1>2 DEF Due, Live
    <3>2. /\ next <= Len(task) /\ task[next] = "audio"
          /\ \A j \in 1 .. next - 1 : Finished(j)
          /\ Given = {j \in 1 .. next - 1 : task[j] = "audio"}
      BY <2>1, <3>1 DEF StagesInv, Due
    <3>3. Given' = Given \cup {next}
      BY <1>2, <2>2, <2>3 DEF Given
    <3>4. /\ \A j \in 1 .. next'  - 1 : j = next \/ j \in 1 .. next - 1
          /\ \A j \in 1 .. next - 1 : j \in 1 .. next' - 1
          /\ next \in 1 .. next' - 1 /\ next' <= Len(task) + 1
      BY <1>1, <2>1, <3>2
    <3>5. Given' = {j \in 1 .. next' - 1 : task[j] = "audio"}
      BY <3>2, <3>3, <3>4
    <3>6. \A j \in 1 .. next' - 1 : Finished(j)'
      BY <2>1, <3>2, <3>4 DEF Finished
    <3>7. QED BY <2>1, <3>4, <3>5, <3>6 DEF Due
  <2>7. QED BY <1>4, <2>4, <2>5, <2>6 DEF StagesInv
<1>7. CASE Stops \/ Joins
  <2>1. /\ UNCHANGED <<next, audio>>
        /\ \/ synthesizer = "looking" /\ synthesizer' = "joining" /\ task' = task
              /\ (cancelled \/ AllPut)
           \/ synthesizer = "joining" /\ synthesizer' = "closing" /\ task' = Dropped
    BY <1>7 DEF Stops, Joins, making
  <2>2. /\ task' \in Seq(Results) /\ Len(task') = Len(task) /\ DOMAIN task' = DOMAIN task
        /\ \A j \in DOMAIN task : Finished(j) => task'[j] = task[j]
    <3>1. ASSUME task' = Dropped
          PROVE  /\ task' \in Seq(Results) /\ Len(task') = Len(task) /\ DOMAIN task' = DOMAIN task
                 /\ \A j \in DOMAIN task : Finished(j) => task'[j] = task[j]
      BY <1>1, <3>1 DEF Dropped, StagesInv, StagesTyped, Results
    <3>2. QED BY <2>1, <3>1 DEF StagesInv, StagesTyped
  <2>3. StagesTyped' /\ Fed' /\ Ordered'
    <3>1. StagesTyped' /\ Fed'
      BY <1>2, <2>1, <2>2 DEF StagesInv, StagesTyped, Fed, Put, Live
    <3>2. Ordered'
      BY <1>2, <2>1 DEF StagesInv, Ordered, Before, Live
    <3>3. QED BY <3>1, <3>2
  <2>4. Due'
    <3>1. SUFFICES ASSUME Live, ~cancelled PROVE Due'
      BY <1>2 DEF Due, Live
    <3>2. /\ AllPut /\ next <= Len(task) + 1 /\ \A j \in 1 .. next - 1 : Finished(j)
          /\ Given = {j \in 1 .. next - 1 : task[j] = "audio"}
      BY <2>1, <3>1 DEF StagesInv, Due
    <3>3. \A j \in 1 .. next - 1 : j \in DOMAIN task /\ task'[j] = task[j]
      BY <1>1, <2>2, <3>2
    <3>4. \A j \in 1 .. next - 1 : Finished(j)'
      BY <3>2, <3>3 DEF Finished
    <3>5. AllPut' /\ Given' = Given
      BY <1>2, <2>1, <2>2, <3>2 DEF AllPut, Given
    <3>6. Given = {j \in 1 .. next - 1 : task'[j] = "audio"}
      BY <3>2, <3>3
    <3>7. QED BY <2>1, <2>2, <3>2, <3>4, <3>5, <3>6 DEF Due
  <2>5. QED BY <1>4, <2>3, <2>4 DEF StagesInv
<1>8. CASE PutsAudioEnd
  <2>1. /\ UNCHANGED <<task, next>> /\ synthesizer = "closing" /\ synthesizer' = "done"
        /\ audio' = Append(audio, End)
    BY <1>8 DEF PutsAudioEnd, making
  <2>2. End \in Marked /\ audio \in Seq(Marked)
    BY DEF Marked, StagesInv, StagesTyped
  <2>3. /\ audio' \in Seq(Marked) /\ DOMAIN audio' = 1 .. Len(audio) + 1
        /\ Len(audio') = Len(audio) + 1 /\ audio'[Len(audio) + 1] = End
        /\ \A i \in 1 .. Len(audio) : audio'[i] = audio[i]
        /\ ToSet(audio') = ToSet(audio) \cup {End}
    BY <2>1, <2>2, Appended
  <2>4. StagesTyped' /\ Fed'
    BY <1>1, <1>2, <2>1, <2>3 DEF StagesInv, StagesTyped, Fed, Put, Live
  <2>5. Ordered'
    <3>1. SUFFICES ASSUME Live PROVE Ordered'
      BY <1>2 DEF Ordered, Live
    <3>2. \A j \in 1 .. Len(audio) :
            /\ audio[j] # End /\ audio[j] < next /\ Before(spoken, audio[j])
            /\ \A i \in 1 .. j - 1 : audio[i] < audio[j]
      BY <1>1, <2>1, <3>1 DEF StagesInv, Ordered
    <3>3. ASSUME NEW j \in 1 .. Len(audio)
          PROVE  /\ audio'[j] # End /\ audio'[j] < next /\ Before(spoken, audio'[j])
                 /\ \A i \in 1 .. j - 1 : audio'[i] < audio'[j]
      <4>1. \A i \in 1 .. j - 1 : i \in 1 .. Len(audio) /\ audio'[i] = audio[i]
        BY <1>1, <2>3
      <4>2. QED BY <2>3, <3>2, <4>1
    <3>4. \A j \in DOMAIN audio' : j = Len(audio) + 1 \/ j \in 1 .. Len(audio)
      BY <1>1, <2>3
    <3>5. Before(spoken, next)
      BY <3>1 DEF StagesInv, Ordered
    <3>6. QED BY <1>2, <2>1, <2>3, <3>3, <3>4, <3>5 DEF Ordered, Before
  <2>6. Due'
    <3>1. Given' = Given
      BY <1>2, <2>3 DEF Given
    <3>2. QED BY <1>2, <2>1, <3>1 DEF StagesInv, Due, Live, Finished, AllPut
  <2>7. QED BY <1>4, <2>4, <2>5, <2>6 DEF StagesInv
<1>9. QED BY <1>5, <1>6, <1>7, <1>8 DEF Synthesizing

\* The generator ends, and with it what still runs.
LEMMA LeavesStep ==
    ASSUME StagesInv, Live, NEW how \in {"ended", "left"}, Leaves(how), UNCHANGED spoken,
           audio' \in Seq(Marked),
           how = "ended" /\ ~cancelled =>
             /\ segmenter = "done" /\ feeder = "done" /\ synthesizer = "done" /\ AllPut
             /\ Len(task) = Len(text) /\ \A i \in DOMAIN task : Finished(i)
             /\ ToSet(spoken) = {i \in DOMAIN task : task[i] = "audio"}
    PROVE  StagesInv'
<1>1. /\ generator' = how /\ task' = Dropped
      /\ segmenter' = IF segmenter \in {"reading", "putting"} THEN "closing" ELSE "done"
      /\ synthesizer' = IF synthesizer \in {"looking", "putting", "joining"}
                        THEN "closing" ELSE "done"
      /\ feeder' = IF synthesizer = "joining" THEN "done" ELSE feeder
      /\ UNCHANGED <<cancelled, text, segments, next>>
  BY DEF Leaves
<1>2. /\ task' \in Seq(Results) /\ Len(task') = Len(task) /\ DOMAIN task' = DOMAIN task
      /\ \A j \in DOMAIN task : Finished(j) => task'[j] = task[j]
  <2>1. /\ Len(task) \in Nat /\ DOMAIN task = 1 .. Len(task)
        /\ \A j \in DOMAIN task : task[j] \in Results
    BY DEF StagesInv, StagesTyped
  <2>2. task' = Dropped
    BY <1>1
  <2>3. QED BY <2>1, <2>2 DEF Dropped, Results
<1>3. StagesTyped'
  BY <1>1, <1>2 DEF StagesInv, StagesTyped
<1>4. Fed' /\ Ordered' /\ Due'
  BY <1>1 DEF Fed, Ordered, Due, Live
<1>5. CASE ~(how = "ended" /\ ~cancelled)
  BY <1>1, <1>3, <1>4, <1>5 DEF StagesInv, Over, SpeechIsWhole
<1>6. CASE how = "ended" /\ ~cancelled
  <2>1. \A i \in DOMAIN task : Finished(i) /\ Finished(i)' /\ task'[i] = task[i]
    BY <1>2, <1>6 DEF Finished
  <2>2. {i \in DOMAIN task' : task'[i] = "audio"} = {i \in DOMAIN task : task[i] = "audio"}
    BY <1>2, <2>1
  <2>3. SpeechIsWhole'
    BY <1>1, <1>2, <1>6, <2>2 DEF StagesInv, SpeechIsWhole
  <2>4. Over'
    BY <1>1, <1>2, <1>6, <2>1 DEF Over, AllPut
  <2>5. QED BY <1>3, <1>4, <2>3, <2>4 DEF StagesInv
<1>7. QED BY <1>5, <1>6

LEMMA TakesStep ==
    ASSUME StagesInv, GeneratorTakes
    PROVE  StagesInv'
<1>1. /\ Live /\ audio # <<>> /\ audio' = Tail(audio)
      /\ IF Head(audio) = End \/ cancelled
         THEN Leaves("ended") /\ UNCHANGED spoken
         ELSE /\ generator' = "playing" /\ spoken' = Append(spoken, Head(audio))
              /\ UNCHANGED <<cancelled, cutting, making, synthesizer, next, cache>>
  BY DEF GeneratorTakes, Live
<1>2. /\ Head(audio) \in Marked /\ Head(audio) = audio[1] /\ 1 \in DOMAIN audio
      /\ audio' \in Seq(Marked) /\ Len(audio') = Len(audio) - 1
      /\ DOMAIN audio' = 1 .. Len(audio) - 1 /\ Len(audio) >= 1
      /\ \A i \in 1 .. Len(audio) - 1 : audio'[i] = audio[i + 1] /\ i + 1 \in DOMAIN audio
      /\ ToSet(audio) = {Head(audio)} \cup ToSet(audio')
  BY <1>1, Taken DEF StagesInv, StagesTyped
<1>3. /\ Len(task) \in Nat /\ DOMAIN task = 1 .. Len(task) /\ next \in Nat
      /\ Len(audio) \in Nat /\ DOMAIN audio = 1 .. Len(audio)
      /\ Len(spoken) \in Nat /\ DOMAIN spoken = 1 .. Len(spoken)
      /\ \A i \in DOMAIN spoken : spoken[i] \in Nat
  BY DEF StagesInv, StagesTyped
<1>4. CASE Head(audio) = End \/ cancelled
  <2>1. SUFFICES ASSUME ~cancelled
        PROVE  /\ segmenter = "done" /\ feeder = "done" /\ synthesizer = "done" /\ AllPut
               /\ Len(task) = Len(text) /\ \A i \in DOMAIN task : Finished(i)
               /\ ToSet(spoken) = {i \in DOMAIN task : task[i] = "audio"}
    BY <1>1, <1>2, <1>4, LeavesStep
  <2>2. synthesizer = "done" /\ 1 = Len(audio)
    BY <1>1, <1>2, <1>4, <2>1 DEF StagesInv, Ordered
  <2>3. /\ AllPut /\ next <= Len(task) + 1 /\ \A i \in 1 .. next - 1 : Finished(i)
        /\ Given = {i \in 1 .. next - 1 : task[i] = "audio"}
    BY <1>1, <2>1, <2>2 DEF StagesInv, Due
  <2>4. next - 1 = Len(task) /\ feeder = "done"
    BY <1>3, <2>3 DEF AllPut
  <2>5. segmenter = "done" /\ Len(task) = Len(text)
    BY <1>1, <2>1, <2>4 DEF StagesInv, Fed
  <2>6. ToSet(spoken) = Given
    <3>1. ToSet(audio') = {}
      <4>1. DOMAIN audio' = 1 .. 1 - 1
        BY <1>2, <2>2, Zenon
      <4>2. \A i \in 1 .. 1 - 1 : FALSE
        OBVIOUS
      <4>3. QED BY <4>1, <4>2 DEF ToSet
    <3>2. End \notin ToSet(spoken)
      BY <1>3 DEF ToSet, StagesInv, StagesTyped
    <3>3. QED BY <1>2, <1>4, <2>1, <3>1, <3>2 DEF Given
  <2>7. QED BY <1>3, <2>2, <2>3, <2>4, <2>5, <2>6
<1>5. CASE ~(Head(audio) = End \/ cancelled)
  <2>1. /\ generator' = "playing" /\ spoken' = Append(spoken, Head(audio)) /\ ~cancelled
        /\ UNCHANGED <<cancelled, text, segmenter, segments, feeder, task, synthesizer, next>>
    BY <1>1, <1>5 DEF cutting, making
  <2>2. Head(audio) \in Nat /\ Head(audio) # End
    BY <1>2, <1>5 DEF Marked
  <2>3. /\ spoken' \in Seq(Nat) /\ DOMAIN spoken' = 1 .. Len(spoken) + 1
        /\ spoken'[Len(spoken) + 1] = audio[1]
        /\ \A i \in 1 .. Len(spoken) : spoken'[i] = spoken[i]
        /\ ToSet(spoken') = ToSet(spoken) \cup {Head(audio)}
    <3>1. spoken \in Seq(Nat)
      BY DEF StagesInv, StagesTyped
    <3>2. QED BY <1>2, <2>1, <2>2, <3>1, Appended
  <2>4. StagesTyped' /\ Fed' /\ Over'
    BY <1>1, <1>2, <2>1, <2>3 DEF StagesInv, StagesTyped, Fed, Put, Over, Live
  <2>5. /\ Before(spoken, next) /\ audio[1] < next /\ Before(spoken, audio[1])
        /\ \A j \in DOMAIN audio :
             IF audio[j] = End THEN synthesizer = "done" /\ j = Len(audio)
             ELSE /\ audio[j] < next /\ Before(spoken, audio[j])
                  /\ \A i \in 1 .. j - 1 : audio[i] < audio[j]
    BY <1>1, <1>2, <2>2 DEF StagesInv, Ordered
  <2>6. \A i \in 1 .. Len(spoken) + 1 : i = Len(spoken) + 1 \/ i \in 1 .. Len(spoken)
    BY <1>3
  <2>7. Ordered'
    <3>1. Before(spoken', next)
      BY <1>3, <2>3, <2>5, <2>6 DEF Before
    <3>2. ASSUME NEW j \in DOMAIN audio'
          PROVE  IF audio'[j] = End THEN synthesizer = "done" /\ j = Len(audio')
                 ELSE /\ audio'[j] < next /\ Before(spoken', audio'[j])
                      /\ \A i \in 1 .. j - 1 : audio'[i] < audio'[j]
      <4>1. j + 1 \in DOMAIN audio /\ audio'[j] = audio[j + 1] /\ j \in Nat /\ j >= 1
        BY <1>2
      <4>2. CASE audio'[j] = End
        BY <1>2, <1>3, <2>5, <4>1, <4>2
      <4>3. CASE audio'[j] # End
        <5>1. /\ audio'[j] < next /\ Before(spoken, audio'[j])
              /\ \A i \in 1 .. j : audio[i] < audio'[j]
          BY <2>5, <4>1, <4>3
        <5>2. Before(spoken', audio'[j])
          BY <1>3, <2>3, <2>6, <4>1, <5>1 DEF Before
        <5>3. \A i \in 1 .. j - 1 : audio'[i] = audio[i + 1] /\ i + 1 \in 1 .. j
          BY <1>2, <1>3, <4>1
        <5>4. QED BY <4>3, <5>1, <5>2, <5>3
      <4>4. QED BY <4>2, <4>3
    <3>3. QED BY <2>1, <3>1, <3>2 DEF Ordered
  <2>8. Due'
    <3>1. Given' = Given
      BY <1>2, <2>3 DEF Given
    <3>2. QED BY <1>1, <2>1, <3>1 DEF StagesInv, Due, Live, Finished, AllPut
  <2>9. SpeechIsWhole'
    <3>1. ASSUME NEW i \in DOMAIN spoken', NEW j \in DOMAIN spoken', i < j
          PROVE  spoken'[i] < spoken'[j]
      <4>1. i \in 1 .. Len(spoken) /\ spoken'[i] = spoken[i]
        BY <1>3, <2>3, <3>1
      <4>2. CASE j = Len(spoken) + 1
        BY <1>3, <2>3, <2>5, <4>1, <4>2 DEF Before
      <4>3. CASE j \in 1 .. Len(spoken)
        BY <1>3, <2>3, <3>1, <4>1, <4>3 DEF StagesInv, SpeechIsWhole
      <4>4. QED BY <2>3, <2>6, <4>2, <4>3
    <3>2. QED BY <2>1, <3>1 DEF SpeechIsWhole
  <2>10. QED BY <2>4, <2>7, <2>8, <2>9 DEF StagesInv
<1>6. QED BY <1>4, <1>5

\* The consumer goes on, leaves or cancels.
LEMMA GivingStep ==
    ASSUME StagesInv, Plays \/ ConsumerLeaves \/ Cancel
    PROVE  StagesInv'
<1>1. CASE Plays /\ ~cancelled
  <2>1. /\ generator = "playing" /\ generator' = "getting"
        /\ UNCHANGED <<cancelled, text, segmenter, segments, feeder, task, synthesizer, next,
                       audio, spoken>>
    BY <1>1 DEF Plays, cutting, making
  <2>2. StagesTyped' /\ Fed' /\ Over' /\ SpeechIsWhole'
    BY <2>1 DEF StagesInv, StagesTyped, Fed, Put, Live, Over, SpeechIsWhole
  <2>3. Ordered' /\ Due'
    BY <2>1 DEF StagesInv, Ordered, Due, Live, Before, Finished, AllPut, Given
  <2>4. QED BY <2>2, <2>3 DEF StagesInv
<1>2. CASE (Plays /\ cancelled) \/ ConsumerLeaves
  <2>1. /\ Live /\ UNCHANGED <<audio, spoken>>
        /\ \/ Leaves("ended") /\ cancelled
           \/ Leaves("left")
    BY <1>2 DEF Plays, ConsumerLeaves, Live
  <2>2. audio' \in Seq(Marked)
    BY <2>1 DEF StagesInv, StagesTyped
  <2>3. QED BY <2>1, <2>2, LeavesStep
<1>3. CASE Cancel
  <2>1. /\ cancelled' = TRUE
        /\ UNCHANGED <<text, segmenter, segments, feeder, task, synthesizer, next,
                       audio, generator, spoken>>
    BY <1>3 DEF Cancel, cutting, making, ordering, giving
  <2>2. StagesTyped' /\ Fed' /\ Due' /\ Over' /\ SpeechIsWhole'
    BY <2>1 DEF StagesInv, StagesTyped, Fed, Due, Over, SpeechIsWhole
  <2>3. Ordered'
    BY <2>1 DEF StagesInv, Ordered, Live, Before
  <2>4. QED BY <2>2, <2>3 DEF StagesInv
<1>4. QED BY <1>1, <1>2, <1>3

-----------------------------------------------------------------------------
(* SpeechSynthesis: the theorems.                                            *)

LEMMA StagesInit == ResponseInit => StagesInv
<1> SUFFICES ASSUME ResponseInit PROVE StagesInv
  OBVIOUS
<1>1. /\ <<>> \in Seq(Texts) /\ <<>> \in Seq(Marked)
      /\ <<>> \in Seq(Results) /\ <<>> \in Seq(Nat)
      /\ Len(<<>>) = 0 /\ DOMAIN <<>> = {} /\ ToSet(<<>>) = {}
  BY DEF ToSet
<1>2. /\ cancelled = FALSE /\ text = <<>> /\ segmenter = "reading" /\ segments = <<>>
      /\ feeder = "starting" /\ task = <<>> /\ synthesizer = "looking" /\ next = 1
      /\ audio = <<>> /\ generator = "getting" /\ spoken = <<>>
  BY DEF ResponseInit
<1>3. StagesTyped
  <2>1. text \in Seq(Texts) /\ segments \in Seq(Marked) /\ task \in Seq(Results)
        /\ audio \in Seq(Marked) /\ spoken \in Seq(Nat)
    BY <1>1, <1>2
  <2>2. /\ cancelled \in BOOLEAN /\ next \in Nat \ {0}
        /\ segmenter \in {"reading", "putting", "closing", "done"}
        /\ feeder \in {"starting", "getting", "done"}
        /\ synthesizer \in {"looking", "putting", "joining", "closing", "done"}
        /\ generator \in {"getting", "playing", "ended", "left"}
    <3>1. FALSE \in BOOLEAN /\ 1 \in Nat \ {0}
      OBVIOUS
    <3>2. QED BY <1>2, <3>1, Zenon
  <2>3. End \notin Nat
    BY SpeechSynthesisAssumption
  <2>4. QED BY ONLY <2>1, <2>2, <2>3, Zenon DEF StagesTyped
<1>4. Fed /\ Ordered /\ Over /\ SpeechIsWhole
  BY <1>1, <1>2 DEF Fed, Put, Ordered, Before, Over, SpeechIsWhole
<1>5. Due
  BY <1>1, <1>2 DEF Due, Given, Finished
<1>6. QED BY <1>3, <1>4, <1>5 DEF StagesInv

LEMMA StagesStep == StagesInv /\ [ResponseNext]_stages => StagesInv'
<1> SUFFICES ASSUME StagesInv, [ResponseNext]_stages PROVE StagesInv'
  OBVIOUS
<1>1. CASE UNCHANGED stages
  <2>1. UNCHANGED <<cancelled, text, segmenter, segments, feeder, task, synthesizer, next,
                    audio, generator, spoken>>
    BY <1>1 DEF stages, cutting, making, ordering, giving
  <2>2. StagesTyped' /\ Fed' /\ Over' /\ SpeechIsWhole'
    BY <2>1 DEF StagesInv, StagesTyped, Fed, Put, Live, Over, SpeechIsWhole, Finished, AllPut
  <2>3. Ordered' /\ Due'
    BY <2>1 DEF StagesInv, Ordered, Due, Live, Before, Finished, AllPut, Given
  <2>4. QED BY <2>2, <2>3 DEF StagesInv
<1>2. CASE ResponseNext
  BY <1>2, SegmentingStep, FeedingStep, OrderingStep, SynthesisStep, TakesStep, GivingStep
     DEF ResponseNext
<1>3. QED BY <1>1, <1>2

\* Every reachable state of the stages satisfies their inductive invariant, however
\* the syntheses of the segments overlap and whenever the token is cancelled.
THEOREM StagesInvariant == ResponseSpec => []StagesInv
  BY StagesInit, StagesStep, PTL DEF ResponseSpec

\* A response is spoken in the order of its text, nothing of it twice, and when its
\* stream ends of itself every segment that got audio was spoken.
THEOREM SpeechStaysWhole == ResponseSpec => []SpeechIsWhole
  BY StagesInvariant, PTL DEF StagesInv
=============================================================================
