------------------------- MODULE TurnPipelineProofs -------------------------
(***************************************************************************)
(* Theorems about TurnPipeline for every number of turns and every size of *)
(* its queues: the variables have their types, the current turn is live,   *)
(* the caller can always interrupt, what a barge-in cancelled is neither   *)
(* played nor queued, and the pipeline implements PlaybackFloor.  All but  *)
(* the types rest on one inductive invariant, Inv.                         *)
(***************************************************************************)
EXTENDS TurnPipeline, PositionsProofs, TLAPS

-----------------------------------------------------------------------------
(* The event queue *)

Events == [kind : EventKinds, gen : Turns]

\* Emitting keeps the queue typed and within its capacity.
LEMMA EmitType ==
    ASSUME NEW q \in Seq(Events), Len(q) <= EventQueueSize,
           NEW kind \in EventKinds, NEW t \in Turns
    PROVE  Emit(q, kind, t) \in Seq(Events) /\ Len(Emit(q, kind, t)) <= EventQueueSize
<1>1. Item(kind, t) \in Events
  BY DEF Item, Events
<1>2. EventQueueSize \in Nat
  BY BoundsAssumption
<1>3. QED BY <1>1, <1>2 DEF Emit

\* What is in the queue after an emission was there before or is the event.
LEMMA EmitContents ==
    ASSUME NEW q \in Seq(Events), NEW kind \in EventKinds, NEW t \in Turns,
           NEW i \in DOMAIN Emit(q, kind, t)
    PROVE  \/ i \in DOMAIN q /\ Emit(q, kind, t)[i] = q[i]
           \/ Emit(q, kind, t)[i] = Item(kind, t)
<1>1. Item(kind, t) \in Events
  BY DEF Item, Events
<1>2. CASE Emit(q, kind, t) = q
  BY <1>2
<1>3. CASE Emit(q, kind, t) = Append(q, Item(kind, t))
  BY <1>1, <1>3
<1>4. QED BY <1>2, <1>3 DEF Emit

\* A flush keeps the queue typed, does not make it longer and leaves nothing
\* but events of cancellations that were there.
LEMMA RetainedType ==
    ASSUME NEW q \in Seq(Events)
    PROVE  /\ Retained(q) \in Seq(Events)
           /\ Len(Retained(q)) <= Len(q)
           /\ \A k \in DOMAIN Retained(q) :
                 /\ Retained(q)[k].kind = "cancelled"
                 /\ \E i \in DOMAIN q : Retained(q)[k] = q[i]
<1>1. Kept(q) \in SUBSET DOMAIN q /\ \A i \in Kept(q) : q[i].kind = "cancelled"
  BY DEF Kept
<1>2. QED BY <1>1, PickedType DEF Retained

-----------------------------------------------------------------------------
(* The type invariant by groups of variables that change together.  A task *)
(* that runs has a turn, which TypeOK does not say and the steps need.       *)

Items == [kind : TextItems, gen : Turns]

CallT == call \in {"active", "expired", "closed"} /\ workers \subseteq {"llm", "tts"}
TurnT == cur \in Turns /\ state \in TurnStates
FlagT == answered \in BOOLEAN /\ handled \in BOOLEAN /\ inSpeech \in BOOLEAN
SetsT == token \subseteq Turns /\ cancelled \subseteq Turns /\ postBarge \subseteq Turns
PlayT == active \in Turns \cup {None} /\ bot \in BOOLEAN /\ tail \in BOOLEAN
SttT  == /\ transcribing \in [Turns -> 0 .. MaxSttTasks]
         /\ routing \in [Turns -> 0 .. MaxSttTasks]
LlmQT == llmQ \in Seq(Turns) /\ Len(llmQ) <= LlmQueueSize
LlmT  == llm \in LlmTasks /\ unwinding \subseteq Turns
         /\ (llm.pc # "none" => llm.gen \in Turns)
TtsQT == ttsQ \in Seq(Items) /\ Len(ttsQ) <= TtsQueueSize
TtsT  == tts \in TtsWork /\ (tts.pc # "idle" => tts.gen \in Turns)
EvT   == evQ \in Seq(Events) /\ Len(evQ) <= EventQueueSize
RestT == /\ greeting \in {"synthesizing", "done"}
         /\ handoff \in HandoffStates /\ requested \in BOOLEAN
         /\ gateway \in {"none", "ack", "answer"}

Typed == /\ CallT /\ TurnT /\ FlagT /\ SetsT /\ PlayT /\ SttT
         /\ LlmQT /\ LlmT /\ TtsQT /\ TtsT /\ EvT /\ RestT

\* The groups together are stronger than the type invariant.
LEMMA TypedIsTyped == Typed => TypeOK
  BY DEF Typed, TypeOK, CallT, TurnT, FlagT, SetsT, PlayT, SttT, LlmQT, LlmT,
     TtsQT, TtsT, EvT, RestT, Items, Events

\* A response put on tts_in_queue whole keeps the queue typed.
LEMMA SayType ==
    ASSUME Typed, NEW kind \in TextItems, NEW t \in Turns, Say(kind, t)
    PROVE  TtsQT'
<1>1. Item(kind, t) \in Items /\ Item("eof", t) \in Items
  BY DEF Item, Items, TextItems
<1>2. QED BY <1>1, BoundsAssumption DEF Typed, TtsQT, Say

\* So does a single item.
LEMMA AppendType ==
    ASSUME Typed, NEW kind \in TextItems, NEW t \in Turns,
           Len(ttsQ) < TtsQueueSize, ttsQ' = Append(ttsQ, Item(kind, t))
    PROVE  TtsQT'
<1>1. Item(kind, t) \in Items
  BY DEF Item, Items
<1>2. QED BY <1>1, BoundsAssumption DEF Typed, TtsQT

\* Cancelling the LLM task keeps its record typed.
LEMMA CancelLlmType ==
    ASSUME Typed, CancelLlm
    PROVE  LlmT'
<1>1. NoTask \in LlmTasks /\ NoTask.pc = "none"
  BY DEF NoTask, LlmTasks
<1>2. llm.pc \notin {"none", "created"} => llm.gen \in Turns
  BY DEF Typed, LlmT
<1>3. QED BY <1>1, <1>2 DEF Typed, LlmT, CancelLlm

\* So does its own end.
LEMMA LlmDoneType ==
    ASSUME Typed, LlmDone, unwinding' = unwinding
    PROVE  LlmT'
<1>1. NoTask \in LlmTasks /\ NoTask.pc = "none"
  BY DEF NoTask, LlmTasks
<1>2. QED BY <1>1 DEF Typed, LlmT, LlmDone

\* Taking the head of a queue.
LEMMA TailType ==
    ASSUME NEW S, NEW q \in Seq(S), Len(q) > 0
    PROVE  Tail(q) \in Seq(S) /\ Len(Tail(q)) = Len(q) - 1 /\ Len(q) \in Nat
  OBVIOUS

\* Taking two items off a queue that has them.
LEMMA TailTwice ==
    ASSUME NEW q \in Seq(Items), Len(q) > 1
    PROVE  Tail(Tail(q)) \in Seq(Items) /\ Len(Tail(Tail(q))) = Len(q) - 2
<1>1. Len(q) \in Nat /\ Len(q) > 0
  OBVIOUS
<1>2. Tail(q) \in Seq(Items) /\ Len(Tail(q)) = Len(q) - 1
  BY <1>1, TailType
<1>3. PICK r \in Seq(Items) : r = Tail(q)
  BY <1>2
<1>4. Len(r) = Len(q) - 1 /\ Len(r) > 0
  BY <1>1, <1>2, <1>3
<1>5. Tail(r) \in Seq(Items) /\ Len(Tail(r)) = Len(r) - 1
  BY <1>4, TailType
<1>6. QED BY <1>1, <1>3, <1>4, <1>5

\* The idle worker is typed.
LEMMA IdleType == Idle \in TtsWork /\ Idle.pc = "idle"
  BY DEF Idle, TtsWork

\* What the TTS worker takes is typed.
LEMMA HeadType ==
    ASSUME Typed, ttsQ # <<>>
    PROVE  /\ Head(ttsQ).gen \in Turns
           /\ Tail(ttsQ) \in Seq(Items) /\ Len(Tail(ttsQ)) < Len(ttsQ)
<1>1. Head(ttsQ) \in Items /\ Tail(ttsQ) \in Seq(Items)
      /\ Len(Tail(ttsQ)) < Len(ttsQ)
  BY DEF Typed, TtsQT
<1>2. QED BY <1>1 DEF Items

-----------------------------------------------------------------------------
(* Every step keeps the groups, coroutine by coroutine *)

\* Caller speech and the expiry of the call preserve the types.
LEMMA CallerTyped ==
    ASSUME Typed, Caller \/ Expire
    PROVE  Typed'
<1>1. ASSUME BargeIn PROVE Typed'
  <2>1. TurnT'
    BY <1>1, BoundsAssumption DEF Typed, TurnT, TurnStates, NewTurn, Turns, BargeIn
  <2>2. FlagT'
    BY <1>1 DEF Typed, FlagT, NewTurn, BargeIn
  <2>3. SetsT'
    <3>. USE <1>1 DEF BargeIn
    <3>1. cur \in Turns /\ cur + 1 \in Turns
      BY BoundsAssumption DEF Typed, TurnT, NewTurn, Turns
    <3>2. Invalidated \subseteq Turns
      BY DEF Invalidated
    <3>3. QED BY <3>1, <3>2 DEF Typed, SetsT
  <2>4. PlayT'
    BY <1>1 DEF Typed, PlayT, BargeIn
  <2>5. LlmT'
    BY <1>1, CancelLlmType DEF BargeIn
  <2>6. LlmQT'
    BY <1>1, BoundsAssumption DEF LlmQT, BargeIn
  <2>7. TtsQT'
    BY <1>1, BoundsAssumption DEF TtsQT, BargeIn
  <2>8. EvT'
    <3>. USE <1>1 DEF BargeIn
    <3>1. Emit(evQ, "cancelled", cur) \in Seq(Events) /\ Len(Emit(evQ, "cancelled", cur)) <= EventQueueSize
      BY EmitType DEF Typed, EvT, TurnT, EventKinds
    <3>2. QED BY <3>1, RetainedType, BoundsAssumption DEF EvT
  <2>9. QED BY <1>1, <2>1, <2>2, <2>3, <2>4, <2>5, <2>6, <2>7, <2>8 DEF Typed,
     CallT, SttT, TtsT, RestT, BargeIn, turnVars, playVars, sttVars, llmVars,
     ttsVars, handoffVars
<1>2. ASSUME SpeechStart PROVE Typed'
  <2>1. TurnT'
    BY <1>2, BoundsAssumption DEF Typed, TurnT, TurnStates, NewTurn, Turns,
       SpeechStart
  <2>2. FlagT'
    BY <1>2 DEF Typed, FlagT, NewTurn, SpeechStart
  <2>3. QED BY <1>2, <2>1, <2>2 DEF Typed, CallT, SetsT, PlayT, SttT, LlmQT, LlmT,
     TtsQT, TtsT, EvT, RestT, SpeechStart, turnVars, playVars, sttVars, llmVars,
     ttsVars, handoffVars
<1>3. ASSUME SpeechEnd PROVE Typed'
  <2>1. TurnT'
    BY <1>3 DEF Typed, TurnT, TurnStates, SpeechEnd
  <2>2. FlagT'
    BY <1>3 DEF Typed, FlagT, SpeechEnd
  <2>3. SttT'
    BY <1>3, BoundsAssumption DEF Typed, SttT, TurnT, SpeechEnd
  <2>4. QED BY <1>3, <2>1, <2>2, <2>3 DEF Typed, CallT, SetsT, PlayT, LlmQT, LlmT,
     TtsQT, TtsT, EvT, RestT, SpeechEnd, turnVars, playVars, sttVars, llmVars,
     ttsVars, handoffVars
<1>4. ASSUME Expire PROVE Typed'
  <2>1. CallT'
    BY <1>4 DEF Typed, CallT, Expire
  <2>2. QED BY <1>4, <2>1 DEF Typed, TurnT, FlagT, SetsT, PlayT, SttT, LlmQT, LlmT,
     TtsQT, TtsT, EvT, RestT, Expire, turnVars, playVars, sttVars, llmVars, ttsVars,
     handoffVars
<1>5. QED BY <1>1, <1>2, <1>3, <1>4 DEF Caller

\* The STT tasks preserve the types.
LEMMA SttTyped ==
    ASSUME Typed, NEW t \in Turns, Stt(t)
    PROVE  Typed'
<1>1. ASSUME SttAbandoned(t) PROVE Typed'
  <2>1. SttT'
    BY <1>1, BoundsAssumption DEF Typed, SttT, SttAbandoned, SttEnds
  <2>2. QED BY <1>1, <2>1 DEF Typed, CallT, TurnT, FlagT, SetsT, PlayT, LlmQT, LlmT,
     TtsQT, TtsT, EvT, RestT, SttAbandoned, SttEnds, turnVars, playVars, sttVars,
     llmVars, ttsVars, handoffVars
<1>2. ASSUME SttIgnored(t) PROVE Typed'
  <2>1. TurnT'
    BY <1>2 DEF Typed, TurnT, TurnStates, SttIgnored, Transcribed, SttEnds
  <2>2. SttT'
    BY <1>2, BoundsAssumption DEF Typed, SttT, SttIgnored, Transcribed, SttEnds
  <2>3. QED BY <1>2, <2>1, <2>2 DEF Typed, CallT, FlagT, SetsT, PlayT, LlmQT, LlmT,
     TtsQT, TtsT, EvT, RestT, SttIgnored, Transcribed, SttEnds, turnVars, playVars,
     sttVars, llmVars, ttsVars, handoffVars
<1>3. ASSUME SttClarify(t) PROVE Typed'
  <2>1. TurnT'
    BY <1>3 DEF Typed, TurnT, TurnStates, SttClarify, Transcribed, SttEnds
  <2>2. FlagT'
    BY <1>3 DEF Typed, FlagT, SttClarify, Transcribed, SttEnds
  <2>3. SttT'
    BY <1>3, BoundsAssumption DEF Typed, SttT, SttClarify, Transcribed, SttEnds
  <2>4. TtsQT'
    BY <1>3, SayType DEF TextItems, Typed, TtsQT, SttClarify, Transcribed, SttEnds
  <2>5. QED BY <1>3, <2>1, <2>2, <2>3, <2>4 DEF Typed, CallT, SetsT, PlayT, LlmQT,
     LlmT, TtsT, EvT, RestT, SttClarify, Transcribed, SttEnds, turnVars, playVars,
     sttVars, llmVars, ttsVars, handoffVars
<1>4. ASSUME SttHeld(t) PROVE Typed'
  <2>1. TurnT'
    BY <1>4 DEF Typed, TurnT, TurnStates, SttHeld, Transcribed, SttEnds
  <2>2. FlagT'
    BY <1>4 DEF Typed, FlagT, SttHeld, Transcribed, SttEnds
  <2>3. SttT'
    BY <1>4, BoundsAssumption DEF Typed, SttT, SttHeld, Transcribed, SttEnds
  <2>4. QED BY <1>4, <2>1, <2>2, <2>3 DEF Typed, CallT, SetsT, PlayT, LlmQT, LlmT,
     TtsQT, TtsT, EvT, RestT, SttHeld, Transcribed, SttEnds, turnVars, playVars,
     sttVars, llmVars, ttsVars, handoffVars
<1>5. ASSUME SttCancelsTransfer(t) PROVE Typed'
  <2>1. TurnT'
    BY <1>5 DEF Typed, TurnT, TurnStates, SttCancelsTransfer, Answer, Transcribed,
       SttEnds
  <2>2. FlagT'
    BY <1>5 DEF Typed, FlagT, SttCancelsTransfer, Answer, Transcribed, SttEnds
  <2>3. SttT'
    BY <1>5, BoundsAssumption DEF Typed, SttT, SttCancelsTransfer, Answer,
       Transcribed, SttEnds
  <2>4. TtsQT'
    BY <1>5, SayType DEF TextItems, SttCancelsTransfer, Answer, Transcribed, SttEnds
  <2>5. RestT'
    BY <1>5 DEF Typed, RestT, HandoffStates, SttCancelsTransfer, Answer,
       Transcribed, SttEnds
  <2>6. QED BY <1>5, <2>1, <2>2, <2>3, <2>4, <2>5 DEF Typed, CallT, SetsT, PlayT,
     LlmQT, LlmT, TtsT, EvT, SttCancelsTransfer, Answer, Transcribed, SttEnds,
     turnVars, playVars, sttVars, llmVars, ttsVars, handoffVars
<1>6. ASSUME SttRequestsHandoff(t) PROVE Typed'
  <2>1. TurnT'
    BY <1>6 DEF Typed, TurnT, TurnStates, SttRequestsHandoff, Answer, Transcribed,
       SttEnds
  <2>2. FlagT'
    BY <1>6 DEF Typed, FlagT, SttRequestsHandoff, Answer, Transcribed, SttEnds
  <2>3. SttT'
    BY <1>6, BoundsAssumption DEF Typed, SttT, SttRequestsHandoff, Answer,
       Transcribed, SttEnds
  <2>4. LlmT'
    BY <1>6, CancelLlmType DEF SttRequestsHandoff, Answer, Transcribed, SttEnds
  <2>5. TtsQT'
    BY <1>6, SayType DEF TextItems, SttRequestsHandoff, Answer, Transcribed, SttEnds
  <2>6. RestT'
    BY <1>6 DEF Typed, RestT, HandoffStates, SttRequestsHandoff, Answer,
       Transcribed, SttEnds
  <2>7. QED BY <1>6, <2>1, <2>2, <2>3, <2>4, <2>5, <2>6 DEF Typed, CallT, SetsT,
     PlayT, LlmQT, TtsT, EvT, SttRequestsHandoff, Answer, Transcribed, SttEnds,
     turnVars, playVars, sttVars, llmVars, ttsVars, handoffVars
<1>7. ASSUME SttDirect(t) PROVE Typed'
  <2>1. TurnT'
    BY <1>7 DEF Typed, TurnT, TurnStates, SttDirect, Answer, Transcribed, SttEnds
  <2>2. FlagT'
    BY <1>7 DEF Typed, FlagT, SttDirect, Answer, Transcribed, SttEnds
  <2>3. SttT'
    BY <1>7, BoundsAssumption DEF Typed, SttT, SttDirect, Answer, Transcribed,
       SttEnds
  <2>4. LlmT'
    BY <1>7, CancelLlmType DEF SttDirect, Answer, Transcribed, SttEnds
  <2>5. TtsQT'
    BY <1>7, SayType DEF TextItems, SttDirect, Answer, Transcribed, SttEnds
  <2>6. QED BY <1>7, <2>1, <2>2, <2>3, <2>4, <2>5 DEF Typed, CallT, SetsT, PlayT,
     LlmQT, TtsT, EvT, RestT, SttDirect, Answer, Transcribed, SttEnds, turnVars,
     playVars, sttVars, llmVars, ttsVars, handoffVars
<1>8. ASSUME SttRoute(t) PROVE Typed'
  <2>1. FlagT'
    BY <1>8 DEF Typed, FlagT, SttRoute, Transcribed, SttEnds
  <2>2. SttT'
    BY <1>8, BoundsAssumption DEF Typed, SttT, SttRoute, Transcribed, SttEnds
  <2>3. QED BY <1>8, <2>1, <2>2 DEF Typed, CallT, TurnT, SetsT, PlayT, LlmQT, LlmT,
     TtsQT, TtsT, EvT, RestT, SttRoute, Transcribed, SttEnds, turnVars, playVars,
     sttVars, llmVars, ttsVars, handoffVars
<1>9. ASSUME SttFast(t) PROVE Typed'
  <2>1. TurnT'
    BY <1>9 DEF Typed, TurnT, TurnStates, SttFast, RouterReturns
  <2>2. FlagT'
    BY <1>9 DEF Typed, FlagT, SttFast, RouterReturns
  <2>3. SttT'
    BY <1>9, BoundsAssumption DEF Typed, SttT, SttFast, RouterReturns
  <2>4. LlmT'
    BY <1>9, CancelLlmType DEF SttFast, RouterReturns
  <2>5. TtsQT'
    BY <1>9, SayType DEF TextItems, SttFast, RouterReturns
  <2>6. QED BY <1>9, <2>1, <2>2, <2>3, <2>4, <2>5 DEF Typed, CallT, SetsT, PlayT,
     LlmQT, TtsT, EvT, RestT, SttFast, RouterReturns, turnVars, playVars, sttVars,
     llmVars, ttsVars, handoffVars
<1>10. ASSUME SttToLlm(t) PROVE Typed'
  <2>1. SttT'
    BY <1>10, BoundsAssumption DEF Typed, SttT, SttToLlm, RouterReturns
  <2>2. LlmQT'
    BY <1>10, BoundsAssumption DEF Typed, LlmQT, SttToLlm, RouterReturns
  <2>3. QED BY <1>10, <2>1, <2>2 DEF Typed, CallT, TurnT, FlagT, SetsT, PlayT, LlmT,
     TtsQT, TtsT, EvT, RestT, SttToLlm, RouterReturns, turnVars, playVars, sttVars,
     llmVars, ttsVars, handoffVars
<1>11. ASSUME SttFails(t) PROVE Typed'
  <2>1. TurnT'
    BY <1>11 DEF Typed, TurnT, TurnStates, SttFails, RouterReturns, SttEnds, Recover
  <2>2. FlagT'
    BY <1>11 DEF Typed, FlagT, SttFails, RouterReturns, SttEnds, Recover
  <2>3. SttT'
    <3>. USE <1>11 DEF SttFails, RouterReturns, SttEnds, Recover
    <3>1. CASE SttEnds(t) /\ UNCHANGED routing
      BY <3>1, BoundsAssumption DEF Typed, SttT
    <3>2. CASE RouterReturns(t)
      BY <3>2, BoundsAssumption DEF Typed, SttT
    <3>3. QED BY <3>1, <3>2
  <2>4. TtsQT'
    BY <1>11, AppendType DEF Typed, TtsQT, TextItems, SttFails, RouterReturns,
       SttEnds, Recover
  <2>5. QED BY <1>11, <2>1, <2>2, <2>3, <2>4 DEF Typed, CallT, SetsT, PlayT, LlmQT,
     LlmT, TtsT, EvT, RestT, SttFails, RouterReturns, SttEnds, Recover, turnVars,
     playVars, sttVars, llmVars, ttsVars, handoffVars
<1>12. QED BY <1>1, <1>2, <1>3, <1>4, <1>5, <1>6, <1>7, <1>8, <1>9, <1>10, <1>11 DEF
   Stt

\* The LLM worker and its task preserve the types.
LEMMA LlmTyped ==
    ASSUME Typed, Llm
    PROVE  Typed'
<1>1. ASSUME LlmTake PROVE Typed'
  <2>1. CallT'
    BY <1>1 DEF Typed, CallT, AfterItem, LlmTake
  <2>2. TurnT'
    BY <1>1 DEF Typed, TurnT, TurnStates, Unprocess, Mark, LlmTake
  <2>3. LlmQT'
    BY <1>1, BoundsAssumption DEF Typed, LlmQT, LlmTake
  <2>4. LlmT'
    <3>. USE <1>1 DEF LlmTake
    <3>1. Head(llmQ) \in Turns
      BY DEF Typed, LlmQT
    <3>2. [pc |-> "created", gen |-> Head(llmQ), turn |-> None] \in LlmTasks
      BY <3>1 DEF LlmTasks
    <3>3. llm.pc \notin {"none", "created"} => llm.gen \in Turns
      BY DEF Typed, LlmT
    <3>4. QED BY <3>1, <3>2, <3>3 DEF Typed, LlmT
  <2>5. QED BY <1>1, <2>1, <2>2, <2>3, <2>4 DEF Typed, FlagT, SetsT, PlayT, SttT,
     TtsQT, TtsT, EvT, RestT, LlmTake, turnVars, playVars, sttVars, llmVars,
     ttsVars, handoffVars
<1>2. ASSUME LlmStart PROVE Typed'
  <2>1. TurnT'
    BY <1>2 DEF Typed, TurnT, TurnStates, LlmStart, LlmFrame
  <2>2. LlmT'
    BY <1>2 DEF Typed, LlmT, LlmTasks, TurnT, LlmStart, LlmFrame
  <2>3. QED BY <1>2, <2>1, <2>2 DEF Typed, CallT, FlagT, SetsT, PlayT, SttT, LlmQT,
     TtsQT, TtsT, EvT, RestT, LlmStart, LlmFrame, turnVars, playVars, sttVars,
     llmVars, ttsVars, handoffVars
<1>3. ASSUME LlmFast PROVE Typed'
  <2>1. FlagT'
    BY <1>3 DEF Typed, FlagT, Answered, LlmFast, LlmFrame
  <2>2. LlmT'
    BY <1>3, LlmDoneType DEF LlmFast, LlmFrame
  <2>3. TtsQT'
    BY <1>3, SayType DEF TextItems, Typed, LlmT, LlmFast, LlmFrame
  <2>4. QED BY <1>3, <2>1, <2>2, <2>3 DEF Typed, CallT, TurnT, SetsT, PlayT, SttT,
     LlmQT, TtsT, EvT, RestT, LlmFast, LlmFrame, turnVars, playVars, sttVars,
     llmVars, ttsVars, handoffVars
<1>4. ASSUME LlmAssembled PROVE Typed'
  <2>1. TurnT'
    BY <1>4 DEF Typed, TurnT, TurnStates, Unprocess, Mark, LlmAssembled, LlmFrame
  <2>2. LlmT'
    <3>. USE <1>4 DEF LlmAssembled, LlmFrame
    <3>1. CASE LlmDone
      BY <3>1, LlmDoneType
    <3>2. CASE llm' = [llm EXCEPT !.pc = "streaming"]
      BY <3>2 DEF Typed, LlmT, LlmTasks
    <3>3. QED BY <3>1, <3>2
  <2>3. QED BY <1>4, <2>1, <2>2 DEF Typed, CallT, FlagT, SetsT, PlayT, SttT, LlmQT,
     TtsQT, TtsT, EvT, RestT, LlmAssembled, LlmFrame, turnVars, playVars, sttVars,
     llmVars, ttsVars, handoffVars
<1>5. ASSUME LlmChunk PROVE Typed'
  <2>1. TtsQT'
    BY <1>5, AppendType DEF Typed, LlmT, TextItems, LlmChunk, LlmFrame
  <2>2. QED BY <1>5, <2>1 DEF Typed, CallT, TurnT, FlagT, SetsT, PlayT, SttT, LlmQT,
     LlmT, TtsT, EvT, RestT, LlmChunk, LlmFrame, turnVars, playVars, sttVars,
     llmVars, ttsVars, handoffVars
<1>6. ASSUME LlmFinish PROVE Typed'
  <2>1. TurnT'
    BY <1>6 DEF Typed, TurnT, TurnStates, Unprocess, Mark, LlmFinish, LlmFrame
  <2>2. FlagT'
    BY <1>6 DEF Typed, FlagT, Answered, LlmFinish, LlmFrame
  <2>3. LlmT'
    BY <1>6, LlmDoneType DEF LlmFinish, LlmFrame
  <2>4. TtsQT'
    BY <1>6, AppendType DEF Typed, LlmT, TtsQT, TextItems, LlmFinish, LlmFrame
  <2>5. QED BY <1>6, <2>1, <2>2, <2>3, <2>4 DEF Typed, CallT, SetsT, PlayT, SttT,
     LlmQT, TtsT, EvT, RestT, LlmFinish, LlmFrame, turnVars, playVars, sttVars,
     llmVars, ttsVars, handoffVars
<1>7. ASSUME LlmFails PROVE Typed'
  <2>1. TurnT'
    BY <1>7 DEF Typed, TurnT, TurnStates, Unprocess, Mark, LlmFails, LlmFrame
  <2>2. LlmT'
    BY <1>7, LlmDoneType DEF LlmFails, LlmFrame
  <2>3. TtsQT'
    BY <1>7, SayType DEF TextItems, Typed, LlmT, TtsQT, LlmFails, LlmFrame
  <2>4. QED BY <1>7, <2>1, <2>2, <2>3 DEF Typed, CallT, FlagT, SetsT, PlayT, SttT,
     LlmQT, TtsT, EvT, RestT, LlmFails, LlmFrame, turnVars, playVars, sttVars,
     llmVars, ttsVars, handoffVars
<1>8. ASSUME LlmCrashes PROVE Typed'
  <2>1. TurnT'
    BY <1>8 DEF Typed, TurnT, TurnStates, Unprocess, Mark, LlmCrashes, LlmFrame
  <2>2. LlmT'
    BY <1>8, LlmDoneType DEF LlmCrashes, LlmFrame
  <2>3. QED BY <1>8, <2>1, <2>2 DEF Typed, CallT, FlagT, SetsT, PlayT, SttT, LlmQT,
     TtsQT, TtsT, EvT, RestT, LlmCrashes, LlmFrame, turnVars, playVars, sttVars,
     llmVars, ttsVars, handoffVars
<1>9. ASSUME NEW t \in Turns, LlmUnwinds(t) PROVE Typed'
  <2>1. TurnT'
    BY <1>9 DEF Typed, TurnT, TurnStates, Unprocess, Mark, LlmUnwinds, LlmFrame
  <2>2. LlmT'
    BY <1>9 DEF Typed, LlmT, LlmUnwinds, LlmFrame
  <2>3. QED BY <1>9, <2>1, <2>2 DEF Typed, CallT, FlagT, SetsT, PlayT, SttT, LlmQT,
     TtsQT, TtsT, EvT, RestT, LlmUnwinds, LlmFrame, turnVars, playVars, sttVars,
     llmVars, ttsVars, handoffVars
<1>10. QED BY <1>1, <1>2, <1>3, <1>4, <1>5, <1>6, <1>7, <1>8, <1>9 DEF Llm

\* The TTS worker preserves the types.
LEMMA TtsTyped ==
    ASSUME Typed, Tts
    PROVE  Typed'
<1>1. ASSUME TtsSkip PROVE Typed'
  <2>1. CallT'
    BY <1>1 DEF Typed, CallT, AfterItem, TtsSkip, TtsReady
  <2>2. TtsQT'
    BY <1>1, HeadType, BoundsAssumption DEF Typed, TtsQT, TtsSkip, TtsReady
  <2>3. QED BY <1>1, <2>1, <2>2 DEF Typed, TurnT, FlagT, SetsT, PlayT, SttT, LlmQT,
     LlmT, TtsT, EvT, RestT, TtsSkip, TtsReady, turnVars, playVars, sttVars,
     llmVars, ttsVars, handoffVars
<1>2. ASSUME TtsDies PROVE Typed'
  <2>1. CallT'
    BY <1>2 DEF Typed, CallT, TtsDies, TtsReady
  <2>2. TtsQT'
    BY <1>2, HeadType, BoundsAssumption DEF Typed, TtsQT, TtsDies, TtsReady
  <2>3. QED BY <1>2, <2>1, <2>2 DEF Typed, TurnT, FlagT, SetsT, PlayT, SttT, LlmQT,
     LlmT, TtsT, EvT, RestT, TtsDies, TtsReady, turnVars, playVars, sttVars,
     llmVars, ttsVars, handoffVars
<1>3. ASSUME ttsQ # <<>>, TtsStream(Head(ttsQ)) PROVE Typed'
  <2>1. TurnT'
    BY <1>3 DEF Typed, TurnT, TurnStates, TtsStream, TtsTakes, TakesFloor, TtsReady
  <2>2. FlagT'
    BY <1>3 DEF Typed, FlagT, TtsStream, TtsTakes, TakesFloor, TtsReady
  <2>3. PlayT'
    BY <1>3, HeadType DEF Typed, PlayT, TtsStream, TtsTakes, TakesFloor, TtsReady
  <2>4. TtsQT'
    BY <1>3, HeadType, BoundsAssumption DEF Typed, TtsQT, TtsStream, TtsTakes,
       TakesFloor, TtsReady
  <2>5. TtsT'
    BY <1>3, HeadType DEF Typed, TtsT, TtsWork, TurnT, TtsStream, TtsTakes,
       TakesFloor, TtsReady
  <2>6. QED BY <1>3, <2>1, <2>2, <2>3, <2>4, <2>5 DEF Typed, CallT, SetsT, SttT,
     LlmQT, LlmT, EvT, RestT, TtsStream, TtsTakes, TakesFloor, TtsReady, turnVars,
     playVars, sttVars, llmVars, ttsVars, handoffVars
<1>4. ASSUME ttsQ # <<>>, TtsCached(Head(ttsQ)) PROVE Typed'
  <2>1. CallT'
    BY <1>4 DEF Typed, CallT, AfterItem, TtsCached, TtsTakes, TakesFloor, TtsReady
  <2>2. TurnT'
    BY <1>4 DEF Typed, TurnT, TurnStates, TtsCached, TtsTakes, TakesFloor, TtsReady
  <2>3. FlagT'
    BY <1>4 DEF Typed, FlagT, TtsCached, TtsTakes, TakesFloor, TtsReady
  <2>4. PlayT'
    BY <1>4, HeadType DEF Typed, PlayT, TtsCached, TtsTakes, TakesFloor, TtsReady
  <2>5. TtsQT'
    <3>. USE <1>4 DEF TtsCached, TtsTakes, TakesFloor, TtsReady
    <3>1. CASE Len(ttsQ) > 1
      BY <3>1, TailTwice, BoundsAssumption DEF Typed, TtsQT
    <3>2. CASE ~(Len(ttsQ) > 1)
      BY <3>2, BoundsAssumption DEF TtsQT
    <3>3. QED BY <3>1, <3>2
  <2>6. TtsT'
    <3>. USE <1>4 DEF TtsCached, TtsTakes, TakesFloor, TtsReady
    <3>1. CASE Len(ttsQ) > 1
      BY <3>1 DEF Typed, TtsT
    <3>2. CASE ~(Len(ttsQ) > 1)
      <4>1. Head(ttsQ).gen \in Turns /\ cur \in Turns
        BY HeadType DEF Typed, TurnT
      <4>2. tts' = [pc |-> "drain", gen |-> Head(ttsQ).gen, turn |-> cur, open |-> FALSE]
        BY <3>2
      <4>3. QED BY <4>1, <4>2 DEF TtsT, TtsWork
    <3>3. QED BY <3>1, <3>2
  <2>7. EvT'
    <3>. USE <1>4 DEF TtsCached, TtsTakes, TakesFloor, TtsReady
    <3>1. LET q == Emit(evQ, "audio", Head(ttsQ).gen)
          IN  q \in Seq(Events) /\ Len(q) <= EventQueueSize
      BY HeadType, EmitType DEF Typed, EvT, EventKinds
    <3>2. LET q == Emit(Emit(evQ, "audio", Head(ttsQ).gen), "end", Head(ttsQ).gen)
          IN  q \in Seq(Events) /\ Len(q) <= EventQueueSize
      BY <3>1, HeadType, EmitType DEF EventKinds
    <3>3. QED BY <3>1, <3>2 DEF EvT
  <2>8. QED BY <1>4, <2>1, <2>2, <2>3, <2>4, <2>5, <2>6, <2>7 DEF Typed, SetsT,
     SttT, LlmQT, LlmT, RestT, TtsCached, TtsTakes, TakesFloor, TtsReady, turnVars,
     playVars, sttVars, llmVars, ttsVars, handoffVars
<1>5. ASSUME TtsDrained PROVE Typed'
  <2>1. CallT'
    BY <1>5 DEF Typed, CallT, AfterItem, TtsDrained
  <2>2. TtsQT'
    BY <1>5, HeadType, BoundsAssumption DEF Typed, TtsQT, TtsDrained
  <2>3. TtsT'
    BY <1>5, IdleType DEF TtsT, TtsDrained
  <2>4. EvT'
    BY <1>5, EmitType DEF Typed, EvT, TtsT, EventKinds, TtsDrained
  <2>5. QED BY <1>5, <2>1, <2>2, <2>3, <2>4 DEF Typed, TurnT, FlagT, SetsT, PlayT,
     SttT, LlmQT, LlmT, RestT, TtsDrained, turnVars, playVars, sttVars, llmVars,
     ttsVars, handoffVars
<1>6. ASSUME TtsPull PROVE Typed'
  <2>1. TtsQT'
    BY <1>6, HeadType, BoundsAssumption DEF Typed, TtsQT, TtsPull
  <2>2. TtsT'
    BY <1>6 DEF Typed, TtsT, TtsWork, TtsPull
  <2>3. QED BY <1>6, <2>1, <2>2 DEF Typed, CallT, TurnT, FlagT, SetsT, PlayT, SttT,
     LlmQT, LlmT, EvT, RestT, TtsPull, turnVars, playVars, sttVars, llmVars,
     ttsVars, handoffVars
<1>7. ASSUME TtsTextTimeout PROVE Typed'
  <2>1. TtsT'
    BY <1>7 DEF Typed, TtsT, TtsWork, TtsTextTimeout
  <2>2. QED BY <1>7, <2>1 DEF Typed, CallT, TurnT, FlagT, SetsT, PlayT, SttT, LlmQT,
     LlmT, TtsQT, EvT, RestT, TtsTextTimeout, turnVars, playVars, sttVars, llmVars,
     ttsVars, handoffVars
<1>8. ASSUME TtsFrame PROVE Typed'
  <2>1. PlayT'
    BY <1>8 DEF Typed, PlayT, TtsFrame
  <2>2. EvT'
    BY <1>8, EmitType DEF Typed, EvT, TtsT, EventKinds, TtsFrame
  <2>3. QED BY <1>8, <2>1, <2>2 DEF Typed, CallT, TurnT, FlagT, SetsT, SttT, LlmQT,
     LlmT, TtsQT, TtsT, RestT, TtsFrame, turnVars, playVars, sttVars, llmVars,
     ttsVars, handoffVars
<1>9. ASSUME TtsFinish PROVE Typed'
  <2>1. CallT'
    BY <1>9 DEF Typed, CallT, AfterItem, TtsFinish
  <2>2. TurnT'
    BY <1>9 DEF Typed, TurnT, TurnStates, Mark, TtsFinish
  <2>3. PlayT'
    BY <1>9 DEF Typed, PlayT, playVars, TtsFinish
  <2>4. TtsT'
    BY <1>9, IdleType DEF TtsT, TtsFinish
  <2>5. EvT'
    BY <1>9, EmitType DEF Typed, EvT, TtsT, EventKinds, TtsFinish
  <2>6. QED BY <1>9, <2>1, <2>2, <2>3, <2>4, <2>5 DEF Typed, FlagT, SetsT, SttT,
     LlmQT, LlmT, TtsQT, RestT, TtsFinish, turnVars, playVars, sttVars, llmVars,
     ttsVars, handoffVars
<1>10. ASSUME TtsFails PROVE Typed'
  <2>1. CallT'
    BY <1>10 DEF Typed, CallT, AfterItem, TtsFails
  <2>2. TurnT'
    BY <1>10 DEF Typed, TurnT, TurnStates, Mark, TtsFails
  <2>3. PlayT'
    BY <1>10 DEF Typed, PlayT, TtsFails
  <2>4. TtsT'
    BY <1>10, IdleType DEF TtsT, TtsFails
  <2>5. QED BY <1>10, <2>1, <2>2, <2>3, <2>4 DEF Typed, FlagT, SetsT, SttT, LlmQT,
     LlmT, TtsQT, EvT, RestT, TtsFails, turnVars, playVars, sttVars, llmVars,
     ttsVars, handoffVars
<1>11. QED BY <1>1, <1>2, <1>3, <1>4, <1>5, <1>6, <1>7, <1>8, <1>9, <1>10 DEF Tts,
   TtsStart

\* The writer, the greeting task, the gateway's commands and the shutdown preserve
\* the types.
LEMMA OtherTyped ==
    ASSUME Typed, Writer \/ PlayoutEnds \/ GreetingDone \/ Gateway \/ Stop
    PROVE  Typed'
<1>1. ASSUME Writer PROVE Typed'
  <2>1. TurnT'
    BY <1>1 DEF Typed, TurnT, TurnStates, Writer
  <2>2. PlayT'
    BY <1>1 DEF Typed, PlayT, Writer
  <2>3. EvT'
    BY <1>1, BoundsAssumption DEF Typed, EvT, Writer
  <2>4. QED BY <1>1, <2>1, <2>2, <2>3 DEF Typed, CallT, FlagT, SetsT, SttT, LlmQT,
     LlmT, TtsQT, TtsT, RestT, Writer, turnVars, playVars, sttVars, llmVars,
     ttsVars, handoffVars
<1>2. ASSUME PlayoutEnds PROVE Typed'
  <2>1. PlayT'
    BY <1>2 DEF Typed, PlayT, PlayoutEnds
  <2>2. QED BY <1>2, <2>1 DEF Typed, CallT, TurnT, FlagT, SetsT, SttT, LlmQT, LlmT,
     TtsQT, TtsT, EvT, RestT, PlayoutEnds, turnVars, playVars, sttVars, llmVars,
     ttsVars, handoffVars
<1>3. ASSUME GreetingDone PROVE Typed'
  <2>1. TurnT'
    BY <1>3, BoundsAssumption DEF Typed, TurnT, TurnStates, NewTurn, Turns,
       GreetingDone
  <2>2. FlagT'
    BY <1>3 DEF Typed, FlagT, NewTurn, GreetingDone
  <2>3. PlayT'
    BY <1>3 DEF Typed, PlayT, GreetingDone
  <2>4. EvT'
    <3>. USE <1>3 DEF GreetingDone
    <3>1. 1 \in Turns
      BY BoundsAssumption DEF Turns
    <3>2. LET q == Emit(evQ, "audio", 1)
          IN  q \in Seq(Events) /\ Len(q) <= EventQueueSize
      BY <3>1, EmitType DEF Typed, EvT, EventKinds
    <3>3. LET q == Emit(Emit(evQ, "audio", 1), "end", 1)
          IN  q \in Seq(Events) /\ Len(q) <= EventQueueSize
      BY <3>1, <3>2, EmitType DEF EventKinds
    <3>4. QED BY <3>3 DEF Typed, EvT
  <2>5. RestT'
    BY <1>3 DEF Typed, RestT, HandoffStates, handoffVars, GreetingDone
  <2>6. QED BY <1>3, <2>1, <2>2, <2>3, <2>4, <2>5 DEF Typed, CallT, SetsT, SttT,
     LlmQT, LlmT, TtsQT, TtsT, GreetingDone, turnVars, playVars, sttVars, llmVars,
     ttsVars, handoffVars
<1>4. ASSUME HandoffAcknowledged PROVE Typed'
  <2>1. LlmT'
    BY <1>4, CancelLlmType DEF HandoffAcknowledged
  <2>2. RestT'
    BY <1>4 DEF Typed, RestT, HandoffStates, HandoffAcknowledged
  <2>3. QED BY <1>4, <2>1, <2>2 DEF Typed, CallT, TurnT, FlagT, SetsT, PlayT, SttT,
     LlmQT, TtsQT, TtsT, EvT, HandoffAcknowledged, turnVars, playVars, sttVars,
     llmVars, ttsVars, handoffVars
<1>5. ASSUME HandoffFallback PROVE Typed'
  <2>1. TurnT'
    BY <1>5, BoundsAssumption DEF Typed, TurnT, TurnStates, NewTurn, Turns,
       HandoffFallback
  <2>2. FlagT'
    BY <1>5 DEF Typed, FlagT, NewTurn, HandoffFallback
  <2>3. TtsQT'
    <3>. USE <1>5 DEF HandoffFallback
    <3>1. cur + 1 \in Turns
      BY BoundsAssumption DEF Typed, TurnT, NewTurn, Turns
    <3>2. QED BY <3>1, SayType DEF TextItems
  <2>4. RestT'
    BY <1>5 DEF Typed, RestT, HandoffStates, HandoffFallback
  <2>5. QED BY <1>5, <2>1, <2>2, <2>3, <2>4 DEF Typed, CallT, SetsT, PlayT, SttT,
     LlmQT, LlmT, TtsT, EvT, HandoffFallback, turnVars, playVars, sttVars, llmVars,
     ttsVars, handoffVars
<1>6. ASSUME Stop PROVE Typed'
  <2>1. CallT'
    BY <1>6 DEF Typed, CallT, Stop
  <2>2. TurnT'
    BY <1>6 DEF Typed, TurnT, TurnStates, Stop
  <2>3. SetsT'
    BY <1>6 DEF Typed, SetsT, TurnT, Invalidated, Stop
  <2>4. PlayT'
    BY <1>6 DEF Typed, PlayT, Stop
  <2>5. LlmT'
    BY <1>6, CancelLlmType DEF Stop
  <2>6. LlmQT'
    BY <1>6, BoundsAssumption DEF LlmQT, Stop
  <2>7. TtsQT'
    BY <1>6, BoundsAssumption DEF TtsQT, Stop
  <2>8. TtsT'
    BY <1>6, IdleType DEF TtsT, Stop
  <2>9. EvT'
    BY <1>6, RetainedType, BoundsAssumption DEF Typed, EvT, Stop
  <2>10. QED BY <1>6, <2>1, <2>2, <2>3, <2>4, <2>5, <2>6, <2>7, <2>8, <2>9 DEF
     Typed, FlagT, SttT, RestT, Stop, turnVars, playVars, sttVars, llmVars, ttsVars,
     handoffVars
<1>7. QED BY <1>1, <1>2, <1>3, <1>4, <1>5, <1>6 DEF Gateway
\* The state a call starts in is typed.
LEMMA TypedInit == Init => Typed
<1> SUFFICES ASSUME Init PROVE Typed
  OBVIOUS
<1>1. 1 \in Turns /\ 2 \in Turns
  BY BoundsAssumption DEF Turns
<1>2. EvT
  <2>1. <<>> \in Seq(Events) /\ Len(<<>>) <= EventQueueSize
    BY BoundsAssumption
  <2>2. LET q == Emit(<<>>, "audio", 1)
        IN  q \in Seq(Events) /\ Len(q) <= EventQueueSize
    BY <1>1, <2>1, EmitType DEF EventKinds
  <2>3. Greeted \in Seq(Events) /\ Len(Greeted) <= EventQueueSize
    BY <1>1, <2>2, EmitType DEF EventKinds, Greeted
  <2>4. QED BY <2>1, <2>3 DEF Init, EvT
<1>3. CallT /\ TurnT /\ FlagT /\ SetsT
  BY <1>1 DEF Init, CallT, TurnT, FlagT, SetsT, TurnStates
<1>4. PlayT /\ RestT
  BY DEF Init, PlayT, RestT, HandoffStates
<1>5. SttT
  BY BoundsAssumption DEF Init, SttT
<1>6. LlmQT /\ LlmT
  BY BoundsAssumption DEF Init, LlmQT, LlmT, NoTask, LlmTasks
<1>7. TtsQT /\ TtsT
  BY BoundsAssumption DEF Init, TtsQT, TtsT, Idle, TtsWork
<1>8. QED BY <1>2, <1>3, <1>4, <1>5, <1>6, <1>7 DEF Typed

\* Every step of the call preserves the types.
LEMMA TypedStep == Typed /\ [Next]_vars => Typed'
<1>1. ASSUME Typed, Next PROVE Typed'
  BY <1>1, CallerTyped, SttTyped, LlmTyped, TtsTyped, OtherTyped DEF Next
<1>2. ASSUME Typed, UNCHANGED vars PROVE Typed'
  BY <1>2 DEF Typed, CallT, TurnT, FlagT, SetsT, PlayT, SttT, LlmQT, LlmT,
     TtsQT, TtsT, EvT, RestT, vars, turnVars, playVars, sttVars, llmVars,
     ttsVars, handoffVars
<1>3. QED BY <1>1, <1>2

\* In every state of every call the variables have their types, whatever the
\* number of turns and the sizes of the queues.
THEOREM TypeCorrect == Spec => []TypeOK
<1>1. QED BY TypedInit, TypedStep, TypedIsTyped, PTL DEF Spec

-----------------------------------------------------------------------------
(* What the call has heard of: no queue, task or set names a turn later than *)
(* the current one, so the turn opened next is a fresh one.                  *)

SetsKnown == cancelled \subseteq 1 .. cur /\ token \subseteq 1 .. cur /\ active <= cur
SttKnown  == \A t \in Turns : transcribing[t] > 0 \/ routing[t] > 0 => t <= cur
LlmKnown  == (\A i \in DOMAIN llmQ : llmQ[i] <= cur) /\ llm.gen <= cur
TtsKnown  == \A i \in DOMAIN ttsQ : ttsQ[i].gen <= cur
Known     == SetsKnown /\ SttKnown /\ LlmKnown /\ TtsKnown

\* The steps that leave the turn, the playback, the tokens and the event queue
\* alone.
Quiet == \/ SpeechEnd \/ Expire \/ HandoffAcknowledged
         \/ \E t \in Turns : Stt(t)
         \/ Llm
         \/ TtsSkip \/ TtsDies \/ TtsPull \/ TtsTextTimeout

\* Every step is one of those or one of the twelve that are looked at one by one.
LEMMA StepCases ==
    ASSUME Next
    PROVE  \/ Quiet \/ BargeIn \/ SpeechStart \/ TtsStart \/ TtsDrained
           \/ TtsFrame \/ TtsFinish \/ TtsFails \/ Writer \/ PlayoutEnds
           \/ GreetingDone \/ HandoffFallback \/ Stop
  BY DEF Next, Caller, Tts, Gateway, Quiet

\* An STT task writes neither the playback nor the event queue, and only a
\* barge-in makes a turn one that listens after a barge-in.
LEMMA SttFrame ==
    ASSUME NEW t \in Turns, Stt(t)
    PROVE  /\ UNCHANGED <<call, cur, token, cancelled, handled, inSpeech,
                          active, bot, tail, evQ, tts>>
           /\ state' = "LISTENING_AFTER_BARGE_IN" => state' = state
<1>1. CASE SttEnds(t)
  <2>1. UNCHANGED <<call, cur, token, cancelled, handled, inSpeech,
                    active, bot, tail, evQ, tts>>
    BY <1>1 DEF SttEnds, playVars
  <2>2. state' = "LISTENING_AFTER_BARGE_IN" => state' = state
    BY DEF Stt, SttAbandoned, SttIgnored, SttClarify, SttHeld,
           SttCancelsTransfer, SttRequestsHandoff, SttDirect, SttRoute, SttFast,
           SttToLlm, SttFails, Answer, Recover
  <2>3. QED BY <2>1, <2>2
<1>2. CASE RouterReturns(t)
  <2>1. UNCHANGED <<call, cur, token, cancelled, handled, inSpeech,
                    active, bot, tail, evQ, tts>>
    BY <1>2 DEF RouterReturns, playVars
  <2>2. state' = "LISTENING_AFTER_BARGE_IN" => state' = state
    BY DEF Stt, SttAbandoned, SttIgnored, SttClarify, SttHeld,
           SttCancelsTransfer, SttRequestsHandoff, SttDirect, SttRoute, SttFast,
           SttToLlm, SttFails, Answer, Recover
  <2>3. QED BY <2>1, <2>2
<1>3. SttEnds(t) \/ RouterReturns(t)
  BY DEF Stt, SttAbandoned, SttIgnored, SttClarify, SttHeld,
         SttCancelsTransfer, SttRequestsHandoff, SttDirect, SttRoute, SttFast,
         SttToLlm, SttFails, Answer, Transcribed
<1>4. QED BY <1>1, <1>2, <1>3

\* Neither does the LLM stage.
LEMMA LlmFrameKept ==
    ASSUME Llm
    PROVE  /\ UNCHANGED <<call, cur, token, cancelled, handled, inSpeech,
                          active, bot, tail, evQ, tts>>
           /\ state' = "LISTENING_AFTER_BARGE_IN" => state' = state
<1>1. UNCHANGED <<call, cur, token, cancelled, handled, inSpeech,
                  active, bot, tail, evQ, tts>>
  BY DEF Llm, LlmTake, LlmStart, LlmFast, LlmAssembled, LlmChunk, LlmFinish,
         LlmFails, LlmCrashes, LlmUnwinds, LlmFrame, playVars, ttsVars
<1>2. state' = "LISTENING_AFTER_BARGE_IN" => state' = state
  BY DEF Llm, LlmTake, LlmStart, LlmFast, LlmAssembled, LlmChunk, LlmFinish,
         LlmFails, LlmCrashes, LlmUnwinds, Unprocess, Mark
<1>3. QED BY <1>1, <1>2

\* What all the quiet steps have in common.
LEMMA QuietFrame ==
    ASSUME Quiet
    PROVE  /\ UNCHANGED <<cur, token, cancelled, handled, active, bot, tail, evQ>>
           /\ (call' = "closed") = (call = "closed")
           /\ call' = "active" => call = "active"
           /\ state' = "LISTENING_AFTER_BARGE_IN" =>
                  state' = state /\ inSpeech' = inSpeech
<1>1. CASE SpeechEnd \/ Expire \/ HandoffAcknowledged
  BY <1>1 DEF SpeechEnd, Expire, HandoffAcknowledged, turnVars, playVars
<1>2. CASE \E t \in Turns : Stt(t)
  BY <1>2, SttFrame
<1>3. CASE Llm
  BY <1>3, LlmFrameKept
<1>4. CASE TtsSkip \/ TtsDies \/ TtsPull \/ TtsTextTimeout
  BY <1>4 DEF TtsSkip, TtsDies, TtsPull, TtsTextTimeout, turnVars, playVars
<1>5. QED BY <1>1, <1>2, <1>3, <1>4 DEF Quiet

\* The current turn is the newest one there has been.
LEMMA CurGrows ==
    ASSUME Typed, Next
    PROVE  cur \in Int /\ cur' \in Int /\ cur <= cur' /\ cur >= 1
<1>1. cur \in Int /\ cur >= 1
  BY BoundsAssumption DEF Typed, TurnT, Turns
<1>2. cur' = cur \/ cur' = cur + 1
  BY StepCases, QuietFrame DEF BargeIn, SpeechStart, TtsStart, TtsStream,
     TtsCached, TtsTakes, TtsDrained, TtsFrame, TtsFinish, TtsFails, Writer,
     PlayoutEnds, GreetingDone, HandoffFallback, Stop, NewTurn, turnVars
<1>3. QED BY <1>1, <1>2

\* What waits in a queue names a turn.
LEMMA QueuedTurns ==
    ASSUME Typed
    PROVE  /\ ttsQ \in Seq(Items) /\ \A i \in DOMAIN ttsQ : ttsQ[i].gen \in Int
           /\ llmQ \in Seq(Turns) /\ \A i \in DOMAIN llmQ : llmQ[i] \in Int
           /\ llm.gen \in Int
<1>1. Turns \subseteq Int /\ None \in Int
  BY DEF Turns, None
<1>2. ttsQ \in Seq(Items) /\ llmQ \in Seq(Turns) /\ llm.gen \in Turns \cup {None}
  BY DEF Typed, TtsQT, LlmQT, LlmT, LlmTasks
<1>3. \A x \in Items : x.gen \in Turns
  BY DEF Items
<1>4. \A i \in DOMAIN ttsQ : ttsQ[i] \in Items
  BY <1>2
<1>5. \A i \in DOMAIN llmQ : llmQ[i] \in Turns
  BY <1>2
<1>6. QED BY <1>1, <1>2, <1>3, <1>4, <1>5

\* A response put on the queue whole keeps the queue known.
LEMMA SayKnown ==
    ASSUME Typed, TtsKnown, NEW kind \in TextItems, NEW t \in Turns,
           Say(kind, t), cur' \in Int, cur <= cur', t <= cur'
    PROVE  TtsKnown'
<1>1. ttsQ \in Seq(Items) /\ \A i \in DOMAIN ttsQ : ttsQ[i].gen \in Int
  BY QueuedTurns
<1>2. Item(kind, t).gen = t /\ Item("eof", t).gen = t
  BY DEF Item
<1>3. cur \in Int
  BY DEF Typed, TurnT, Turns
<1>4. Item(kind, t) \in Items /\ Item("eof", t) \in Items
  BY DEF Item, Items, TextItems
<1>5. ASSUME NEW i \in DOMAIN ttsQ'
      PROVE  \/ i \in DOMAIN ttsQ /\ ttsQ'[i] = ttsQ[i]
             \/ ttsQ'[i] \in {Item(kind, t), Item("eof", t)}
  BY <1>1, <1>4 DEF Say
<1>6. QED BY <1>1, <1>2, <1>3, <1>5 DEF TtsKnown

\* So does a single item.
LEMMA AppendKnown ==
    ASSUME Typed, TtsKnown, NEW kind \in TextItems, NEW t \in Turns,
           ttsQ' = Append(ttsQ, Item(kind, t)), cur' = cur, t <= cur
    PROVE  TtsKnown'
<1>1. ttsQ \in Seq(Items) /\ Item(kind, t).gen = t /\ Item(kind, t) \in Items
  BY DEF Typed, TtsQT, Item, Items
<1>2. ASSUME NEW i \in DOMAIN ttsQ'
      PROVE  \/ i \in DOMAIN ttsQ /\ ttsQ'[i] = ttsQ[i]
             \/ ttsQ'[i] = Item(kind, t)
  BY <1>1
<1>3. QED BY <1>1, <1>2 DEF TtsKnown

\* Taking items away keeps the queue known.
LEMMA FewerKnown ==
    ASSUME Typed, TtsKnown, cur' \in Int, cur <= cur',
           \A i \in DOMAIN ttsQ' : \E j \in DOMAIN ttsQ : ttsQ'[i] = ttsQ[j]
    PROVE  TtsKnown'
<1>1. \A j \in DOMAIN ttsQ : ttsQ[j].gen \in Int
  BY QueuedTurns
<1>2. cur \in Int
  BY DEF Typed, TurnT, Turns
<1>3. QED BY <1>1, <1>2 DEF TtsKnown

\* In particular taking the first one.
LEMMA TailKnown ==
    ASSUME Typed, TtsKnown, ttsQ # <<>>, ttsQ' = Tail(ttsQ), cur' = cur
    PROVE  TtsKnown'
<1>1. \A i \in DOMAIN ttsQ' : i + 1 \in DOMAIN ttsQ /\ ttsQ'[i] = ttsQ[i + 1]
  BY DEF Typed, TtsQT
<1>2. cur' \in Int /\ cur <= cur'
  BY DEF Typed, TurnT, Turns
<1>3. QED BY <1>1, <1>2, FewerKnown

\* Every generation that waits for the TTS worker, whoever put it there, is one
\* of a turn that has been opened.
LEMMA TtsKnownStep ==
    ASSUME Typed, Known, Next
    PROVE  TtsKnown'
<1>1. TtsKnown /\ cur \in Int /\ cur' \in Int /\ cur <= cur'
  BY CurGrows DEF Known
<1>2. CASE UNCHANGED ttsQ
  BY <1>1, <1>2, FewerKnown
<1>3. CASE ttsQ' = <<>>
  BY <1>3 DEF TtsKnown
<1>4. ASSUME NEW t \in Turns, Stt(t), ~UNCHANGED ttsQ PROVE TtsKnown'
  <2>1. cur' = cur /\ t <= cur
    <3>1. transcribing[t] > 0 \/ routing[t] > 0
      BY <1>4 DEF Stt, SttAbandoned, SttIgnored, SttClarify, SttHeld,
         SttCancelsTransfer, SttRequestsHandoff, SttDirect, SttRoute, SttFast,
         SttToLlm, SttFails, Answer, Transcribed, SttEnds, RouterReturns
    <3>2. QED BY <1>4, <3>1, SttFrame DEF Known, SttKnown
  <2>2. \/ Say("text", t) \/ Say("clarification", t)
        \/ ttsQ' = Append(ttsQ, Item("malformed", t))
    BY <1>4 DEF Stt, SttAbandoned, SttIgnored, SttClarify, SttHeld,
       SttCancelsTransfer, SttRequestsHandoff, SttDirect, SttRoute, SttFast,
       SttToLlm, SttFails, Answer, Recover
  <2>3. QED BY <1>1, <2>1, <2>2, SayKnown, AppendKnown DEF TextItems
<1>5. ASSUME Llm, ~UNCHANGED ttsQ PROVE TtsKnown'
  <2>1. llm.gen \in Turns /\ llm.gen <= cur
    BY <1>5 DEF Typed, LlmT, Known, LlmKnown, Llm, LlmTake, LlmStart, LlmFast,
       LlmAssembled, LlmChunk, LlmFinish, LlmFails, LlmCrashes, LlmUnwinds,
       ttsVars
  <2>2. \/ Say("text", llm.gen)
        \/ \E kind \in TextItems : ttsQ' = Append(ttsQ, Item(kind, llm.gen))
    BY <1>5 DEF TextItems, Llm, LlmTake, LlmStart, LlmFast, LlmAssembled,
       LlmChunk, LlmFinish, LlmFails, LlmCrashes, LlmUnwinds, ttsVars
  <2>3. cur' = cur
    BY <1>5, LlmFrameKept
  <2>4. QED BY <1>1, <2>1, <2>2, <2>3, SayKnown, AppendKnown DEF TextItems
<1>6. CASE ttsQ # <<>> /\ ttsQ' = Tail(ttsQ) /\ cur' = cur
  BY <1>1, <1>6, TailKnown
<1>7. ASSUME ttsQ # <<>>, TtsCached(Head(ttsQ)) PROVE TtsKnown'
  <2>1. CASE Len(ttsQ) > 1
    <3>1. Len(ttsQ) \in Nat /\ Tail(ttsQ) \in Seq(Items) /\ Len(Tail(ttsQ)) = Len(ttsQ) - 1
          /\ \A i \in DOMAIN Tail(ttsQ) :
                i + 1 \in DOMAIN ttsQ /\ Tail(ttsQ)[i] = ttsQ[i + 1]
      BY <1>7 DEF Typed, TtsQT
    <3>2. PICK q \in Seq(Items) : q = Tail(ttsQ)
      BY <3>1
    <3>3. Len(q) > 0
      BY <2>1, <3>1, <3>2
    <3>4. \A i \in DOMAIN Tail(q) : i + 1 \in DOMAIN q /\ Tail(q)[i] = q[i + 1]
      BY <3>3
    <3>5. ttsQ' = Tail(q)
      BY <1>7, <2>1, <3>2 DEF TtsCached
    <3>6. \A i \in DOMAIN ttsQ' : \E j \in DOMAIN ttsQ : ttsQ'[i] = ttsQ[j]
      BY <3>1, <3>2, <3>4, <3>5
    <3>7. QED BY <1>1, <3>6, FewerKnown
  <2>2. CASE ~(Len(ttsQ) > 1)
    BY <1>3, <1>7, <2>2 DEF TtsCached
  <2>3. QED BY <2>1, <2>2
<1>8. CASE HandoffFallback
  <2>1. cur' = cur + 1 /\ cur + 1 \in Turns /\ Say("text", cur + 1)
    BY <1>8, BoundsAssumption DEF HandoffFallback, NewTurn, Typed, TurnT, Turns
  <2>2. PICK t \in Turns : t = cur + 1
    BY <2>1
  <2>3. QED BY <1>1, <2>1, <2>2, SayKnown DEF TextItems
<1>9. CASE Tts
  BY <1>2, <1>3, <1>6, <1>7, <1>9 DEF Tts, TtsSkip, TtsDies, TtsReady, TtsStart,
     TtsStream, TtsTakes, TtsDrained, TtsPull, TtsTextTimeout, TtsFrame,
     TtsFinish, TtsFails, turnVars, ttsVars
<1>10. CASE \/ BargeIn \/ SpeechStart \/ SpeechEnd \/ Expire \/ Writer
            \/ PlayoutEnds \/ GreetingDone \/ HandoffAcknowledged \/ Stop
  BY <1>2, <1>3, <1>10 DEF BargeIn, SpeechStart, SpeechEnd, Expire, Writer,
     PlayoutEnds, GreetingDone, HandoffAcknowledged, Stop, ttsVars
<1>11. QED BY <1>2, <1>4, <1>5, <1>8, <1>9, <1>10 DEF Next, Caller, Gateway

\* Every generation the LLM stage works for is one of a turn that has been opened.
LEMMA LlmKnownStep ==
    ASSUME Typed, Known, Next
    PROVE  LlmKnown'
<1>1. /\ LlmKnown /\ cur \in Int /\ cur' \in Int /\ cur <= cur' /\ cur >= 1
      /\ llm.gen \in Int /\ llmQ \in Seq(Turns)
      /\ \A i \in DOMAIN llmQ : llmQ[i] \in Int
  BY CurGrows, QueuedTurns DEF Known
<1>2. CASE llmQ' \in {llmQ, <<>>} /\ llm'.gen \in {llm.gen, None}
  BY <1>1, <1>2 DEF LlmKnown, None
<1>3. CASE llmQ' \in {llmQ, <<>>} /\ llm' \in {llm, NoTask}
  BY <1>2, <1>3 DEF NoTask
<1>4. ASSUME NEW t \in Turns, SttToLlm(t) PROVE LlmKnown'
  <2>1. t <= cur /\ cur' = cur
    BY <1>4 DEF SttToLlm, RouterReturns, Known, SttKnown
  <2>2. \A i \in DOMAIN llmQ' : (i \in DOMAIN llmQ /\ llmQ'[i] = llmQ[i]) \/ llmQ'[i] = t
    BY <1>1, <1>4 DEF SttToLlm
  <2>3. QED BY <1>1, <1>4, <2>1, <2>2 DEF SttToLlm, LlmKnown
<1>5. CASE LlmTake
  <2>1. Head(llmQ) = llmQ[1] /\ 1 \in DOMAIN llmQ
        /\ \A i \in DOMAIN Tail(llmQ) :
              i + 1 \in DOMAIN llmQ /\ Tail(llmQ)[i] = llmQ[i + 1]
    BY <1>1, <1>5 DEF LlmTake
  <2>2. llmQ' = Tail(llmQ) /\ cur' = cur /\ llm'.gen \in {llm.gen, Head(llmQ)}
    BY <1>5 DEF LlmTake
  <2>3. QED BY <1>1, <2>1, <2>2 DEF LlmKnown
<1>6. CASE Llm /\ ~LlmTake
  <2>1. llmQ' = llmQ
    BY <1>6 DEF Llm, LlmStart, LlmFast, LlmAssembled, LlmChunk, LlmFinish,
       LlmFails, LlmCrashes, LlmUnwinds, LlmFrame
  <2>2. \/ llm' \in {llm, NoTask}
        \/ llm' = [llm EXCEPT !.pc = "streaming"]
        \/ llm' = [llm EXCEPT !.pc = "thinking", !.turn = cur]
    BY <1>6 DEF Llm, LlmStart, LlmFast, LlmAssembled, LlmChunk, LlmFinish,
       LlmFails, LlmCrashes, LlmUnwinds, LlmDone
  <2>3. llm \in LlmTasks
    BY DEF Typed, LlmT
  <2>4. llm'.gen \in {llm.gen, None}
    <3>1. ASSUME llm' \in {llm, NoTask} PROVE llm'.gen \in {llm.gen, None}
      BY <3>1 DEF NoTask
    <3>2. ASSUME llm' = [llm EXCEPT !.pc = "streaming"]
          PROVE  llm'.gen \in {llm.gen, None}
      BY <2>3, <3>2 DEF LlmTasks
    <3>3. ASSUME llm' = [llm EXCEPT !.pc = "thinking", !.turn = cur]
          PROVE  llm'.gen \in {llm.gen, None}
      BY <2>3, <3>3 DEF LlmTasks
    <3>4. QED BY <2>2, <3>1, <3>2, <3>3
  <2>5. QED BY <1>2, <2>1, <2>4
<1>7. ASSUME NEW t \in Turns, Stt(t), ~SttToLlm(t) PROVE LlmKnown'
  BY <1>3, <1>7 DEF Stt, SttAbandoned, SttIgnored, SttClarify, SttHeld,
     SttCancelsTransfer, SttRequestsHandoff, SttDirect, SttRoute, SttFast,
     SttFails, CancelLlm, llmVars
<1>8. CASE Tts
  BY <1>3, <1>8 DEF Tts, TtsSkip, TtsDies, TtsStart, TtsStream, TtsCached,
     TtsTakes, TtsDrained, TtsPull, TtsTextTimeout, TtsFrame, TtsFinish,
     TtsFails, llmVars
<1>9. CASE \/ Caller \/ Expire \/ Writer \/ PlayoutEnds \/ GreetingDone
           \/ Gateway \/ Stop
  BY <1>3, <1>9 DEF Caller, Gateway, BargeIn, SpeechStart, SpeechEnd, Expire,
     Writer, PlayoutEnds, GreetingDone, HandoffAcknowledged, HandoffFallback,
     Stop, CancelLlm, llmVars
<1>10. QED BY <1>4, <1>5, <1>6, <1>7, <1>8, <1>9 DEF Next

\* The only turn a transcription starts for is the current one.
LEMMA SttKnownStep ==
    ASSUME Typed, Known, Next
    PROVE  SttKnown'
<1>1. /\ cur \in Int /\ cur' \in Int /\ cur <= cur' /\ Turns \subseteq Int
      /\ \A u \in Turns : transcribing[u] > 0 \/ routing[u] > 0 => u <= cur
      /\ \A u \in Turns : transcribing[u] \in Nat /\ routing[u] \in Nat
      /\ transcribing \in [Turns -> Nat] /\ routing \in [Turns -> Nat]
      /\ cur \in Turns
  BY CurGrows, BoundsAssumption DEF Known, SttKnown, Typed, SttT, TurnT, Turns
<1>2. CASE UNCHANGED sttVars
  BY <1>1, <1>2 DEF SttKnown, sttVars
<1>3. CASE SpeechEnd
  BY <1>1, <1>3 DEF SpeechEnd, SttKnown
<1>4. ASSUME NEW t \in Turns, Stt(t) PROVE SttKnown'
  <2>1. t <= cur /\ cur' = cur
    BY <1>1, <1>4, SttFrame DEF Stt, SttAbandoned, SttIgnored, SttClarify, SttHeld,
       SttCancelsTransfer, SttRequestsHandoff, SttDirect, SttRoute, SttFast,
       SttToLlm, SttFails, Answer, Transcribed, SttEnds, RouterReturns
  <2>2. \/ transcribing' = [transcribing EXCEPT ![t] = @ - 1]
        \/ UNCHANGED transcribing
    BY <1>4 DEF Stt, SttAbandoned, SttIgnored, SttClarify, SttHeld,
       SttCancelsTransfer, SttRequestsHandoff, SttDirect, SttRoute, SttFast,
       SttToLlm, SttFails, Answer, Transcribed, SttEnds, RouterReturns
  <2>3. \/ routing' = [routing EXCEPT ![t] = @ - 1]
        \/ routing' = [routing EXCEPT ![t] = @ + 1]
        \/ UNCHANGED routing
    BY <1>4 DEF Stt, SttAbandoned, SttIgnored, SttClarify, SttHeld,
       SttCancelsTransfer, SttRequestsHandoff, SttDirect, SttRoute, SttFast,
       SttToLlm, SttFails, Answer, Transcribed, SttEnds, RouterReturns
  <2>4. ASSUME NEW u \in Turns, transcribing'[u] > 0 \/ routing'[u] > 0, u # t
        PROVE  u <= cur
    BY <1>1, <2>2, <2>3, <2>4
  <2>5. QED BY <2>1, <2>4 DEF SttKnown
<1>5. CASE Llm
  BY <1>2, <1>5 DEF Llm, LlmTake, LlmStart, LlmFast, LlmAssembled, LlmChunk,
     LlmFinish, LlmFails, LlmCrashes, LlmUnwinds, LlmFrame
<1>6. CASE Tts
  BY <1>2, <1>6 DEF Tts, TtsSkip, TtsDies, TtsStart, TtsStream, TtsCached,
     TtsTakes, TtsDrained, TtsPull, TtsTextTimeout, TtsFrame, TtsFinish, TtsFails
<1>7. CASE \/ BargeIn \/ SpeechStart \/ Expire \/ Writer \/ PlayoutEnds
           \/ GreetingDone \/ Gateway \/ Stop
  BY <1>2, <1>7 DEF BargeIn, SpeechStart, Expire, Writer, PlayoutEnds,
     GreetingDone, Gateway, HandoffAcknowledged, HandoffFallback, Stop
<1>8. QED BY <1>3, <1>4, <1>5, <1>6, <1>7 DEF Next, Caller

\* What an interruption or the end of the call cancels.
LEMMA InvalidatedKnown ==
    ASSUME Typed, SetsKnown
    PROVE  /\ Invalidated \subseteq 1 .. cur
           /\ 2 .. cur \subseteq Invalidated
           /\ cur \in Invalidated
<1>1. cur \in 1 .. MaxTurns /\ active <= cur /\ active \in Turns \cup {None}
      /\ MaxTurns \in Nat
  BY BoundsAssumption DEF Typed, TurnT, PlayT, SetsKnown, Turns
<1>2. QED BY <1>1 DEF Invalidated, Turns, None

\* A barge-in, a greeting and the like only ever cancel turns that exist.
LEMMA SetsKnownStep ==
    ASSUME Typed, Known, Next
    PROVE  SetsKnown'
<1>1. /\ SetsKnown /\ cur \in Int /\ cur' \in Int /\ cur <= cur' /\ cur >= 1
      /\ active \in Int
  BY CurGrows DEF Known, Typed, PlayT, Turns, None
<1>2. CASE UNCHANGED <<token, cancelled>> /\ active' \in {active, None}
  BY <1>1, <1>2 DEF SetsKnown, None
<1>3. CASE BargeIn \/ Stop
  <2>1. /\ cancelled' = cancelled \cup Invalidated /\ token' = token \cup {cur}
        /\ active' = None
    BY <1>3 DEF BargeIn, Stop
  <2>2. Invalidated \subseteq 1 .. cur
    BY <1>1, InvalidatedKnown
  <2>3. cancelled' \subseteq 1 .. cur /\ token' \subseteq 1 .. cur
    BY <1>1, <2>1, <2>2 DEF SetsKnown
  <2>4. QED BY <1>1, <2>1, <2>3 DEF SetsKnown, None
<1>4. ASSUME ttsQ # <<>>, TtsTakes(Head(ttsQ)) PROVE SetsKnown'
  <2>1. active' = ttsQ[1].gen /\ UNCHANGED <<cur, token, cancelled>>
        /\ 1 \in DOMAIN ttsQ
    BY <1>4 DEF TtsTakes, TakesFloor, Typed, TtsQT
  <2>2. QED BY <1>1, <2>1 DEF Known, TtsKnown, SetsKnown
<1>5. CASE TtsDrained \/ TtsFrame \/ TtsFinish \/ TtsFails
  BY <1>2, <1>5 DEF TtsDrained, TtsFrame, TtsFinish, TtsFails, turnVars, playVars
<1>6. CASE \/ SpeechStart \/ Writer \/ PlayoutEnds \/ GreetingDone
           \/ HandoffFallback
  BY <1>2, <1>6 DEF SpeechStart, Writer, PlayoutEnds, GreetingDone,
     HandoffFallback, playVars, turnVars
<1>7. CASE Quiet
  BY <1>2, <1>7, QuietFrame
<1>8. QED BY <1>3, <1>4, <1>5, <1>6, <1>7, StepCases
          DEF TtsStart, TtsStream, TtsCached

\* Nobody works for a turn that has not been opened.
LEMMA KnownStep ==
    ASSUME Typed, Known, Next
    PROVE  Known'
  BY SetsKnownStep, SttKnownStep, LlmKnownStep, TtsKnownStep DEF Known

-----------------------------------------------------------------------------
(* The safety properties *)

\* Until the session closes the turn that hears the caller is not cancelled: an
\* interruption cancels turns that exist and then opens one that did not.
LEMMA CurrentTurnIsLiveStep ==
    ASSUME Typed, Known, CurrentTurnIsLive, Next
    PROVE  CurrentTurnIsLive'
<1>1. /\ cur \in Int /\ token \subseteq 1 .. cur /\ cancelled \subseteq 1 .. cur
      /\ Invalidated \subseteq 1 .. cur
  BY CurGrows, InvalidatedKnown DEF Known, SetsKnown
<1>2. cur + 1 \notin token \cup cancelled \cup Invalidated \cup {cur}
  BY <1>1
<1>3. CASE BargeIn
  BY <1>2, <1>3 DEF BargeIn, NewTurn, CurrentTurnIsLive
<1>4. CASE SpeechStart \/ GreetingDone \/ HandoffFallback
  BY <1>2, <1>4 DEF SpeechStart, GreetingDone, HandoffFallback, NewTurn,
     CurrentTurnIsLive
<1>5. CASE Quiet
  BY <1>5, QuietFrame DEF CurrentTurnIsLive
<1>6. CASE TtsStart \/ TtsDrained \/ TtsFrame \/ TtsFinish \/ TtsFails
  BY <1>6 DEF TtsStart, TtsStream, TtsCached, TtsTakes, TtsDrained, TtsFrame,
     TtsFinish, TtsFails, turnVars, CurrentTurnIsLive
<1>7. CASE Writer \/ PlayoutEnds \/ Stop
  BY <1>7 DEF Writer, PlayoutEnds, Stop, turnVars, CurrentTurnIsLive
<1>8. QED BY <1>3, <1>4, <1>5, <1>6, <1>7, StepCases

\* The caller can interrupt whatever plays: what sets handled silences the
\* playback, and what starts a playback clears it.
LEMMA NeverDeafStep ==
    ASSUME Typed, NeverDeaf, Next
    PROVE  NeverDeaf'
<1>1. CASE BargeIn
  BY <1>1 DEF BargeIn, NeverDeaf, Playing
<1>2. CASE SpeechStart
  BY <1>2 DEF SpeechStart, NeverDeaf, Playing, playVars
<1>3. CASE TtsStart
  BY <1>3 DEF TtsStart, TtsStream, TtsCached, TtsTakes, TakesFloor, NeverDeaf
<1>4. CASE TtsFrame
  <2>1. active # None
    BY <1>4 DEF TtsFrame, Typed, TtsT, Turns, None
  <2>2. QED BY <1>4, <2>1 DEF TtsFrame, NeverDeaf, Playing, turnVars
<1>5. CASE TtsDrained \/ PlayoutEnds
  BY <1>5 DEF TtsDrained, PlayoutEnds, NeverDeaf, Playing, turnVars, playVars
<1>6. CASE TtsFinish \/ TtsFails
  BY <1>6 DEF TtsFinish, TtsFails, NeverDeaf, Playing, playVars
<1>7. CASE Writer
  BY <1>7 DEF Writer, NeverDeaf, Playing
<1>8. CASE GreetingDone
  BY <1>8 DEF GreetingDone, NewTurn, NeverDeaf
<1>9. CASE HandoffFallback
  BY <1>9 DEF HandoffFallback, NewTurn, NeverDeaf
<1>10. CASE Stop
  BY <1>10 DEF Stop, NeverDeaf
<1>11. CASE Quiet
  BY <1>11, QuietFrame DEF NeverDeaf, Playing
<1>12. QED BY <1>1, <1>2, <1>3, <1>4, <1>5, <1>6, <1>7, <1>8, <1>9, <1>10, <1>11,
              StepCases

\* Playback never belongs to a cancelled generation: the TTS worker looks before
\* it gives the floor, and every cancellation takes the floor away.
LEMMA PlaybackIsLiveStep ==
    ASSUME Typed, PlaybackIsLive, Next
    PROVE  PlaybackIsLive'
<1>1. None \notin cancelled /\ None \notin Invalidated
  BY DEF Typed, SetsT, Turns, None, Invalidated
<1>2. CASE BargeIn \/ Stop
  BY <1>1, <1>2 DEF BargeIn, Stop, PlaybackIsLive
<1>3. CASE TtsStart
  BY <1>3 DEF TtsStart, TtsStream, TtsCached, TtsTakes, TakesFloor, Refused,
     PlaybackIsLive
<1>4. CASE TtsDrained \/ TtsFrame \/ TtsFinish \/ TtsFails
  BY <1>1, <1>4 DEF TtsDrained, TtsFrame, TtsFinish, TtsFails, PlaybackIsLive,
     turnVars, playVars
<1>5. CASE SpeechStart \/ PlayoutEnds \/ GreetingDone \/ HandoffFallback \/ Writer
  <2>1. UNCHANGED cancelled /\ active' \in {active, None}
    BY <1>5 DEF SpeechStart, PlayoutEnds, GreetingDone, HandoffFallback, Writer,
       turnVars, playVars
  <2>2. QED BY <1>1, <2>1 DEF PlaybackIsLive
<1>6. CASE Quiet
  BY <1>6, QuietFrame DEF PlaybackIsLive
<1>7. QED BY <1>2, <1>3, <1>4, <1>5, <1>6, StepCases

\* An event queue is clean, for a set c of cancelled generations, when no audio
\* of c is in it, every interruption announced in it has cancelled the turns up
\* to its own and what follows one belongs to a later turn or is the greeting.
Clean(q, c) ==
    /\ \A i \in DOMAIN q : q[i].kind = "audio" => q[i].gen \notin c
    /\ \A i \in DOMAIN q : q[i].kind = "cancelled" => 2 .. q[i].gen \subseteq c
    /\ \A i, j \in DOMAIN q :
          i < j /\ q[i].kind = "cancelled" /\ q[j].kind = "audio"
              => q[j].gen > q[i].gen \/ q[j].gen = 1

\* Audio of a generation that is not cancelled, and the end of any generation,
\* may be emitted to a clean queue.
LEMMA EmitClean ==
    ASSUME NEW q \in Seq(Events), NEW c, Clean(q, c), NEW t \in Turns,
           NEW kind \in {"audio", "end"}, kind = "audio" => t \notin c
    PROVE  Clean(Emit(q, kind, t), c)
<1> DEFINE e == Item(kind, t)
<1>1. e \in Events /\ e.kind = kind /\ e.gen = t
  BY DEF Item, Events, EventKinds
<1>2. CASE Emit(q, kind, t) = q
  BY <1>2
<1>3. CASE Emit(q, kind, t) = Append(q, e)
  <2>1. /\ Len(q) \in Nat /\ DOMAIN Append(q, e) = 1 .. Len(q) + 1
        /\ DOMAIN q = 1 .. Len(q)
        /\ Append(q, e)[Len(q) + 1] = e
        /\ \A i \in 1 .. Len(q) : Append(q, e)[i] = q[i]
    BY <1>1
  <2>2. PICK r : r = Append(q, e)
    OBVIOUS
  <2>. HIDE DEF e
  <2>3. /\ DOMAIN r = 1 .. Len(q) + 1 /\ r[Len(q) + 1] = e
        /\ \A i \in 1 .. Len(q) : r[i] = q[i]
    BY <2>1, <2>2
  <2>4. \A i \in DOMAIN r : i \in DOMAIN q \/ i = Len(q) + 1
    BY <2>1, <2>3
  <2>5. \A i \in DOMAIN r : r[i].kind = "audio" => r[i].gen \notin c
    BY <1>1, <2>1, <2>3, <2>4 DEF Clean
  <2>6. \A i \in DOMAIN r : r[i].kind = "cancelled" =>
            i \in DOMAIN q /\ r[i] = q[i] /\ 2 .. r[i].gen \subseteq c
    BY <1>1, <2>1, <2>3, <2>4 DEF Clean
  <2>7. ASSUME NEW i \in DOMAIN r, NEW j \in DOMAIN r, i < j,
               r[i].kind = "cancelled", r[j].kind = "audio"
        PROVE  r[j].gen > r[i].gen \/ r[j].gen = 1
    <3>1. CASE j \in DOMAIN q
      BY <2>1, <2>3, <2>6, <2>7, <3>1 DEF Clean
    <3>2. CASE j = Len(q) + 1
      <4>1. i \in DOMAIN q /\ r[i] = q[i] /\ 2 .. r[i].gen \subseteq c
        BY <2>6, <2>7
      <4>2. q[i] \in Events
        BY <4>1
      <4>3. r[i].gen \in Nat
        BY <4>1, <4>2 DEF Events, Turns
      <4>4. r[j].gen = t /\ t \notin c
        BY <1>1, <2>3, <2>7, <3>2
      <4>5. t \in Nat /\ t >= 1
        BY BoundsAssumption DEF Turns
      <4>6. QED BY <4>1, <4>3, <4>4, <4>5
    <3>3. QED BY <2>4, <3>1, <3>2
  <2>8. Clean(r, c)
    BY <2>5, <2>6, <2>7 DEF Clean
  <2>9. QED BY <1>3, <2>2, <2>8
<1>4. QED BY <1>2, <1>3 DEF Emit

\* Sending the first event leaves a clean queue clean.
LEMMA TailClean ==
    ASSUME NEW q \in Seq(Events), NEW c, Clean(q, c), q # <<>>
    PROVE  Clean(Tail(q), c)
<1>1. PICK r : r = Tail(q)
  OBVIOUS
<1>2. /\ Len(q) \in Nat /\ DOMAIN q = 1 .. Len(q)
      /\ \A i \in DOMAIN r : i \in Int /\ i + 1 \in DOMAIN q /\ r[i] = q[i + 1]
  BY <1>1
<1>3. QED BY <1>1, <1>2 DEF Clean

\* A flush leaves no audio, so what is cancelled with it does not matter.
LEMMA FlushClean ==
    ASSUME NEW q \in Seq(Events), NEW c,
           \A i \in DOMAIN q : q[i].kind = "cancelled" => 2 .. q[i].gen \subseteq c
    PROVE  Clean(Retained(q), c)
<1>1. PICK r : r = Retained(q)
  OBVIOUS
<1>2. \A k \in DOMAIN r : r[k].kind = "cancelled" /\ \E i \in DOMAIN q : r[k] = q[i]
  BY <1>1, RetainedType
<1>3. QED BY <1>1, <1>2 DEF Clean

\* The event queue stays clean: producers look at the cancelled generations in
\* the step in which they emit, and what cancels one flushes the queue in the
\* same step.
LEMMA CleanStep ==
    ASSUME Typed, Known, Clean(evQ, cancelled), Next
    PROVE  Clean(evQ, cancelled)'
<1>1. /\ evQ \in Seq(Events) /\ cur \in Turns
      /\ cancelled \subseteq Turns /\ 2 .. cur \subseteq Invalidated
  BY InvalidatedKnown DEF Known, Typed, EvT, TurnT, SetsT
<1>2. CASE BargeIn
  <2> DEFINE q == Emit(evQ, "cancelled", cur)
  <2>1. q \in Seq(Events)
    BY <1>1, EmitType DEF Typed, EvT, EventKinds
  <2>2. ASSUME NEW i \in DOMAIN q, q[i].kind = "cancelled"
        PROVE  2 .. q[i].gen \subseteq cancelled \cup Invalidated
    <3>1. \/ i \in DOMAIN evQ /\ q[i] = evQ[i]
          \/ q[i] = Item("cancelled", cur)
      BY <1>1, EmitContents DEF EventKinds
    <3>2. CASE i \in DOMAIN evQ /\ q[i] = evQ[i]
      BY <2>2, <3>2 DEF Clean
    <3>3. CASE q[i] = Item("cancelled", cur)
      BY <1>1, <3>3 DEF Item
    <3>4. QED BY <3>1, <3>2, <3>3
  <2>3. evQ' = Retained(q) /\ cancelled' = cancelled \cup Invalidated
    BY <1>2 DEF BargeIn
  <2>. HIDE DEF q
  <2>4. Clean(Retained(q), cancelled \cup Invalidated)
    BY <2>1, <2>2, FlushClean
  <2>5. QED BY <2>3, <2>4
<1>3. CASE Stop
  <2>1. evQ' = Retained(evQ) /\ cancelled' = cancelled \cup Invalidated
    BY <1>3 DEF Stop
  <2>2. \A i \in DOMAIN evQ : evQ[i].kind = "cancelled" =>
            2 .. evQ[i].gen \subseteq cancelled \cup Invalidated
    BY DEF Clean
  <2>3. Clean(Retained(evQ), cancelled \cup Invalidated)
    BY <1>1, <2>2, FlushClean
  <2>4. QED BY <2>1, <2>3
<1>4. CASE UNCHANGED <<evQ, cancelled>>
  BY <1>4
<1>5. CASE Quiet \/ SpeechStart \/ PlayoutEnds \/ HandoffFallback \/ TtsFails
  BY <1>4, <1>5, QuietFrame DEF SpeechStart, PlayoutEnds, HandoffFallback, TtsFails,
     turnVars
<1>6. ASSUME cancelled' = cancelled, NEW t \in Turns, NEW kind \in {"audio", "end"},
             kind = "audio" => t \notin cancelled, evQ' = Emit(evQ, kind, t)
      PROVE  Clean(evQ, cancelled)'
  BY <1>1, <1>6, EmitClean
<1>7. ASSUME cancelled' = cancelled, NEW t \in Turns, t \notin cancelled,
             evQ' = Emit(Emit(evQ, "audio", t), "end", t)
      PROVE  Clean(evQ, cancelled)'
  <2>1. PICK q : q = Emit(evQ, "audio", t)
    OBVIOUS
  <2>2. q \in Seq(Events) /\ Clean(q, cancelled)
    BY <1>1, <1>7, <2>1, EmitType, EmitClean DEF Typed, EvT, EventKinds
  <2>3. Clean(Emit(q, "end", t), cancelled)
    BY <2>2, EmitClean
  <2>4. QED BY <1>7, <2>1, <2>3
<1>8. ASSUME ttsQ # <<>>, TtsStream(Head(ttsQ)) \/ TtsCached(Head(ttsQ))
      PROVE  Clean(evQ, cancelled)'
  <2>1. /\ cancelled' = cancelled /\ Head(ttsQ).gen \notin cancelled
        /\ \/ evQ' = evQ
           \/ evQ' = Emit(evQ, "audio", Head(ttsQ).gen)
           \/ evQ' = Emit(Emit(evQ, "audio", Head(ttsQ).gen), "end", Head(ttsQ).gen)
    BY <1>8 DEF TtsStream, TtsCached, TtsTakes, Refused
  <2>2. PICK t \in Turns : t = Head(ttsQ).gen
    BY <1>8, HeadType
  <2>3. QED BY <1>4, <1>6, <1>7, <2>1, <2>2
<1>9. CASE TtsDrained \/ TtsFrame \/ TtsFinish
  <2>1. PICK t \in Turns : t = tts.gen
    BY <1>9 DEF TtsDrained, TtsFrame, TtsFinish, Typed, TtsT
  <2>2. /\ cancelled' = cancelled
        /\ \/ evQ' = evQ
           \/ evQ' = Emit(evQ, "end", t)
           \/ t \notin cancelled /\ evQ' = Emit(evQ, "audio", t)
    BY <1>9, <2>1 DEF TtsDrained, TtsFrame, TtsFinish, Stale, turnVars
  <2>3. QED BY <1>4, <1>6, <2>2
<1>10. CASE Writer
  <2>1. evQ # <<>> /\ evQ' = Tail(evQ) /\ cancelled' = cancelled
    BY <1>10 DEF Writer
  <2>2. Clean(Tail(evQ), cancelled)
    BY <1>1, <2>1, TailClean
  <2>3. QED BY <2>1, <2>2
<1>11. CASE GreetingDone
  <2>1. /\ cancelled' = cancelled
        /\ \/ evQ' = evQ
           \/ 1 \notin cancelled /\ evQ' = Emit(Emit(evQ, "audio", 1), "end", 1)
    BY <1>11 DEF GreetingDone, Stale
  <2>2. PICK t \in Turns : t = 1
    BY BoundsAssumption DEF Turns
  <2>3. QED BY <1>4, <1>7, <2>1, <2>2
<1>12. QED BY <1>2, <1>3, <1>5, <1>8, <1>9, <1>10, <1>11, StepCases DEF TtsStart

\* Nobody plays or queues audio for a caller who has just interrupted.
NoAudio(q) == \A i \in DOMAIN q : q[i].kind # "audio"

\* An event other than audio leaves the queue without audio.
LEMMA EmitNoAudio ==
    ASSUME NEW q \in Seq(Events), NoAudio(q), NEW t \in Turns,
           NEW kind \in {"end", "cancelled"}
    PROVE  NoAudio(Emit(q, kind, t))
<1>1. Item(kind, t).kind # "audio"
  BY DEF Item
<1>2. QED BY <1>1, EmitContents DEF NoAudio, EventKinds

\* A caller who has just interrupted hears nothing until the turn changes its
\* state: the barge-in silences everything and the TTS worker refuses all items.
LEMMA SilentAfterBargeInStep ==
    ASSUME Typed, SilentAfterBargeIn, Next
    PROVE  SilentAfterBargeIn'
<1> DEFINE LAB == "LISTENING_AFTER_BARGE_IN"
           Silent == ~Playing /\ inSpeech /\ NoAudio(evQ)
<1>1. /\ evQ \in Seq(Events) /\ cur \in Turns
      /\ state = LAB => Silent
  BY DEF Typed, EvT, TurnT, SilentAfterBargeIn, NoAudio
<1>2. SUFFICES ASSUME state' = LAB PROVE Silent'
  BY DEF SilentAfterBargeIn, NoAudio
<1>3. CASE BargeIn
  <2>1. Emit(evQ, "cancelled", cur) \in Seq(Events)
    BY <1>1, EmitType DEF Typed, EvT, EventKinds
  <2>2. NoAudio(Retained(Emit(evQ, "cancelled", cur)))
    BY <2>1, RetainedType DEF NoAudio
  <2>3. NoAudio(evQ)'
    BY <1>3, <2>2 DEF BargeIn, NoAudio
  <2>4. QED BY <1>3, <2>3 DEF BargeIn, Playing
<1>4. CASE Quiet
  BY <1>1, <1>2, <1>4, QuietFrame DEF Playing, NoAudio
<1>5. CASE SpeechStart \/ GreetingDone \/ HandoffFallback \/ Stop \/ TtsStart
  BY <1>2, <1>5 DEF SpeechStart, GreetingDone, HandoffFallback, Stop, NewTurn,
     TtsStart, TtsStream, TtsCached, TtsTakes, TakesFloor, Refused
<1>6. CASE PlayoutEnds
  BY <1>1, <1>2, <1>6 DEF PlayoutEnds, Playing, NoAudio, turnVars
<1>7. CASE TtsDrained
  <2>1. state = LAB /\ evQ' = Emit(evQ, "end", tts.gen) /\ tts.gen \in Turns
    BY <1>2, <1>7 DEF TtsDrained, turnVars, Typed, TtsT
  <2>2. NoAudio(Emit(evQ, "end", tts.gen))
    BY <1>1, <2>1, EmitNoAudio
  <2>3. QED BY <1>1, <1>7, <2>1, <2>2 DEF TtsDrained, playVars, Playing
<1>8. CASE TtsFrame
  <2>1. active # None
    BY <1>8 DEF TtsFrame, Typed, TtsT, Turns, None
  <2>2. QED BY <1>1, <1>2, <1>8, <2>1 DEF TtsFrame, turnVars, Playing
<1>9. CASE TtsFinish
  <2>1. state = LAB /\ tts.gen \in Turns /\ inSpeech' = inSpeech
    BY <1>2, <1>9 DEF TtsFinish, Mark, Typed, TtsT
  <2>2. NoAudio(Emit(evQ, "end", tts.gen))
    BY <1>1, <2>1, EmitNoAudio
  <2>3. NoAudio(evQ)'
    BY <1>1, <1>9, <2>1, <2>2 DEF TtsFinish
  <2>4. ~Playing'
    BY <1>1, <1>9, <2>1 DEF TtsFinish, Playing, playVars
  <2>5. QED BY <1>1, <2>1, <2>3, <2>4
<1>10. CASE TtsFails
  BY <1>1, <1>2, <1>10 DEF TtsFails, Mark, Playing, NoAudio
<1>11. CASE Writer
  <2>1. state = LAB /\ inSpeech' = inSpeech /\ evQ # <<>> /\ evQ' = Tail(evQ)
    BY <1>2, <1>11 DEF Writer
  <2>2. ~Playing'
    BY <1>1, <1>11, <2>1 DEF Writer, Playing
  <2>3. \A i \in DOMAIN Tail(evQ) : i + 1 \in DOMAIN evQ /\ Tail(evQ)[i] = evQ[i + 1]
    BY <1>1, <2>1
  <2>4. NoAudio(evQ)'
    BY <1>1, <2>1, <2>3 DEF NoAudio
  <2>5. QED BY <1>1, <2>1, <2>2, <2>4
<1>12. QED BY <1>3, <1>4, <1>5, <1>6, <1>7, <1>8, <1>9, <1>10, <1>11, StepCases

-----------------------------------------------------------------------------
(* The inductive invariant and the theorems *)

Inv == /\ Typed /\ Known
       /\ CurrentTurnIsLive /\ NeverDeaf /\ PlaybackIsLive /\ SilentAfterBargeIn
       /\ Clean(evQ, cancelled)

\* The call starts within the invariant.
LEMMA InvInit == Init => Inv
<1> SUFFICES ASSUME Init PROVE Inv
  OBVIOUS
<1>1. Typed
  BY TypedInit
<1>2. Known
  BY BoundsAssumption DEF Init, Known, SetsKnown, SttKnown, LlmKnown, TtsKnown,
     NoTask, None, Turns
<1>3. CurrentTurnIsLive /\ NeverDeaf /\ PlaybackIsLive /\ SilentAfterBargeIn
  BY DEF Init, CurrentTurnIsLive, NeverDeaf, PlaybackIsLive, SilentAfterBargeIn
<1>4. Clean(evQ, cancelled)
  <2>1. 1 \in Turns /\ cancelled = {}
    BY BoundsAssumption DEF Init, Turns
  <2>2. <<>> \in Seq(Events) /\ Clean(<<>>, {}) /\ Len(<<>>) <= EventQueueSize
    BY BoundsAssumption DEF Clean
  <2>3. PICK q : q = Emit(<<>>, "audio", 1)
    OBVIOUS
  <2>4. q \in Seq(Events) /\ Clean(q, {})
    BY <2>1, <2>2, <2>3, EmitType, EmitClean DEF EventKinds
  <2>5. Clean(Emit(q, "end", 1), {})
    BY <2>1, <2>4, EmitClean
  <2>6. QED BY <2>1, <2>2, <2>3, <2>5 DEF Init, Greeted
<1>5. QED BY <1>1, <1>2, <1>3, <1>4 DEF Inv

\* Every step of the call keeps the invariant.
LEMMA InvStep == Inv /\ [Next]_vars => Inv'
<1>1. ASSUME Inv, Next PROVE Inv'
  <2>1. Typed'
    BY <1>1, TypedStep DEF Inv
  <2>2. Known'
    BY <1>1, KnownStep DEF Inv
  <2>3. CurrentTurnIsLive'
    BY <1>1, CurrentTurnIsLiveStep DEF Inv
  <2>4. NeverDeaf'
    BY <1>1, NeverDeafStep DEF Inv
  <2>5. PlaybackIsLive'
    BY <1>1, PlaybackIsLiveStep DEF Inv
  <2>6. SilentAfterBargeIn'
    BY <1>1, SilentAfterBargeInStep DEF Inv
  <2>7. Clean(evQ, cancelled)'
    BY <1>1, CleanStep DEF Inv
  <2>8. QED BY <2>1, <2>2, <2>3, <2>4, <2>5, <2>6, <2>7 DEF Inv
<1>2. ASSUME Inv, UNCHANGED vars PROVE Inv'
  <2>1. Typed'
    BY <1>2, TypedStep DEF Inv
  <2>2. Known'
    BY <1>2 DEF Inv, Known, SetsKnown, SttKnown, LlmKnown, TtsKnown, vars, turnVars,
       playVars, sttVars, llmVars, ttsVars
  <2>3. (CurrentTurnIsLive /\ NeverDeaf /\ PlaybackIsLive /\ SilentAfterBargeIn)'
    BY <1>2 DEF Inv, CurrentTurnIsLive, NeverDeaf, PlaybackIsLive,
       SilentAfterBargeIn, Playing, vars, turnVars, playVars
  <2>4. Clean(evQ, cancelled)'
    BY <1>2 DEF Inv, vars, turnVars
  <2>5. QED BY <2>1, <2>2, <2>3, <2>4 DEF Inv
<1>3. QED BY <1>1, <1>2

\* The invariant holds throughout every call.
THEOREM Invariance == Spec => []Inv
  BY InvInit, InvStep, PTL DEF Spec

\* Until the session closes, the turn that hears the caller is never a cancelled
\* one (SessionState.start_new_turn, invalidate_active_generation).
THEOREM CurrentTurnLives == Spec => []CurrentTurnIsLive
<1>1. Inv => CurrentTurnIsLive
  BY DEF Inv
<1>2. QED BY <1>1, Invariance, PTL

\* Whatever plays, the caller can interrupt it (TurnManager.handle_speech_frame).
THEOREM CallerIsHeard == Spec => []NeverDeaf
<1>1. Inv => NeverDeaf
  BY DEF Inv
<1>2. QED BY <1>1, Invariance, PTL

\* A cancelled generation never owns the playback (_tts_worker).
THEOREM PlaybackLives == Spec => []PlaybackIsLive
<1>1. Inv => PlaybackIsLive
  BY DEF Inv
<1>2. QED BY <1>1, Invariance, PTL

\* After an interruption there is silence (trigger_barge_in, _tts_worker).
THEOREM InterruptionSilences == Spec => []SilentAfterBargeIn
<1>1. Inv => SilentAfterBargeIn
  BY DEF Inv
<1>2. QED BY <1>1, Invariance, PTL

\* Cancelled audio is not waiting to be sent (flush_output_queues, _tts_worker).
THEOREM CancelledAudioIsGone == Spec => []NoCancelledAudio
<1>1. Inv => NoCancelledAudio
  BY DEF Inv, Clean, NoCancelledAudio
<1>2. QED BY <1>1, Invariance, PTL

\* What follows an interruption in the event queue belongs to a later turn or is
\* the greeting (flush_output_queues, event_writer_loop).
THEOREM FlushesAreFinal == Spec => []FlushIsFinal
<1>1. Inv => FlushIsFinal
  BY DEF Inv, Clean, FlushIsFinal
<1>2. QED BY <1>1, Invariance, PTL

-----------------------------------------------------------------------------
(* The pipeline implements PlaybackFloor: turns, playback owner and cancelled *)
(* generations are its responses, floor and silenced responses.               *)

\* A step keeps the promise: it opens a turn, gives or takes the floor, silences
\* what there is, or does nothing the listener could tell.
LEMMA FloorStep ==
    ASSUME Inv, Next
    PROVE  [Floor!Next]_Floor!vars
<1>1. /\ cur \in Int /\ cur >= 1 /\ cancelled \subseteq 1 .. cur
      /\ Invalidated \subseteq 1 .. cur /\ 2 .. cur \subseteq Invalidated
  BY CurGrows, InvalidatedKnown DEF Inv, Known, SetsKnown
<1> USE DEF Floor!vars, Floor!Nobody
<1>2. CASE UNCHANGED <<cur, active, cancelled>> /\ (call' = "closed") = (call = "closed")
  BY <1>2
<1>3. CASE /\ active' = None /\ UNCHANGED <<cur, cancelled>>
           /\ (call' = "closed") = (call = "closed")
  <2>1. Floor!Release
    BY <1>3 DEF Floor!Release, None
  <2>2. QED BY <2>1 DEF Floor!Next
<1>4. CASE /\ call # "closed" /\ call' = call
           /\ cur' = cur + 1 /\ active' \in {active, None} /\ UNCHANGED cancelled
  <2>1. Floor!Open
    BY <1>4 DEF Floor!Open, None
  <2>2. QED BY <2>1 DEF Floor!Next
<1>5. CASE BargeIn
  <2>1. /\ call = "active" /\ call' = call /\ cur' = cur + 1 /\ active' = None
        /\ cancelled' = cancelled \cup Invalidated
    BY <1>5 DEF BargeIn, NewTurn
  <2>2. cancelled \cup 2 .. cur \subseteq cancelled' /\ cancelled' \subseteq 1 .. cur
    BY <1>1, <2>1
  <2>3. Floor!Interrupt
    BY <2>1, <2>2 DEF Floor!Interrupt, Floor!Silence, None
  <2>4. QED BY <2>3 DEF Floor!Next
<1>6. CASE Stop
  <2>1. /\ call # "closed" /\ call' = "closed" /\ cur' = cur /\ active' = None
        /\ cancelled' = cancelled \cup Invalidated
    BY <1>6 DEF Stop
  <2>2. cancelled \cup 2 .. cur \subseteq cancelled' /\ cancelled' \subseteq 1 .. cur
    BY <1>1, <2>1
  <2>3. Floor!Close
    BY <2>1, <2>2 DEF Floor!Close, Floor!Silence, None
  <2>4. QED BY <2>3 DEF Floor!Next
<1>7. CASE TtsStart
  <2>1. ttsQ # <<>> /\ TtsTakes(Head(ttsQ))
    BY <1>7 DEF TtsStart, TtsStream, TtsCached
  <2>2. /\ call = "active" /\ call' = call /\ UNCHANGED <<cur, cancelled>>
        /\ active' = Head(ttsQ).gen /\ Head(ttsQ).gen \notin cancelled
    BY <2>1 DEF TtsTakes, TakesFloor, Refused
  <2>3. Head(ttsQ).gen \in 1 .. cur
    <3>1. 1 \in DOMAIN ttsQ /\ Head(ttsQ) = ttsQ[1] /\ ttsQ[1].gen \in Turns
      BY <2>1, HeadType DEF Inv, Typed, TtsQT
    <3>2. ttsQ[1].gen <= cur
      BY <3>1 DEF Inv, Known, TtsKnown
    <3>3. QED BY <1>1, <3>1, <3>2 DEF Turns
  <2>4. Floor!Take
    BY <2>2, <2>3 DEF Floor!Take
  <2>5. QED BY <2>4 DEF Floor!Next
<1>8. CASE SpeechStart \/ GreetingDone \/ HandoffFallback
  BY <1>2, <1>4, <1>8 DEF SpeechStart, GreetingDone, HandoffFallback, NewTurn, playVars
<1>9. CASE TtsDrained \/ TtsFrame \/ TtsFinish \/ TtsFails
  BY <1>2, <1>3, <1>9 DEF TtsDrained, TtsFrame, TtsFinish, TtsFails, turnVars, playVars
<1>10. CASE Writer \/ PlayoutEnds
  BY <1>2, <1>3, <1>10 DEF Writer, PlayoutEnds, turnVars
<1>11. CASE Quiet
  BY <1>2, <1>11, QuietFrame
<1>12. QED BY <1>5, <1>6, <1>7, <1>8, <1>9, <1>10, <1>11, StepCases

\* Every call of the pipeline is a behaviour of PlaybackFloor: who may speak is
\* decided as promised under every interleaving of the coroutines.
THEOREM PipelineKeepsFloor == Spec => FloorIsKept
<1>1. Init => Floor!Init
  BY DEF Init, Floor!Init, Floor!Nobody, None
<1>2. Inv /\ [Next]_vars => [Floor!Next]_Floor!vars
  <2>1. ASSUME Inv, Next PROVE [Floor!Next]_Floor!vars
    BY <2>1, FloorStep
  <2>2. ASSUME UNCHANGED vars PROVE [Floor!Next]_Floor!vars
    BY <2>2 DEF vars, turnVars, playVars, Floor!vars
  <2>3. QED BY <2>1, <2>2
<1>3. QED BY <1>1, <1>2, Invariance, PTL DEF Spec, FloorIsKept, Floor!Spec
=============================================================================
