------------------------------ MODULE TurnFloor ------------------------------
(***************************************************************************)
(* What the turn manager promises the rest of the engine: an utterance     *)
(* begins and ends only while the assistant cannot be heard, or takes the  *)
(* floor from it, and then the assistant falls silent in the same step.    *)
(* TurnEvidence decides when these things happen, frame by frame, and      *)
(* implements this.                                                        *)
(***************************************************************************)
VARIABLES
    playing,    \* a response, or the rest of one, can be heard
    inSpeech    \* the caller's utterance is being recorded

Init == playing \in BOOLEAN /\ inSpeech = FALSE

SpeechStarts == ~playing /\ ~inSpeech /\ inSpeech' = TRUE /\ playing' = FALSE

SpeechEnds == ~playing /\ inSpeech /\ inSpeech' = FALSE /\ playing' = FALSE

BargeIn == playing /\ playing' = FALSE /\ inSpeech' = TRUE

Playback == playing' = ~playing /\ inSpeech' = inSpeech

\* The greeting makes a new beginning of what was said before it.
Greets == playing' \in BOOLEAN /\ inSpeech' = FALSE

Next == SpeechStarts \/ SpeechEnds \/ BargeIn \/ Playback \/ Greets

Spec == Init /\ [][Next]_<<playing, inSpeech>>
=============================================================================
