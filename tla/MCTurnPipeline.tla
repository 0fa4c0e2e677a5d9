--------------------------- MODULE MCTurnPipeline ---------------------------
(***************************************************************************)
(* Instances of TurnPipeline for model checking.  The bounds are given in  *)
(* the configurations: three or four turns are the least that let a        *)
(* barge-in meet the work of two older turns, queues of two or three       *)
(* entries are full often enough to exercise the drops and the waiting.    *)
(***************************************************************************)
EXTENDS TurnPipeline

-----------------------------------------------------------------------------
(* What the repository says of this code and the code does not do *)

\* "Graceful voice recovery": a failed transcription leaves a TTS worker that
\* can speak the retry prompt.
TtsWorkerSurvives == call = "active" => "tts" \in workers
=============================================================================
