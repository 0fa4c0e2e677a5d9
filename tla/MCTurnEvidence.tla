--------------------------- MODULE MCTurnEvidence ---------------------------
(***************************************************************************)
(* Sounds a telephone brings, one or two of each kind the features tell    *)
(* apart, for model checking TurnEvidence with shorter times.              *)
(***************************************************************************)
EXTENDS TurnEvidence

Voice == [rms |-> 60, vocal |-> 60, ratio |-> 90, snr |-> 12, zcr |-> 10,
          pitch |-> 50, centroid |-> 1300, flux |-> 30, flatness |-> 20,
          crest |-> 4, conf |-> 90, echo |-> FALSE, caller |-> TRUE]

Line      == [Voice EXCEPT !.rms = 1, !.vocal = 0, !.ratio = 20, !.snr = 0, !.pitch = 5, !.conf = 10]
Echo      == [Voice EXCEPT !.rms = 30, !.vocal = 25, !.echo = TRUE]
TalkOver  == [Voice EXCEPT !.echo = TRUE]
Humming   == [Voice EXCEPT !.rms = 25, !.vocal = 20, !.centroid = 600, !.flux = 5]
Murmur    == [Voice EXCEPT !.rms = 30, !.vocal = 28, !.flux = 16, !.zcr = 23]
Softly    == [Voice EXCEPT !.rms = 25, !.vocal = 24]
Breathing == [Voice EXCEPT !.rms = 20, !.vocal = 10, !.zcr = 46, !.pitch = 15, !.centroid = 3300, !.conf = 50]
Click     == [Voice EXCEPT !.rms = 20, !.vocal = 10, !.pitch = 5, !.crest = 13, !.conf = 50]
Plainly   == [Voice EXCEPT !.flux = 16]
Bystander == [Voice EXCEPT !.rms = 30, !.vocal = 28, !.flux = 20, !.caller = FALSE]

TelephoneSounds == {Voice, Line, Echo, TalkOver, Humming, Murmur, Softly,
                    Breathing, Click, Plainly, Bystander}
=============================================================================
