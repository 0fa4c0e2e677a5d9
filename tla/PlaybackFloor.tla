---------------------------- MODULE PlaybackFloor ----------------------------
(***************************************************************************)
(* What a call's pipeline promises about who may speak.  The responses of  *)
(* a call are numbered in the order their turns are opened.  At most one   *)
(* has the floor; an interruption takes the floor away, silences what the  *)
(* call has produced so far and opens a turn for the caller; a silenced    *)
(* response never gets the floor again and a call that is over is silent.  *)
(* The response of the turn a session starts with may escape silencing.    *)
(***************************************************************************)
EXTENDS Integers

VARIABLES
    newest,   \* the response of the turn opened last
    floor,    \* the response that has the floor, or Nobody
    silenced, \* responses that may never speak (again)
    over      \* the call has ended

vars == <<newest, floor, silenced, over>>

Nobody == 0

Init ==
    /\ newest \in {1, 2} /\ floor = Nobody
    /\ silenced = {} /\ over = FALSE

\* Silences every response there is, the session's first one optionally.
Silence == silenced \cup 2 .. newest \subseteq silenced'
           /\ silenced' \subseteq 1 .. newest

\* A turn is opened; whoever speaks goes on or has just finished.
Open ==
    /\ ~over
    /\ newest' = newest + 1
    /\ floor' \in {floor, Nobody}
    /\ UNCHANGED <<silenced, over>>

Take ==
    /\ ~over
    /\ floor' \in 1 .. newest \ silenced
    /\ UNCHANGED <<newest, silenced, over>>

Release ==
    /\ floor' = Nobody
    /\ UNCHANGED <<newest, silenced, over>>

Interrupt ==
    /\ ~over
    /\ Silence
    /\ newest' = newest + 1 /\ floor' = Nobody
    /\ UNCHANGED over

Close ==
    /\ ~over /\ over' = TRUE
    /\ Silence
    /\ floor' = Nobody
    /\ UNCHANGED newest

Next == Open \/ Take \/ Release \/ Interrupt \/ Close

Spec == Init /\ [][Next]_vars
=============================================================================
