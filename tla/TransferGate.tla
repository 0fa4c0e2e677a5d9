---------------------------- MODULE TransferGate ----------------------------
(***************************************************************************)
(* What the gateway promises about putting a caller through to a person.   *)
(* The handoffs of a call are numbered as they begin.  The carrier is      *)
(* asked to dial only for a handoff that the backend has granted, once for *)
(* each, and never again once a person may already be on the line: a       *)
(* request stays open until the carrier dials or turns it down.            *)
(***************************************************************************)
VARIABLES
    granted,  \* handoffs the backend named an acceptable person for
    open,     \* requests to dial the carrier has not settled
    asked,    \* handoffs the carrier was ever asked to dial for
    bridged   \* handoffs the carrier dialled for

vars == <<granted, open, asked, bridged>>

Init == granted = {} /\ open = {} /\ asked = {} /\ bridged = {}

\* The backend grants one more handoff.
Grant ==
    /\ \E h \in granted' \ granted : granted' = granted \cup {h}
    /\ UNCHANGED <<open, asked, bridged>>

Ask(h) ==
    /\ h \in granted \ asked
    /\ open = {} /\ bridged = {}
    /\ asked' = asked \cup {h} /\ open' = {h}
    /\ UNCHANGED <<granted, bridged>>

Bridge(h) ==
    /\ h \in open
    /\ bridged' = bridged \cup {h} /\ open' = open \ {h}
    /\ UNCHANGED <<granted, asked>>

TurnDown(h) ==
    /\ h \in open
    /\ open' = open \ {h}
    /\ UNCHANGED <<granted, asked, bridged>>

Next == Grant \/ \E h \in granted : Ask(h) \/ Bridge(h) \/ TurnDown(h)

Spec == Init /\ [][Next]_vars
=============================================================================
