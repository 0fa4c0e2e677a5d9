------------------------------- MODULE Handoff -------------------------------
(***************************************************************************)
(* Handing a caller over to a person, in the telephony gateway.  The       *)
(* gateway's Voice Engine client reads the engine's events in one task and *)
(* runs on_human_handoff inside it, so nothing is read while a handoff     *)
(* awaits the backend or the carrier.  The carrier's stream belongs to     *)
(* handle_stream, another coroutine, whose cleanup shares the session and  *)
(* the client with the handoff and does not wait for it.  A step is what   *)
(* one coroutine does between two suspension points.                       *)
(*                                                                         *)
(* The engine is modelled by what it sends and how it takes the gateway's  *)
(* commands; the backend and the carrier by their answers.                 *)
(***************************************************************************)
EXTENDS Integers, Sequences

CONSTANTS
    MaxRequests,    \* bound: requests of the engine (the code allows one a call)
    MaxToolCalls,   \* bound: tool calls the engine's model writes
    MaxAttempts     \* bound: both of them together

ASSUME BoundAssumption ==
    MaxRequests \in {0, 1} /\ MaxToolCalls \in Nat /\ MaxAttempts \in Nat

None == 0

HandlerSteps == {"idle", "ack", "resolve", "rejected", "fallback", "ringing",
                 "transfer", "refused", "completing"}
StreamSteps  == {"streaming", "stopDrain", "ending", "tellEngine",
                 "reporting", "draining", "closed"}
States   == {"IDLE", "IN_PROGRESS", "COMPLETED", "FAILED"}
Events   == {"request", "tool", "end", "cancelled"}
Commands == {"ack", "fallback", "cancelled", "sessionEnd"}
Statuses == {"ringing", "completed", "failed", "canceled"}

VARIABLES
    engine,    \* the engine's side: its handoff state and its answers; lost: it
               \* waits for the answer to a request that was lost (history)
    toGateway, \* events on their way to the gateway
    toEngine,  \* commands on their way to the engine
    \* VoiceEngineWsClient
    triggered, \* _handoff_triggered
    buffered,  \* _text_buffers holds a transfer's tool call
    clientUp,  \* ~ _close_event.is_set()
    \* the session and its handoff
    enabled,   \* human_handoff_enabled of the agent
    idKnown,   \* the call id of a tool call's handoff is the session's
    handoff,   \* handoff_state
    number,    \* handoffs begun so far: the one in progress or the last
    handoffId, \* handoff_id: the handoff the backend numbered last
    step,      \* where on_human_handoff is suspended
    stopping,  \* cancellation_event.is_set()
    record,    \* the handoff of the cached handoff record
    \* handle_stream
    stream,    \* where it is suspended
    registered,\* the transport still knows the client
    \* the outside
    hungUp,    \* the caller has left
    granted,   \* handoffs the backend named an acceptable person for
    open,      \* transfer requests the carrier has not settled
    dialled,   \* handoffs whose transfer the carrier carried out
    \* what was done so far, for the properties
    asked,     \* handoffs a transfer was requested for
    sent       \* status reports in the order they were sent

clientVars == <<triggered, buffered>>
callVars   == <<enabled, idKnown>>
carrier    == <<open, dialled, asked>>
vars == <<engine, toGateway, toEngine, triggered, buffered, clientUp, enabled,
          idKnown, handoff, number, handoffId, step, stopping, record, stream,
          registered, hungUp, granted, open, dialled, asked, sent>>

Init ==
    /\ engine = [state |-> "talking", asked |-> FALSE, calls |-> 0,
                 answering |-> FALSE, lost |-> FALSE]
    /\ toGateway = <<>> /\ toEngine = <<>>
    /\ triggered = FALSE /\ buffered = FALSE /\ clientUp = TRUE
    /\ enabled \in BOOLEAN /\ idKnown \in BOOLEAN
    /\ handoff = "IDLE" /\ number = 0 /\ handoffId = None /\ step = "idle"
    /\ stopping = FALSE /\ record = None
    /\ stream = "streaming" /\ registered = TRUE
    /\ hungUp = FALSE
    /\ granted = {} /\ open = {} /\ dialled = {}
    /\ asked = {} /\ sent = <<>>

-----------------------------------------------------------------------------
(* The Voice Engine.                                                        *)

EngineOnly == UNCHANGED <<clientVars, clientUp, callVars, handoff, number, handoffId,
    step, stopping, record, stream, registered, hungUp, granted, carrier, sent>>

\* An event that finds the engine's queue full is dropped, and an interruption
\* flushes those that still wait in it; nobody is told.
Sends(e) == toGateway' \in {toGateway, Append(toGateway, e)}

Attempts == engine.calls + (IF engine.asked THEN 1 ELSE 0)

\* The caller asks for a person: the one request the engine makes in a call.
EngineRequests ==
    /\ engine.state = "talking" /\ ~engine.asked
    /\ MaxRequests = 1 /\ Attempts < MaxAttempts
    /\ Sends("request")
    /\ engine' = [engine EXCEPT !.state = "awaiting", !.asked = TRUE,
                                !.lost = toGateway' = toGateway]
    /\ UNCHANGED toEngine /\ EngineOnly

\* The model's answer turns out to be a tool call, sent as text.
EngineCallsTool ==
    /\ engine.state = "talking" /\ ~engine.answering
    /\ engine.calls < MaxToolCalls /\ Attempts < MaxAttempts
    /\ engine' = [engine EXCEPT !.calls = @ + 1, !.answering = TRUE]
    /\ Sends("tool")
    /\ UNCHANGED toEngine /\ EngineOnly

EngineEndsAnswer ==
    /\ engine.answering
    /\ engine' = [engine EXCEPT !.answering = FALSE]
    /\ Sends("end")
    /\ UNCHANGED toEngine /\ EngineOnly

\* "Never mind": the caller takes the request back while on hold.
CallerCancels ==
    /\ engine.state = "awaiting" /\ ~hungUp
    /\ engine' = [engine EXCEPT !.state = "talking", !.lost = FALSE]
    /\ Sends("cancelled")
    /\ UNCHANGED toEngine /\ EngineOnly

\* The endpoint knows no command handoff.cancelled.
EngineTakes ==
    /\ toEngine # <<>> /\ engine.state # "ended"
    /\ toEngine' = Tail(toEngine)
    /\ engine' =
         CASE Head(toEngine) = "ack" ->
                [engine EXCEPT !.state = "awaiting", !.lost = FALSE]
           [] Head(toEngine) = "fallback" ->
                [engine EXCEPT !.state = "talking", !.lost = FALSE]
           [] Head(toEngine) = "sessionEnd" ->
                [engine EXCEPT !.state = "ended", !.answering = FALSE]
           [] OTHER -> engine
    /\ UNCHANGED toGateway /\ EngineOnly

-----------------------------------------------------------------------------
(* The client's receive loop and, inside it, on_human_handoff.              *)

\* A command leaves only through an open client, else it is dropped silently.
Tell(c) == toEngine' = IF clientUp THEN Append(toEngine, c) ELSE toEngine

TellsNobody  == UNCHANGED toEngine
Report(h, s) == sent' = Append(sent, <<h, s>>)

\* RealtimeVoiceSession.is_active and can_initiate_handoff
MayBegin ==
    /\ stream # "closed" /\ ~stopping
    /\ handoff \notin {"COMPLETED", "IN_PROGRESS"}

\* on_human_handoff up to its first await, for a handoff whose ids match or not.
Begins(matches) ==
    IF ~MayBegin THEN UNCHANGED <<handoff, number, step>>
    ELSE /\ number' = number + 1
         /\ \/ ~matches /\ handoff' = "FAILED" /\ step' = step
            \/ matches /\ ~enabled /\ handoff' = "FAILED" /\ step' = "fallback"
            \/ matches /\ enabled /\ handoff' = "IN_PROGRESS" /\ step' = "ack"

Receives(e) ==
    /\ clientUp /\ step = "idle" /\ toGateway # <<>>
    /\ Head(toGateway) = e /\ toGateway' = Tail(toGateway)
    /\ UNCHANGED <<engine, clientUp, callVars, handoffId, stopping, record,
                   stream, registered, hungUp, granted, carrier, sent>>
    /\ TellsNobody

ReceiveRequest ==
    /\ Receives("request")
    /\ triggered' = TRUE /\ Begins(TRUE)
    /\ UNCHANGED buffered

ReceiveToolCall ==
    /\ Receives("tool")
    /\ buffered' = TRUE
    /\ IF triggered THEN UNCHANGED <<triggered, handoff, number, step>>
       ELSE triggered' = TRUE /\ Begins(idKnown)

\* The end of a response still looks for a tool call in the text so far.
ReceiveEnd ==
    /\ Receives("end")
    /\ buffered' = FALSE
    /\ IF triggered \/ ~buffered THEN UNCHANGED <<triggered, handoff, number, step>>
       ELSE triggered' = TRUE /\ Begins(idKnown)

\* There is no branch for handoff.cancelled.
ReceiveCancelled ==
    /\ Receives("cancelled")
    /\ UNCHANGED <<clientVars, handoff, number, step>>

HandlerOnly == UNCHANGED <<engine, toGateway, buffered, callVars, number,
                           stream, registered, hungUp>>

\* Acknowledges, flushes the AI's audio and asks the backend for a person.
Acknowledges ==
    /\ step = "ack" /\ step' = "resolve"
    /\ Tell("ack")
    /\ UNCHANGED <<triggered, clientUp, handoff, stopping, record, granted,
                   carrier, sent>>
    /\ UNCHANGED handoffId /\ HandlerOnly

\* Mutant: without an answer of the backend the transfer goes ahead.
ResolveRejectsOpen ==
    /\ step = "resolve" /\ handoff' = "FAILED"
    /\ \/ step' = "rejected" /\ Report(number, "failed")
       \/ step' = "ringing" /\ UNCHANGED sent
    /\ TellsNobody
    /\ UNCHANGED <<triggered, clientUp, stopping, record, granted, carrier>>
    /\ UNCHANGED handoffId /\ HandlerOnly

\* Nobody is eligible, or the backend failed; it may have numbered the handoff.
ResolveRejects ==
    /\ step = "resolve" /\ handoff' = "FAILED"
    /\ \/ step' = "rejected" /\ Report(number, "failed")
       \/ step' = "fallback" /\ UNCHANGED sent
    /\ TellsNobody
    /\ UNCHANGED <<triggered, clientUp, stopping, record, granted, carrier>>
    /\ UNCHANGED handoffId /\ HandlerOnly

\* Mutant: the person's organization and number are not checked.
ResolveUnfitAccepts ==
    /\ step = "resolve" /\ step' = "ringing"
    /\ TellsNobody
    /\ UNCHANGED <<triggered, clientUp, handoff, stopping, record, granted, carrier,
                   sent>>
    /\ UNCHANGED handoffId /\ HandlerOnly

\* Mutant: the refusal returns without telling the engine.
ResolveUnfitSilent ==
    /\ step = "resolve" /\ handoff' = "FAILED" /\ step' = "idle"
    /\ TellsNobody
    /\ UNCHANGED <<triggered, clientUp, stopping, record, granted, carrier, sent>>
    /\ UNCHANGED handoffId /\ HandlerOnly

\* A person of another organization or with an unusable number.
ResolveUnfit ==
    /\ step = "resolve" /\ handoff' = "FAILED" /\ step' = "fallback"
    /\ TellsNobody
    /\ UNCHANGED <<triggered, clientUp, stopping, record, granted, carrier, sent>>
    /\ UNCHANGED handoffId /\ HandlerOnly

ResolveGrants ==
    /\ step = "resolve" /\ step' = "ringing"
    /\ granted' = granted \cup {number} /\ handoffId' = number
    /\ Report(number, "ringing")
    /\ TellsNobody
    /\ UNCHANGED <<triggered, clientUp, handoff, stopping, record, carrier>>
    /\ HandlerOnly

\* The state is not looked at again: whatever it is, it becomes COMPLETED.
RequestsTransfer ==
    /\ step = "ringing" /\ step' = "transfer"
    /\ handoff' = "COMPLETED" /\ record' = number
    /\ asked' = asked \cup {number} /\ open' = open \cup {number}
    /\ TellsNobody
    /\ UNCHANGED <<triggered, clientUp, stopping, granted, dialled, sent>>
    /\ UNCHANGED handoffId /\ HandlerOnly

\* Leaves the engine: session.end, and the client closed from its own task.
LeavesEngine ==
    /\ step' = "completing"
    /\ Tell("sessionEnd") /\ clientUp' = FALSE
    /\ Report(handoffId, "completed")

TransferSucceeds ==
    /\ step = "transfer" /\ number \in dialled
    /\ LeavesEngine
    /\ UNCHANGED <<triggered, handoff, stopping, record, granted, carrier>>
    /\ UNCHANGED handoffId /\ HandlerOnly

\* Any failure but a 502, a timeout too, leaves it to the carrier's call flow.
TransferUnsupported ==
    /\ step = "transfer"
    /\ LeavesEngine
    /\ UNCHANGED <<triggered, handoff, stopping, record, granted, carrier>>
    /\ UNCHANGED handoffId /\ HandlerOnly

\* Mutant: a timeout counts as the carrier's refusal.
TransferFailsAnyhow ==
    /\ step = "transfer"
    /\ step' = "refused" /\ handoff' = "FAILED"
    /\ Report(handoffId, "failed")
    /\ TellsNobody
    /\ UNCHANGED <<triggered, clientUp, stopping, record, granted, carrier>>
    /\ UNCHANGED handoffId /\ HandlerOnly

\* Only the carrier's own refusal, a 502, hands the caller back to the AI.
TransferFails ==
    /\ step = "transfer" /\ number \in open
    /\ step' = "refused" /\ handoff' = "FAILED"
    /\ open' = open \ {number}
    /\ Report(handoffId, "failed")
    /\ TellsNobody
    /\ UNCHANGED <<triggered, clientUp, stopping, record, granted, dialled, asked>>
    /\ UNCHANGED handoffId /\ HandlerOnly

FailureReported ==
    /\ step \in {"rejected", "refused"} /\ step' = "fallback"
    /\ TellsNobody
    /\ UNCHANGED <<triggered, clientUp, handoff, stopping, record, granted,
                   carrier, sent>>
    /\ UNCHANGED handoffId /\ HandlerOnly

\* Mutant: the AI's audio stays dropped.
FallsBackMuted ==
    /\ step = "fallback" /\ step' = "idle"
    /\ Tell("fallback")
    /\ UNCHANGED <<triggered, clientUp, handoff, stopping, record, granted, carrier,
                   sent>>
    /\ UNCHANGED handoffId /\ HandlerOnly

FallsBack ==
    /\ step = "fallback" /\ step' = "idle"
    /\ triggered' = FALSE
    /\ Tell("fallback")
    /\ UNCHANGED <<clientUp, handoff, stopping, record, granted, carrier, sent>>
    /\ UNCHANGED handoffId /\ HandlerOnly

\* Mutant: the stream is left open.
CompletesSilently ==
    /\ step = "completing" /\ step' = "idle"
    /\ TellsNobody
    /\ UNCHANGED <<triggered, clientUp, handoff, stopping, record, granted, carrier,
                   sent>>
    /\ UNCHANGED handoffId /\ HandlerOnly

\* Ends the carrier's stream, for the call flow to go on.
Completes ==
    /\ step = "completing" /\ step' = "idle"
    /\ stopping' = TRUE
    /\ TellsNobody
    /\ UNCHANGED <<triggered, clientUp, handoff, record, granted, carrier, sent>>
    /\ UNCHANGED handoffId /\ HandlerOnly

-----------------------------------------------------------------------------
(* The carrier's stream.                                                    *)

StreamOnly == UNCHANGED <<engine, toGateway, clientVars, callVars, number,
                          handoffId, record, granted, carrier>>

\* client.close_session and client.close: the receive task is cancelled, and
\* with it a handoff.  A client that closed itself is left alone.
ClosesClient ==
    IF clientUp THEN clientUp' = FALSE /\ step' = "idle"
                ELSE UNCHANGED <<clientUp, step>>

HangUp ==
    /\ ~hungUp /\ hungUp' = TRUE
    /\ TellsNobody
    /\ UNCHANGED <<clientUp, handoff, step, stopping, stream, registered, sent>>
    /\ StreamOnly

\* The carrier says stop: the inbound loop ends the engine's session itself.
StreamStops ==
    /\ stream = "streaming" /\ hungUp
    /\ registered' = FALSE
    /\ IF clientUp THEN stream' = "stopDrain" /\ Tell("sessionEnd")
                        /\ UNCHANGED stopping
                   ELSE stream' = "ending" /\ stopping' = TRUE /\ TellsNobody
    /\ UNCHANGED <<clientUp, handoff, step, hungUp, sent>>
    /\ StreamOnly

StopDrained ==
    /\ stream = "stopDrain" /\ stream' = "ending"
    /\ ClosesClient
    /\ stopping' = TRUE
    /\ TellsNobody
    /\ UNCHANGED <<handoff, registered, hungUp, sent>>
    /\ StreamOnly

\* Another loop ends first, and the inbound loop is cancelled in its wait.
StopCutShort ==
    /\ stream = "stopDrain" /\ stream' = "ending"
    /\ TellsNobody
    /\ UNCHANGED <<clientUp, handoff, step, stopping, registered, hungUp, sent>>
    /\ StreamOnly

\* The connection is gone, or a loop saw that the call is to stop.
StreamDrops ==
    /\ stream = "streaming" /\ stream' = "ending"
    /\ TellsNobody
    /\ UNCHANGED <<clientUp, handoff, step, stopping, registered, hungUp, sent>>
    /\ StreamOnly

\* session.close: expiry, termination or shutdown.
SessionCloses ==
    /\ ~stopping /\ stream # "closed"
    /\ stopping' = TRUE
    /\ TellsNobody
    /\ UNCHANGED <<clientUp, handoff, step, stream, registered, hungUp, sent>>
    /\ StreamOnly

\* transport.close_session, unless somebody else has begun it.
EndsSession ==
    /\ registered' = FALSE
    /\ IF registered /\ clientUp THEN stream' = "draining" /\ Tell("sessionEnd")
                                 ELSE stream' = "closed" /\ TellsNobody
    /\ UNCHANGED <<clientUp, handoff, step, stopping, hungUp, sent>>
    /\ StreamOnly

\* The cleanup of a call without a handoff in progress ...
CleanupEnds ==
    /\ stream = "ending" /\ handoff # "IN_PROGRESS"
    /\ EndsSession

\* ... and of one with, which it gives up first.
CleanupCancels ==
    /\ stream = "ending" /\ handoff = "IN_PROGRESS"
    /\ stream' = "tellEngine" /\ handoff' = "FAILED"
    /\ Tell("cancelled")
    /\ UNCHANGED <<clientUp, step, stopping, registered, hungUp, sent>>
    /\ StreamOnly

CleanupReports ==
    /\ stream = "tellEngine" /\ stream' = "reporting"
    /\ Report(handoffId, "canceled")
    /\ TellsNobody
    /\ UNCHANGED <<clientUp, handoff, step, stopping, registered, hungUp>>
    /\ StreamOnly

CleanupReported ==
    /\ stream = "reporting"
    /\ EndsSession

CleanupDrained ==
    /\ stream = "draining" /\ stream' = "closed"
    /\ ClosesClient
    /\ TellsNobody
    /\ UNCHANGED <<handoff, stopping, registered, hungUp, sent>>
    /\ StreamOnly

-----------------------------------------------------------------------------
(* The carrier's API: a request may be carried out after it timed out.      *)

CarrierDials ==
    /\ \E h \in open : dialled' = dialled \cup {h} /\ open' = open \ {h}
    /\ UNCHANGED <<engine, toGateway, toEngine, clientVars, clientUp, callVars,
                   handoff, number, handoffId, step, stopping, record, stream,
                   registered, hungUp, granted, asked, sent>>

\* GET /exotel/handoff-decision, which the call flow asks when the stream ends.
Approved == record # None \/ handoff \in {"IN_PROGRESS", "COMPLETED"}

Engine  == EngineRequests \/ EngineCallsTool \/ EngineEndsAnswer
           \/ CallerCancels \/ EngineTakes
Receive == ReceiveRequest \/ ReceiveToolCall \/ ReceiveEnd \/ ReceiveCancelled
Handler == Acknowledges \/ ResolveRejects \/ ResolveUnfit \/ ResolveGrants
           \/ RequestsTransfer \/ TransferSucceeds \/ TransferUnsupported
           \/ TransferFails \/ FailureReported \/ FallsBack \/ Completes
Cleanup == StopDrained \/ StopCutShort \/ CleanupEnds \/ CleanupCancels
           \/ CleanupReports \/ CleanupReported \/ CleanupDrained
Stream  == HangUp \/ StreamStops \/ StreamDrops \/ SessionCloses \/ Cleanup

Next == Engine \/ Receive \/ Handler \/ Stream \/ CarrierDials

Spec == Init /\ [][Next]_vars

\* Every await of the gateway ends: HTTP requests and drains have timeouts, a
\* stream whose call is to stop is left by its loops, and both ends keep reading.
FairSpec == Spec /\ WF_vars(EngineTakes) /\ WF_vars(Receive) /\ WF_vars(Handler)
                 /\ WF_vars(Cleanup) /\ WF_vars(stopping /\ StreamDrops)

-----------------------------------------------------------------------------
(* Correctness.                                                             *)

TypeOK ==
    /\ engine \in [state : {"talking", "awaiting", "ended"}, asked : BOOLEAN,
                   calls : 0 .. MaxToolCalls, answering : BOOLEAN,
                   lost : BOOLEAN]
    /\ toGateway \in Seq(Events) /\ toEngine \in Seq(Commands)
    /\ triggered \in BOOLEAN /\ buffered \in BOOLEAN /\ clientUp \in BOOLEAN
    /\ enabled \in BOOLEAN /\ idKnown \in BOOLEAN
    /\ handoff \in States /\ step \in HandlerSteps
    /\ number \in Nat /\ handoffId \in 0 .. number /\ record \in 0 .. number
    /\ stopping \in BOOLEAN /\ stream \in StreamSteps /\ registered \in BOOLEAN
    /\ hungUp \in BOOLEAN
    /\ granted \subseteq 1 .. number /\ asked \subseteq granted
    /\ open \subseteq asked /\ dialled \subseteq asked
    /\ sent \in Seq((0 .. number) \X Statuses)

\* A call is put through only to a person the backend named for it, and never
\* again while the carrier may still, or did, put it through: on_human_handoff,
\* retried by repeated events, with timeouts and cleanup at any await of it.
Gate == INSTANCE TransferGate WITH bridged <- dialled
GateIsKept == Gate!Spec

\* What the backend is told fits what the carrier does: a handoff reported
\* failed is not one the carrier dialled or may yet dial, and a completed one
\* was asked for (the status reports of on_human_handoff).
ReportsFit ==
    \A i \in DOMAIN sent :
        LET h == sent[i][1] IN
        /\ sent[i][2] = "failed"    => h \notin open \cup dialled
        /\ sent[i][2] = "completed" => h \in asked

\* Once the stream's cleanup has closed the client, the handoff that was running
\* in its receive task does no more than close the stream again.
CleanupStopsHandoff ==
    stream = "closed" /\ ~clientUp => step \in {"idle", "completing"}

\* The engine, which waits without a timeout for what comes of its request, is
\* released unless the call ends (every way out of on_human_handoff answers).
\* A request that never reached the gateway is excepted: after it the engine
\* waits until the caller takes it back or hangs up.
WaitingEnds ==
    engine.state = "awaiting" /\ ~engine.lost
        ~> engine.state # "awaiting" \/ stream = "closed"

\* The caller hears the AI again after a handoff that comes to nothing, unless
\* the call ends; handoffs refused for a foreign call id are excepted.
MuteEnds == idKnown => (triggered ~> ~triggered \/ stream = "closed")

\* A completed handoff ends the carrier's stream, without which the call flow
\* never reaches the applet that connects the caller.
CompletionFreesCall ==
    handoff = "COMPLETED" ~> stream = "closed" \/ handoff = "FAILED"

=============================================================================
