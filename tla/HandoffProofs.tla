---------------------------- MODULE HandoffProofs ----------------------------
(***************************************************************************)
(* Proofs about Handoff for any number of requests and tool calls.         *)
(***************************************************************************)
EXTENDS Handoff, TLAPS

Awaiting == {"ack", "resolve", "rejected", "fallback", "ringing", "transfer",
             "refused"}

\* The transfer requests of the call are of the handoffs that were granted.
Requests ==
    /\ number \in Nat /\ handoffId \in 0 .. number
    /\ granted \subseteq 1 .. number /\ asked \subseteq granted
    /\ open \subseteq asked /\ dialled \subseteq asked
    /\ open \cap dialled = {}

\* A handoff at an await runs in the receive task of an open client.
Alive ==
    /\ step \in HandlerSteps /\ clientUp \in BOOLEAN
    /\ step \in Awaiting => clientUp

\* Which requests there are of the handoff in progress, by where it is.
Progress ==
    /\ step \in {"ack", "resolve"} => number \notin granted /\ number # 0
    /\ step = "ringing" => number \in granted \ asked /\ handoffId = number
    /\ step \in {"transfer", "refused", "completing"} =>
          number \in asked /\ handoffId = number

\* Only the last handoff can have been put through, and until its outcome is
\* known the client is either busy with it or closed.
Settled ==
    /\ open \cup dialled \subseteq {number}
    /\ open \cup dialled # {} => step = "transfer" \/ ~clientUp

\* A handoff that may yet be put through was not reported failed.
Reports ==
    /\ sent \in Seq(Nat \X Statuses)
    /\ \A i \in DOMAIN sent : sent[i][1] \in 0 .. number
    /\ step \in {"ack", "resolve", "ringing", "transfer"} =>
          \A i \in DOMAIN sent : sent[i] # <<number, "failed">>

Inv == Requests /\ Alive /\ Progress /\ Settled /\ Reports /\ ReportsFit

core == <<number, handoffId, granted, open, dialled, asked, sent>>

\* A step that leaves requests and reports alone keeps the invariant when the
\* handoff stays where it is, goes idle, or goes on to its fallback.
LEMMA Frame ==
    ASSUME Inv, UNCHANGED core,
           \/ UNCHANGED <<step, clientUp>>
           \/ step' = "idle" /\ clientUp' = FALSE
           \/ step' \in {"idle", "fallback"} /\ clientUp' = clientUp
              /\ step \notin {"transfer", "idle"}
              /\ (step' = "fallback" => step \in Awaiting)
    PROVE  Inv'
<1>1. Requests' /\ ReportsFit'
  BY DEF Inv, Requests, ReportsFit, core
<1>2. Alive'
  BY DEF Inv, Alive, HandlerSteps, Awaiting
<1>3. Progress' /\ Settled'
  BY DEF Inv, Progress, Settled, Alive, core
<1>4. Reports'
  BY DEF Inv, Reports, core
<1>5. QED BY <1>1, <1>2, <1>3, <1>4 DEF Inv

\* What is in the list of reports after one more.
LEMMA OneMore ==
    ASSUME Inv, NEW h \in 0 .. number, NEW s \in Statuses, Report(h, s)
    PROVE  /\ sent' \in Seq(Nat \X Statuses)
           /\ \A i \in DOMAIN sent' : sent'[i][1] \in 0 .. number
           /\ \A i \in DOMAIN sent' :
                 (i \in DOMAIN sent /\ sent'[i] = sent[i]) \/ sent'[i] = <<h, s>>
<1>1. sent \in Seq(Nat \X Statuses) /\ number \in Nat
  BY DEF Inv, Reports, Requests
<1>2. h \in Nat /\ <<h, s>> \in Nat \X Statuses
  BY <1>1
<1>3. sent' = Append(sent, <<h, s>>)
  BY DEF Report
<1>4. \A i \in DOMAIN sent' :
         (i \in DOMAIN sent /\ sent'[i] = sent[i]) \/ sent'[i] = <<h, s>>
  BY <1>1, <1>2, <1>3
<1>5. \A i \in DOMAIN sent' : sent'[i][1] \in 0 .. number
  BY <1>4 DEF Inv, Reports
<1>6. QED BY <1>1, <1>2, <1>3, <1>4, <1>5

LEMMA EngineStep == Inv /\ Engine => Inv'
<1>. SUFFICES ASSUME Inv, Engine PROVE Inv'
  OBVIOUS
<1>1. EngineOnly
  BY DEF Engine, EngineRequests, EngineCallsTool, EngineEndsAnswer,
         CallerCancels, EngineTakes
<1>2. UNCHANGED core /\ UNCHANGED <<step, clientUp>>
  BY <1>1 DEF EngineOnly, core, carrier
<1>3. QED BY <1>2, Frame

LEMMA StreamStep == Inv /\ Stream => Inv'
<1>. SUFFICES ASSUME Inv, Stream PROVE Inv'
  OBVIOUS
<1>1. CASE CleanupReports
  <2>1. UNCHANGED <<number, handoffId, granted, open, dialled, asked, step, clientUp>>
        /\ Report(handoffId, "canceled")
    BY <1>1 DEF CleanupReports, StreamOnly, carrier
  <2>2. handoffId \in 0 .. number /\ "canceled" \in Statuses
    BY DEF Inv, Requests, Statuses
  <2>3. /\ sent' \in Seq(Nat \X Statuses)
        /\ \A i \in DOMAIN sent' : sent'[i][1] \in 0 .. number
        /\ \A i \in DOMAIN sent' :
              (i \in DOMAIN sent /\ sent'[i] = sent[i])
              \/ sent'[i] = <<handoffId, "canceled">>
    BY <2>1, <2>2, OneMore
  <2>4. Requests' /\ Alive' /\ Progress' /\ Settled'
    BY <2>1 DEF Inv, Requests, Alive, Progress, Settled
  <2>5. Reports'
    BY <2>1, <2>3 DEF Inv, Reports
  <2>6. ReportsFit'
    BY <2>1, <2>3 DEF Inv, ReportsFit
  <2>7. QED BY <2>4, <2>5, <2>6 DEF Inv
<1>2. CASE ~CleanupReports
  <2>1. UNCHANGED core
    BY <1>2 DEF Stream, Cleanup, HangUp, StreamStops, StreamDrops, SessionCloses,
       StopDrained, StopCutShort, CleanupEnds, CleanupCancels, CleanupReported,
       EndsSession, CleanupDrained, StreamOnly, carrier, core
  <2>2. UNCHANGED <<step, clientUp>> \/ ClosesClient
    BY <1>2 DEF Stream, Cleanup, HangUp, StreamStops, StreamDrops, SessionCloses,
       StopDrained, StopCutShort, CleanupEnds, CleanupCancels, CleanupReported,
       EndsSession, CleanupDrained
  <2>3. QED BY <2>1, <2>2, Frame DEF ClosesClient
<1>3. QED BY <1>1, <1>2

\* A new handoff begins only while no request can put the caller through.
LEMMA BeginStep ==
    ASSUME Inv, NEW matches \in BOOLEAN, Begins(matches), step = "idle", clientUp,
           UNCHANGED <<clientUp, handoffId, granted, open, dialled, asked, sent>>
    PROVE  Inv'
<1>1. CASE ~MayBegin
  <2>1. UNCHANGED core /\ UNCHANGED <<step, clientUp>>
    BY <1>1 DEF Begins, core
  <2>2. QED BY <2>1, Frame
<1>2. CASE MayBegin
  <2>1. number' = number + 1 /\ step' \in {"idle", "fallback", "ack"}
    BY <1>2 DEF Begins
  <2>2. open \cup dialled = {}
    BY DEF Inv, Settled
  <2>3. Requests'
    BY <2>1 DEF Inv, Requests
  <2>4. Alive' /\ Settled' /\ ReportsFit'
    BY <2>1, <2>2 DEF Inv, Alive, Settled, ReportsFit, HandlerSteps
  <2>5. Progress'
    BY <2>1 DEF Inv, Progress, Requests
  <2>6. Reports'
    BY <2>1 DEF Inv, Reports, Requests
  <2>7. QED BY <2>3, <2>4, <2>5, <2>6 DEF Inv
<1>3. QED BY <1>1, <1>2

LEMMA ReceiveStep == Inv /\ Receive => Inv'
<1>. SUFFICES ASSUME Inv, Receive PROVE Inv'
  OBVIOUS
<1>1. UNCHANGED <<handoffId, granted, open, dialled, asked, sent, clientUp>>
      /\ clientUp /\ step = "idle"
  BY DEF Receive, ReceiveRequest, ReceiveToolCall, ReceiveEnd,
         ReceiveCancelled, Receives, carrier
<1>2. UNCHANGED <<number, step>> \/ Begins(TRUE) \/ Begins(idKnown)
  BY DEF Receive, ReceiveRequest, ReceiveToolCall, ReceiveEnd,
         ReceiveCancelled
<1>3. Begins(idKnown) => Begins(TRUE) \/ Begins(FALSE)
  BY DEF Begins
<1>4. CASE UNCHANGED <<number, step>>
  BY <1>1, <1>4, Frame DEF core
<1>5. CASE Begins(TRUE)
  BY <1>1, <1>5, BeginStep
<1>6. CASE Begins(FALSE)
  BY <1>1, <1>6, BeginStep
<1>7. QED BY <1>2, <1>3, <1>4, <1>5, <1>6

LEMMA HandlerStep == Inv /\ Handler => Inv'
<1>. SUFFICES ASSUME Inv, Handler PROVE Inv'
  OBVIOUS
<1>. USE DEF HandlerOnly, carrier
<1>1. CASE Acknowledges
  <2>1. UNCHANGED core /\ UNCHANGED clientUp /\ step = "ack" /\ step' = "resolve"
    BY <1>1 DEF Acknowledges, core
  <2>2. QED BY <2>1 DEF Inv, core, Requests, Alive, Progress, Settled, Reports,
                        ReportsFit, HandlerSteps, Awaiting
<1>2. CASE ResolveRejects
  <2>1. UNCHANGED <<number, handoffId, granted, open, dialled, asked, clientUp>>
        /\ step = "resolve"
    BY <1>2 DEF ResolveRejects
  <2>2. CASE step' = "fallback" /\ UNCHANGED sent
    BY <2>1, <2>2, Frame DEF core, Awaiting
  <2>3. CASE step' = "rejected" /\ Report(number, "failed")
    <3>1. number \in 0 .. number /\ "failed" \in Statuses
      BY DEF Inv, Requests, Statuses
    <3>2. number \notin open \cup dialled
      BY <2>1 DEF Inv, Requests, Progress
    <3>3. /\ sent' \in Seq(Nat \X Statuses)
          /\ \A i \in DOMAIN sent' : sent'[i][1] \in 0 .. number
          /\ \A i \in DOMAIN sent' :
                (i \in DOMAIN sent /\ sent'[i] = sent[i])
                \/ sent'[i] = <<number, "failed">>
      BY <2>3, <3>1, OneMore
    <3>4. Requests' /\ Alive' /\ Progress' /\ Settled' /\ Reports'
      BY <2>1, <2>3, <3>3 DEF Inv, Requests, Alive, Progress, Settled, Reports,
                              HandlerSteps, Awaiting
    <3>5. ReportsFit'
      BY <2>1, <3>2, <3>3 DEF Inv, ReportsFit
    <3>6. QED BY <3>4, <3>5 DEF Inv
  <2>4. QED BY <1>2, <2>2, <2>3 DEF ResolveRejects
<1>3. CASE ResolveUnfit
  BY <1>3, Frame DEF ResolveUnfit, core, Awaiting
<1>4. CASE ResolveGrants
  <2>1. /\ UNCHANGED <<number, open, dialled, asked, clientUp>>
        /\ step = "resolve" /\ step' = "ringing" /\ handoffId' = number
        /\ granted' = granted \cup {number} /\ Report(number, "ringing")
    BY <1>4 DEF ResolveGrants
  <2>2. number \in 0 .. number /\ "ringing" \in Statuses /\ number \in Nat
    BY DEF Inv, Requests, Statuses
  <2>3. /\ sent' \in Seq(Nat \X Statuses)
        /\ \A i \in DOMAIN sent' : sent'[i][1] \in 0 .. number
        /\ \A i \in DOMAIN sent' :
              (i \in DOMAIN sent /\ sent'[i] = sent[i])
              \/ sent'[i] = <<number, "ringing">>
    BY <2>1, <2>2, OneMore
  <2>4. number # 0
    BY <2>1 DEF Inv, Progress
  <2>5. Requests'
    BY <2>1, <2>2, <2>4 DEF Inv, Requests
  <2>6. Alive' /\ Progress' /\ Settled'
    BY <2>1 DEF Inv, Requests, Alive, Progress, Settled, HandlerSteps, Awaiting
  <2>7. Reports'
    <3>1. \A i \in DOMAIN sent : sent[i] # <<number, "failed">>
      BY <2>1 DEF Inv, Reports
    <3>2. <<number, "ringing">> # <<number, "failed">>
      OBVIOUS
    <3>3. \A i \in DOMAIN sent' : sent'[i] # <<number, "failed">>
      BY <2>3, <3>1, <3>2
    <3>4. QED BY <2>1, <2>3, <3>3 DEF Reports
  <2>8. ReportsFit'
    BY <2>1, <2>3 DEF Inv, ReportsFit
  <2>9. QED BY <2>5, <2>6, <2>7, <2>8 DEF Inv
<1>5. CASE RequestsTransfer
  <2>1. /\ UNCHANGED <<number, handoffId, granted, dialled, sent, clientUp>>
        /\ step = "ringing" /\ step' = "transfer"
        /\ asked' = asked \cup {number} /\ open' = open \cup {number}
    BY <1>5 DEF RequestsTransfer
  <2>2. open \cup dialled = {} /\ number \in granted \ asked
    BY <2>1 DEF Inv, Settled, Alive, Progress, Awaiting
  <2>3. Requests' /\ Alive' /\ Progress' /\ Settled' /\ Reports'
    BY <2>1, <2>2 DEF Inv, Requests, Alive, Progress, Settled, Reports,
                      HandlerSteps, Awaiting
  <2>4. ReportsFit'
    <3>1. \A i \in DOMAIN sent : sent[i][2] = "failed" => sent[i][1] # number
      BY <2>1 DEF Inv, Reports
    <3>2. QED BY <2>1, <2>2, <3>1 DEF Inv, ReportsFit
  <2>5. QED BY <2>3, <2>4 DEF Inv
<1>6. CASE TransferSucceeds \/ TransferUnsupported
  <2>1. /\ UNCHANGED <<number, handoffId, granted, open, dialled, asked>>
        /\ step = "transfer" /\ step' = "completing" /\ ~clientUp'
        /\ clientUp' \in BOOLEAN /\ Report(handoffId, "completed")
    BY <1>6 DEF TransferSucceeds, TransferUnsupported, LeavesEngine
  <2>2. handoffId \in 0 .. number /\ "completed" \in Statuses
    BY DEF Inv, Requests, Statuses
  <2>3. handoffId \in asked
    BY <2>1 DEF Inv, Progress
  <2>4. /\ sent' \in Seq(Nat \X Statuses)
        /\ \A i \in DOMAIN sent' : sent'[i][1] \in 0 .. number
        /\ \A i \in DOMAIN sent' :
              (i \in DOMAIN sent /\ sent'[i] = sent[i])
              \/ sent'[i] = <<handoffId, "completed">>
    BY <2>1, <2>2, OneMore
  <2>5. Requests' /\ Alive' /\ Progress' /\ Settled' /\ Reports'
    BY <2>1, <2>4 DEF Inv, Requests, Alive, Progress, Settled, Reports,
                      HandlerSteps, Awaiting
  <2>6. ReportsFit'
    BY <2>1, <2>3, <2>4 DEF Inv, ReportsFit
  <2>7. QED BY <2>5, <2>6 DEF Inv
<1>7. CASE TransferFails
  <2>1. /\ UNCHANGED <<number, handoffId, granted, dialled, asked, clientUp>>
        /\ step = "transfer" /\ step' = "refused" /\ number \in open
        /\ open' = open \ {number} /\ Report(handoffId, "failed")
    BY <1>7 DEF TransferFails
  <2>2. handoffId \in 0 .. number /\ "failed" \in Statuses
    BY DEF Inv, Requests, Statuses
  <2>3. handoffId = number /\ open' \cup dialled' = {}
    BY <2>1 DEF Inv, Requests, Progress, Settled
  <2>4. /\ sent' \in Seq(Nat \X Statuses)
        /\ \A i \in DOMAIN sent' : sent'[i][1] \in 0 .. number
        /\ \A i \in DOMAIN sent' :
              (i \in DOMAIN sent /\ sent'[i] = sent[i])
              \/ sent'[i] = <<handoffId, "failed">>
    BY <2>1, <2>2, OneMore
  <2>5. Requests' /\ Alive' /\ Progress' /\ Settled' /\ Reports'
    BY <2>1, <2>3, <2>4 DEF Inv, Requests, Alive, Progress, Settled, Reports,
                            HandlerSteps, Awaiting
  <2>6. ReportsFit'
    BY <2>1, <2>3, <2>4 DEF Inv, ReportsFit
  <2>7. QED BY <2>5, <2>6 DEF Inv
<1>8. CASE FailureReported
  BY <1>8, Frame DEF FailureReported, core, Awaiting
<1>9. CASE FallsBack
  BY <1>9, Frame DEF FallsBack, core
<1>10. CASE Completes
  BY <1>10, Frame DEF Completes, core
<1>11. QED BY <1>1, <1>2, <1>3, <1>4, <1>5, <1>6, <1>7, <1>8, <1>9, <1>10
              DEF Handler

LEMMA CarrierStep == Inv /\ CarrierDials => Inv'
<1>. SUFFICES ASSUME Inv, CarrierDials PROVE Inv'
  OBVIOUS
<1>1. PICK h \in open : dialled' = dialled \cup {h} /\ open' = open \ {h}
  BY DEF CarrierDials
<1>2. UNCHANGED <<number, handoffId, granted, asked, sent, step, clientUp>>
  BY DEF CarrierDials
<1>3. open' \cup dialled' = open \cup dialled
  BY <1>1
<1>4. Requests' /\ Alive' /\ Progress' /\ Settled' /\ Reports' /\ ReportsFit'
  BY <1>1, <1>2, <1>3 DEF Inv, Requests, Alive, Progress, Settled, Reports,
                          ReportsFit
<1>5. QED BY <1>4 DEF Inv

LEMMA Stutters == Inv /\ UNCHANGED vars => Inv'
BY Frame DEF vars, core

LEMMA Initially == Init => Inv
BY DEF Init, Inv, Requests, Alive, Progress, Settled, Reports, ReportsFit, None,
       HandlerSteps, Awaiting

\* What holds of requests and reports at every step of every call.
THEOREM HandoffInvariant == Spec => []Inv
<1>1. Inv /\ [Next]_vars => Inv'
  BY EngineStep, ReceiveStep, HandlerStep, StreamStep, CarrierStep, Stutters
     DEF Next
<1>2. QED BY Initially, <1>1, PTL DEF Spec

\* What the types say beyond Inv: the two channels, the flags and states.
Channels ==
    /\ engine \in [state : {"talking", "awaiting", "ended"}, asked : BOOLEAN,
                   calls : 0 .. MaxToolCalls, answering : BOOLEAN, lost : BOOLEAN]
    /\ toGateway \in Seq(Events) /\ toEngine \in Seq(Commands)

Flags ==
    /\ triggered \in BOOLEAN /\ buffered \in BOOLEAN
    /\ enabled \in BOOLEAN /\ idKnown \in BOOLEAN
    /\ stopping \in BOOLEAN /\ registered \in BOOLEAN /\ hungUp \in BOOLEAN
    /\ stream \in StreamSteps /\ handoff \in States

LEMMA ReportsType == Inv => sent \in Seq((0 .. number) \X Statuses)
<1>. SUFFICES ASSUME Inv PROVE sent \in Seq((0 .. number) \X Statuses)
  OBVIOUS
<1>1. sent \in Seq(Nat \X Statuses)
  BY DEF Inv, Reports
<1>2. \A i \in 1 .. Len(sent) : sent[i] \in (0 .. number) \X Statuses
  <2>. SUFFICES ASSUME NEW i \in 1 .. Len(sent)
                PROVE  sent[i] \in (0 .. number) \X Statuses
    OBVIOUS
  <2>1. i \in DOMAIN sent /\ sent[i] \in Nat \X Statuses
    BY <1>1
  <2>2. sent[i][1] \in 0 .. number
    BY <2>1 DEF Inv, Reports
  <2>3. QED BY <2>1, <2>2
<1>3. QED BY <1>1, <1>2

LEMMA ChannelSteps == Channels /\ [Next]_vars => Channels'
<1>. SUFFICES ASSUME Channels, [Next]_vars PROVE Channels'
  OBVIOUS
<1>. USE DEF Channels
<1>1. CASE Engine
  <2>1. MaxToolCalls \in Nat
    BY BoundAssumption
  <2>2. ASSUME NEW e \in Events, Sends(e) PROVE toGateway' \in Seq(Events)
    BY <2>2 DEF Sends
  <2>3. CASE EngineRequests
    <3>1. engine' = [engine EXCEPT !.state = "awaiting", !.asked = TRUE,
                                   !.lost = toGateway' = toGateway]
      BY <2>3 DEF EngineRequests
    <3>2. (toGateway' = toGateway) \in BOOLEAN
      OBVIOUS
    <3>3. engine' \in [state : {"talking", "awaiting", "ended"}, asked : BOOLEAN,
                       calls : 0 .. MaxToolCalls, answering : BOOLEAN, lost : BOOLEAN]
      BY <3>1, <3>2
    <3>4. UNCHANGED toEngine /\ toGateway' \in Seq(Events)
      BY <2>2, <2>3 DEF EngineRequests, Events
    <3>5. QED BY <3>3, <3>4
  <2>4. CASE EngineCallsTool
    <3>1. engine.calls + 1 \in 0 .. MaxToolCalls
      BY <2>1, <2>4 DEF EngineCallsTool
    <3>2. engine' = [engine EXCEPT !.calls = engine.calls + 1, !.answering = TRUE]
      BY <2>4 DEF EngineCallsTool
    <3>3. UNCHANGED toEngine /\ toGateway' \in Seq(Events)
      BY <2>2, <2>4 DEF EngineCallsTool, Events
    <3>4. QED BY <3>1, <3>2, <3>3
  <2>5. CASE EngineEndsAnswer
    BY <2>2, <2>5 DEF EngineEndsAnswer, Events
  <2>6. CASE CallerCancels
    BY <2>2, <2>6 DEF CallerCancels, Events
  <2>7. CASE EngineTakes
    <3>1. UNCHANGED toGateway /\ toEngine # <<>> /\ toEngine' = Tail(toEngine)
      BY <2>7 DEF EngineTakes
    <3>2. \/ engine' = engine
          \/ engine' = [engine EXCEPT !.state = "awaiting", !.lost = FALSE]
          \/ engine' = [engine EXCEPT !.state = "talking", !.lost = FALSE]
          \/ engine' = [engine EXCEPT !.state = "ended", !.answering = FALSE]
      BY <2>7 DEF EngineTakes
    <3>3. toEngine' \in Seq(Commands)
      BY <3>1
    <3>4. engine' \in [state : {"talking", "awaiting", "ended"}, asked : BOOLEAN,
                       calls : 0 .. MaxToolCalls, answering : BOOLEAN, lost : BOOLEAN]
      BY <3>2
    <3>5. QED BY <3>1, <3>3, <3>4
  <2>8. QED BY <1>1, <2>3, <2>4, <2>5, <2>6, <2>7 DEF Engine
<1>2. CASE Receive
  <2>1. UNCHANGED <<engine, toEngine>> /\ toGateway # <<>>
        /\ toGateway' = Tail(toGateway)
    BY <1>2 DEF Receive, ReceiveRequest, ReceiveToolCall, ReceiveEnd,
         ReceiveCancelled, Receives, TellsNobody
  <2>2. QED BY <2>1
<1>3. ASSUME \/ UNCHANGED toEngine
             \/ \E c \in Commands : Tell(c),
             UNCHANGED <<engine, toGateway>>
      PROVE  Channels'
  BY <1>3 DEF Tell
<1>4. CASE Handler
  <2>1. UNCHANGED <<engine, toGateway>>
    BY <1>4 DEF Handler, Acknowledges, ResolveRejects, ResolveUnfit,
         ResolveGrants, RequestsTransfer, TransferSucceeds, TransferUnsupported,
         TransferFails, FailureReported, FallsBack, Completes, HandlerOnly
  <2>2. UNCHANGED toEngine \/ Tell("ack") \/ Tell("fallback") \/ Tell("sessionEnd")
    BY <1>4 DEF Handler, Acknowledges, ResolveRejects, ResolveUnfit,
         ResolveGrants, RequestsTransfer, TransferSucceeds, TransferUnsupported,
         TransferFails, FailureReported, FallsBack, Completes, LeavesEngine,
         TellsNobody
  <2>3. QED BY <1>3, <2>1, <2>2 DEF Commands
<1>5. CASE Stream
  <2>1. UNCHANGED <<engine, toGateway>>
    BY <1>5 DEF Stream, Cleanup, HangUp, StreamStops, StreamDrops, SessionCloses,
       StopDrained, StopCutShort, CleanupEnds, CleanupCancels, CleanupReports,
       CleanupReported, EndsSession, CleanupDrained, StreamOnly
  <2>2. UNCHANGED toEngine \/ Tell("cancelled") \/ Tell("sessionEnd")
    BY <1>5 DEF Stream, Cleanup, HangUp, StreamStops, StreamDrops, SessionCloses,
       StopDrained, StopCutShort, CleanupEnds, CleanupCancels, CleanupReports,
       CleanupReported, EndsSession, CleanupDrained, TellsNobody
  <2>3. QED BY <1>3, <2>1, <2>2 DEF Commands
<1>6. CASE CarrierDials
  BY <1>6 DEF CarrierDials
<1>7. CASE UNCHANGED vars
  BY <1>7 DEF vars
<1>8. QED BY <1>1, <1>2, <1>4, <1>5, <1>6, <1>7 DEF Next

LEMMA FlagSteps == Flags /\ [Next]_vars => Flags'
<1>. SUFFICES ASSUME Flags, [Next]_vars PROVE Flags'
  OBVIOUS
<1>. USE DEF Flags, callVars, clientVars
<1>1. CASE Engine
  BY <1>1 DEF Engine, EngineRequests, EngineCallsTool, EngineEndsAnswer,
       CallerCancels, EngineTakes, EngineOnly
<1>2. CASE Receive
  <2>1. UNCHANGED <<callVars, stopping, registered, hungUp, stream>>
    BY <1>2 DEF Receive, ReceiveRequest, ReceiveToolCall, ReceiveEnd,
         ReceiveCancelled, Receives
  <2>2. triggered' \in BOOLEAN /\ buffered' \in BOOLEAN
    BY <1>2 DEF Receive, ReceiveRequest, ReceiveToolCall, ReceiveEnd,
         ReceiveCancelled
  <2>3. handoff' \in States
    BY <1>2 DEF Receive, ReceiveRequest, ReceiveToolCall, ReceiveEnd,
         ReceiveCancelled, Begins, States
  <2>4. QED BY <2>1, <2>2, <2>3
<1>3. CASE Handler
  <2>1. UNCHANGED <<buffered, callVars, registered, hungUp, stream>>
    BY <1>3 DEF Handler, Acknowledges, ResolveRejects, ResolveUnfit,
         ResolveGrants, RequestsTransfer, TransferSucceeds, TransferUnsupported,
         TransferFails, FailureReported, FallsBack, Completes, HandlerOnly
  <2>2. triggered' = triggered \/ triggered' = FALSE
    BY <1>3 DEF Handler, Acknowledges, ResolveRejects, ResolveUnfit,
         ResolveGrants, RequestsTransfer, TransferSucceeds, TransferUnsupported,
         TransferFails, FailureReported, FallsBack, Completes
  <2>3. stopping' = stopping \/ stopping' = TRUE
    BY <1>3 DEF Handler, Acknowledges, ResolveRejects, ResolveUnfit,
         ResolveGrants, RequestsTransfer, TransferSucceeds, TransferUnsupported,
         TransferFails, FailureReported, FallsBack, Completes
  <2>4. handoff' = handoff \/ handoff' \in States
    BY <1>3 DEF Handler, Acknowledges, ResolveRejects, ResolveUnfit,
         ResolveGrants, RequestsTransfer, TransferSucceeds, TransferUnsupported,
         TransferFails, FailureReported, FallsBack, Completes, States
  <2>5. QED BY <2>1, <2>2, <2>3, <2>4
<1>4. CASE Stream
  <2>1. UNCHANGED <<clientVars, callVars>>
    BY <1>4 DEF Stream, Cleanup, HangUp, StreamStops, StreamDrops,
         SessionCloses, StopDrained, StopCutShort, CleanupEnds, CleanupCancels,
         CleanupReports, CleanupReported, EndsSession, CleanupDrained,
         StreamOnly
  <2>2. /\ stopping' = stopping \/ stopping' = TRUE
        /\ registered' = registered \/ registered' = FALSE
    BY <1>4 DEF Stream, Cleanup, HangUp, StreamStops, StreamDrops,
         SessionCloses, StopDrained, StopCutShort, CleanupEnds, CleanupCancels,
         CleanupReports, CleanupReported, EndsSession, CleanupDrained
  <2>3. hungUp' = hungUp \/ hungUp' = TRUE
    BY <1>4 DEF Stream, Cleanup, HangUp, StreamStops, StreamDrops,
         SessionCloses, StopDrained, StopCutShort, CleanupEnds, CleanupCancels,
         CleanupReports, CleanupReported, EndsSession, CleanupDrained
  <2>4. stream' = stream \/ stream' \in StreamSteps
    BY <1>4 DEF Stream, Cleanup, HangUp, StreamStops, StreamDrops,
         SessionCloses, StopDrained, StopCutShort, CleanupEnds, CleanupCancels,
         CleanupReports, CleanupReported, EndsSession, CleanupDrained,
         StreamSteps
  <2>5. handoff' = handoff \/ handoff' \in States
    BY <1>4 DEF Stream, Cleanup, HangUp, StreamStops, StreamDrops,
         SessionCloses, StopDrained, StopCutShort, CleanupEnds, CleanupCancels,
         CleanupReports, CleanupReported, EndsSession, CleanupDrained,
         States
  <2>6. QED BY <2>1, <2>2, <2>3, <2>4, <2>5
<1>5. CASE CarrierDials
  BY <1>5 DEF CarrierDials
<1>6. CASE UNCHANGED vars
  BY <1>6 DEF vars
<1>7. QED BY <1>1, <1>2, <1>3, <1>4, <1>5, <1>6 DEF Next

\* The record names no handoff that has not begun.
LEMMA RecordSteps ==
    Inv /\ record \in 0 .. number /\ [Next]_vars => (record \in 0 .. number)'
<1>. SUFFICES ASSUME Inv, record \in 0 .. number, [Next]_vars
              PROVE  record' \in 0 .. number'
  OBVIOUS
<1>1. number \in Nat
  BY DEF Inv, Requests
<1>2. CASE Receive
  <2>1. record' = record /\ (number' = number \/ number' = number + 1)
    BY <1>2 DEF Receive, ReceiveRequest, ReceiveToolCall, ReceiveEnd,
         ReceiveCancelled, Receives, Begins
  <2>2. QED BY <1>1, <2>1
<1>3. CASE ~Receive
  <2>1. number' = number /\ (record' = record \/ record' = number)
    BY <1>3 DEF Next, vars, Engine, EngineRequests, EngineCallsTool,
       EngineEndsAnswer, CallerCancels, EngineTakes, EngineOnly, Handler,
       Acknowledges, ResolveRejects, ResolveUnfit, ResolveGrants,
       RequestsTransfer, TransferSucceeds, TransferUnsupported, TransferFails,
       FailureReported, FallsBack, Completes, HandlerOnly, Stream, Cleanup,
       HangUp, StreamStops, StreamDrops, SessionCloses, StopDrained,
       StopCutShort, CleanupEnds, CleanupCancels, CleanupReports,
       CleanupReported, EndsSession, CleanupDrained, StreamOnly, CarrierDials
  <2>2. QED BY <1>1, <2>1
<1>4. QED BY <1>2, <1>3

\* Every variable of the handoff keeps its type, the reports among them.
THEOREM HandoffTypes == Spec => []TypeOK
<1>. DEFINE Types == Channels /\ Flags /\ record \in 0 .. number
<1>1. Init => Types
  <2>. SUFFICES ASSUME Init PROVE Types
    OBVIOUS
  <2>1. Channels
    BY BoundAssumption DEF Init, Channels
  <2>2. Flags
    BY DEF Init, Flags, StreamSteps, States
  <2>3. record \in 0 .. number
    BY DEF Init, None
  <2>4. QED BY <2>1, <2>2, <2>3
<1>2. Inv /\ Types /\ [Next]_vars => Types'
  BY ChannelSteps, FlagSteps, RecordSteps
<1>3. Inv /\ Types => TypeOK
  BY ReportsType DEF Inv, Requests, Alive, Channels, Flags, TypeOK
<1>4. QED BY HandoffInvariant, <1>1, <1>2, <1>3, PTL DEF Spec

\* No handoff reported failed can still put the caller through, and none is
\* reported completed that the carrier was not asked for: the status reports of
\* on_human_handoff, retried and cut off at any await.
THEOREM ReportsAreTrue == Spec => []ReportsFit
<1>1. Inv => ReportsFit
  BY DEF Inv
<1>2. QED BY HandoffInvariant, <1>1, PTL

\* After the cleanup of the carrier's stream has closed the client, nothing of a
\* handoff runs on but the end of one that already left the engine.
THEOREM CleanupStopsHandoffs == Spec => []CleanupStopsHandoff
<1>1. Inv => CleanupStopsHandoff
  BY DEF Inv, Alive, CleanupStopsHandoff, HandlerSteps, Awaiting
<1>2. QED BY HandoffInvariant, <1>1, PTL

\* Every step of the gateway is one of the gate or none: on_human_handoff asks
\* the carrier once per grant, and for nobody while a caller may be put through.
THEOREM HandoffKeepsGate == Spec => GateIsKept
<1>. USE DEF Gate!vars
<1>1. Init => Gate!Init
  BY DEF Init, Gate!Init
<1>2. Inv /\ [Next]_vars => [Gate!Next]_(Gate!vars)
  <2>. SUFFICES ASSUME Inv, Next
                PROVE  Gate!Next \/ UNCHANGED <<granted, open, asked, dialled>>
    BY DEF vars
  <2>1. CASE Engine
    BY <2>1 DEF Engine, EngineRequests, EngineCallsTool, EngineEndsAnswer,
         CallerCancels, EngineTakes, EngineOnly, carrier
  <2>2. CASE Receive
    BY <2>2 DEF Receive, ReceiveRequest, ReceiveToolCall, ReceiveEnd,
         ReceiveCancelled, Receives, carrier
  <2>3. CASE ResolveGrants
    <3>1. granted' = granted \cup {number} /\ UNCHANGED <<open, asked, dialled>>
      BY <2>3 DEF ResolveGrants, carrier
    <3>2. number \notin granted
      BY <2>3 DEF ResolveGrants, Inv, Progress
    <3>3. QED BY <3>1, <3>2 DEF Gate!Next, Gate!Grant
  <2>4. CASE RequestsTransfer
    <3>1. /\ asked' = asked \cup {number} /\ open' = open \cup {number}
          /\ UNCHANGED <<granted, dialled>>
      BY <2>4 DEF RequestsTransfer
    <3>2. number \in granted \ asked /\ open = {} /\ dialled = {}
      BY <2>4 DEF RequestsTransfer, Inv, Progress, Settled, Alive, Awaiting
    <3>3. Gate!Ask(number)
      BY <3>1, <3>2 DEF Gate!Ask
    <3>4. QED BY <3>2, <3>3 DEF Gate!Next
  <2>5. CASE TransferFails
    <3>1. number \in open /\ open' = open \ {number}
          /\ UNCHANGED <<granted, asked, dialled>>
      BY <2>5 DEF TransferFails
    <3>2. number \in granted
      BY <3>1 DEF Inv, Requests
    <3>3. QED BY <3>1, <3>2 DEF Gate!Next, Gate!TurnDown
  <2>6. CASE Handler /\ ~ResolveGrants /\ ~RequestsTransfer /\ ~TransferFails
    BY <2>6 DEF Handler, Acknowledges, ResolveRejects, ResolveUnfit,
         TransferSucceeds, TransferUnsupported, FailureReported, FallsBack,
         Completes, carrier
  <2>7. CASE Stream
    BY <2>7 DEF Stream, Cleanup, HangUp, StreamStops, StreamDrops, SessionCloses,
       StopDrained, StopCutShort, CleanupEnds, CleanupCancels, CleanupReports,
       CleanupReported, EndsSession, CleanupDrained, StreamOnly, carrier
  <2>8. CASE CarrierDials
    <3>1. PICK h \in open : dialled' = dialled \cup {h} /\ open' = open \ {h}
      BY <2>8 DEF CarrierDials
    <3>2. h \in granted /\ UNCHANGED <<granted, asked>>
      BY <2>8 DEF CarrierDials, Inv, Requests
    <3>3. QED BY <3>1, <3>2 DEF Gate!Next, Gate!Bridge
  <2>9. QED BY <2>1, <2>2, <2>3, <2>4, <2>5, <2>6, <2>7, <2>8 DEF Next
<1>3. QED BY HandoffInvariant, <1>1, <1>2, PTL DEF Spec, GateIsKept, Gate!Spec
=============================================================================
