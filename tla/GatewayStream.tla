---------------------------- MODULE GatewayStream ----------------------------
(***************************************************************************)
(* The carrier's stream of one call in the telephony gateway: handle_stream*)
(* with its inbound, outbound and heartbeat loops, the Voice Engine        *)
(* client's receive loop, which fills the outbound queue, and what ends    *)
(* them.  A step is what one coroutine does between two suspension points. *)
(*                                                                         *)
(* The engine is PlaybackFloor, the promise TurnPipeline keeps, with the   *)
(* events it sends on the way to the gateway.  A generation is its number. *)
(* Handoffs are the subject of Handoff: here one may end the call.         *)
(***************************************************************************)
EXTENDS Integers, Sequences, FiniteSets, Positions

CONSTANTS
    MaxGeneration, \* bound: responses of a call
    QueueSize,     \* max_audio_queue_size (500 in the code)
    LinkSize,      \* bound: events on their way to the gateway
    FrameChunks    \* carrier packets of 20 ms in one frame of the engine

ASSUME SizesAssumption ==
    /\ MaxGeneration \in Nat \ {0, 1}
    /\ QueueSize \in Nat \ {0} /\ LinkSize \in Nat \ {0}
    /\ FrameChunks \in Nat \ {0}

Generations == 1 .. MaxGeneration
None  == 0
Loops == {"inbound", "outbound", "heartbeat"}

VARIABLES
    \* the engine
    newest, silenced, \* see PlaybackFloor
    link,        \* events on their way to the gateway
    \* VoiceEngineWsClient
    open,        \* its receive loop runs
    told,        \* it sent session.end
    waiting,     \* the frame that waits up to 100 ms for room in the queue
    \* RealtimeVoiceSession
    exotel,      \* the peer is Exotel's AgentStream, not a generic client
    queue,       \* outbound_audio_queue: the generations of its frames
    cancelled,   \* cancelled_generations, the client's and the session's
    interrupted, \* interruption_event.is_set()
    stopping,    \* cancellation_event.is_set()
    \* handle_stream and its loops
    loops,       \* loops that have not ended
    inbound,     \* where the inbound loop is suspended
    sender,      \* the frame the outbound loop paces out, its chunks left
    stream,      \* where handle_stream is
    registered,  \* the transport knows the client
    \* the carrier
    connected,   \* its WebSocket
    sent         \* what it was sent audio of since it was last cleared, if it
                 \* is still connected

engineVars == <<newest, silenced>>
clientVars == <<open, told, waiting>>
loopVars   == <<loops, inbound, stream, registered>>
vars == <<engineVars, link, clientVars, exotel, queue, cancelled, interrupted,
          stopping, loopVars, sender, connected, sent>>

NoFrame == [gen |-> None, left |-> 0]

\* Who speaks is left open: whichever response may take the floor.
Engine == INSTANCE PlaybackFloor WITH floor <- None, over <- ~open

Init ==
    /\ open = TRUE /\ Engine!Init /\ link = <<>>
    /\ told = FALSE /\ waiting = None
    /\ exotel \in BOOLEAN
    /\ queue = <<>> /\ cancelled = {} /\ interrupted = FALSE
    /\ stopping = FALSE
    /\ loops = Loops /\ inbound = "receive" /\ sender = NoFrame
    /\ stream = "streaming" /\ registered = TRUE
    /\ connected = TRUE /\ sent = {}

-----------------------------------------------------------------------------
(* The Voice Engine                                                         *)

Event(kind, g) == [kind |-> kind, gen |-> g]
Send(e)        == Len(link) < LinkSize /\ link' = Append(link, e)
EngineSide     == UNCHANGED <<clientVars, exotel, queue, cancelled, interrupted,
                              stopping, loopVars, sender, connected, sent>>

EngineTurns ==
    /\ newest < MaxGeneration
    /\ EngineSide /\ Engine!Open
    /\ UNCHANGED link

EngineSpeaks(g) ==
    /\ open /\ g \in (1 .. newest) \ silenced
    /\ Send(Event("audio", g))
    /\ UNCHANGED engineVars /\ EngineSide

\* The first turn's response may escape, see PlaybackFloor.
Silences == silenced' \in {silenced \cup (2 .. newest), 1 .. newest}

\* A barge-in names the turn that is current.  Audio its flush finds in the
\* engine's event queue is gone, what the writer has sent is not.
EngineInterrupted ==
    /\ newest < MaxGeneration
    /\ EngineSide /\ Silences /\ Engine!Interrupt
    /\ Len(link) < LinkSize
    /\ \E written \in 0 .. Len(link) :
          LET Stays == {i \in DOMAIN link : i <= written \/ link[i].kind # "audio"}
          IN  link' = Append(Picked(link, Stays), Event("cancelled", newest))

-----------------------------------------------------------------------------
(* The client's receive loop                                                *)

\* Frames of generation g leave the queue.
Without(q, g) == Picked(q, {i \in DOMAIN q : q[i] # g})

Takes(kind) ==
    /\ open /\ waiting = None
    /\ link # <<>> /\ Head(link).kind = kind
    /\ link' = Tail(link)
    /\ UNCHANGED <<engineVars, open, told, exotel, stopping, loopVars, sender,
                   connected>>

\* Mutant: audio of a cancelled generation is queued like any other.
HeedsAll(g) == TRUE

Heeds(g) == g \notin cancelled

\* Mutant: the queue holds one frame too many.
HasRoomForOneMore == Len(queue) <= QueueSize

HasRoom == Len(queue) < QueueSize

\* A full queue makes the receive loop wait.
ClientTakesAudio ==
    /\ Takes("audio")
    /\ LET g == Head(link).gen IN
       IF ~Heeds(g) THEN UNCHANGED <<queue, waiting>>
       ELSE IF HasRoom
       THEN queue' = Append(queue, g) /\ UNCHANGED waiting
       ELSE waiting' = g /\ UNCHANGED queue
    /\ UNCHANGED <<cancelled, interrupted, sent>>

ClientWaits ==
    /\ waiting # None /\ waiting' = None
    /\ UNCHANGED <<engineVars, link, open, told, exotel, cancelled,
                   interrupted, stopping, loopVars, sender, connected, sent>>

ClientQueues == ClientWaits /\ HasRoom /\ queue' = Append(queue, waiting)

\* Mutant: the client waits for room as long as it takes.
ClientKeepsWaiting == ClientQueues

\* The 100 ms are over.
ClientDrops == ClientWaits /\ UNCHANGED queue

\* on_response_cancelled: the generation named is purged and the carrier told
\* to drop what it has not played.
ClientTakesCancelled ==
    /\ Takes("cancelled")
    /\ LET g == Head(link).gen IN
       /\ cancelled' = cancelled \cup {g}
       /\ queue' = Without(queue, g)
    /\ interrupted' = TRUE
    /\ sent' = {}
    /\ UNCHANGED waiting

ClosesEngine == open' = FALSE /\ waiting' = None /\ link' = <<>>

\* The engine closes the connection, or it is lost.
EngineCloses ==
    /\ open /\ ClosesEngine
    /\ UNCHANGED <<engineVars, told, exotel, queue, cancelled, interrupted,
                   stopping, loopVars, sender, connected, sent>>

-----------------------------------------------------------------------------
(* The outbound loop                                                        *)

\* A loop tests the cancellation event before it goes round again.
GoesRound(l) == loops' = IF stopping THEN loops \ {l} ELSE loops

SenderOnly == UNCHANGED <<engineVars, link, clientVars, exotel, cancelled,
                          stopping, inbound, stream, registered, connected>>

\* Mutant: an interruption is remembered until the next one.
StaysInterrupted == UNCHANGED interrupted

Rearmed == interrupted' = FALSE

SenderGets ==
    /\ "outbound" \in loops /\ sender = NoFrame /\ queue # <<>>
    /\ queue' = Tail(queue)
    /\ IF Head(queue) \in cancelled
       THEN GoesRound("outbound") /\ UNCHANGED <<sender, interrupted>>
       ELSE /\ sender' = [gen  |-> Head(queue),
                          left |-> IF exotel THEN FrameChunks ELSE 1]
            /\ Rearmed
            /\ UNCHANGED loops
    /\ UNCHANGED sent /\ SenderOnly

\* Mutant: only the end of the call cuts.
CutIfStopping == stopping

\* After the pause that paces a packet; a generic client's frame is not cut.
Cut == stopping \/ (exotel /\ (interrupted \/ sender.gen \in cancelled))

SenderSends ==
    /\ sender # NoFrame
    /\ IF Cut \/ (connected /\ sender.left = 1)
       THEN sender' = NoFrame /\ GoesRound("outbound")
       ELSE IF connected
       THEN sender' = [sender EXCEPT !.left = @ - 1] /\ UNCHANGED loops
       ELSE sender' = NoFrame /\ loops' = loops \ {"outbound"}
    /\ sent' = IF Cut \/ ~connected THEN sent ELSE sent \cup {sender.gen}
    /\ UNCHANGED <<queue, interrupted>> /\ SenderOnly

-----------------------------------------------------------------------------
(* The inbound and the heartbeat loop                                       *)

InboundOnly == UNCHANGED <<engineVars, exotel, cancelled, stream, sender,
                           connected, sent>>

\* A message that is no event, no frame or too large is read and forgotten, and so
\* is a digit, which the transport drops.
Reads == "inbound" \in loops /\ inbound = "receive" /\ connected

\* Caller audio goes straight on to the engine, which may be slow to take it.
CallerSpeaks ==
    /\ Reads /\ inbound' = "forwarding"
    /\ UNCHANGED <<clientVars, link, queue, interrupted, stopping, loops,
                   registered>>
    /\ InboundOnly

Forwarded ==
    /\ "inbound" \in loops /\ inbound = "forwarding"
    /\ inbound' = "receive" /\ GoesRound("inbound")
    /\ UNCHANGED <<clientVars, link, queue, interrupted, stopping,
                   registered>>
    /\ InboundOnly

\* "clear" of Exotel, INTERRUPT of a generic client: no generation is named.
CarrierClears ==
    /\ Reads /\ GoesRound("inbound")
    /\ queue' = <<>>
    /\ interrupted' = (interrupted \/ ~exotel)
    /\ UNCHANGED <<clientVars, link, stopping, inbound, registered>>
    /\ InboundOnly

\* "stop" of Exotel: the engine's session is closed, with half a second for
\* its last events.
CarrierStops ==
    /\ Reads /\ exotel
    /\ registered' = FALSE
    /\ IF registered /\ open
       THEN told' = TRUE /\ inbound' = "closing" /\ UNCHANGED <<stopping, loops>>
       ELSE /\ stopping' = TRUE /\ loops' = loops \ {"inbound"}
            /\ UNCHANGED <<told, inbound>>
    /\ UNCHANGED <<open, waiting, link, queue, interrupted>> /\ InboundOnly

StopDrained ==
    /\ "inbound" \in loops /\ inbound = "closing"
    /\ ClosesEngine
    /\ stopping' = TRUE /\ loops' = loops \ {"inbound"}
    /\ inbound' = "receive"
    /\ UNCHANGED <<told, queue, interrupted, registered>>
    /\ InboundOnly

SeesDisconnect ==
    /\ "inbound" \in loops /\ inbound = "receive" /\ ~connected
    /\ loops' = loops \ {"inbound"}
    /\ UNCHANGED <<clientVars, link, queue, interrupted, stopping, inbound,
                   registered>>
    /\ InboundOnly

\* Only a generic client is sent pings, which fail when it is gone.
HeartbeatEnds ==
    /\ "heartbeat" \in loops /\ (stopping \/ (~exotel /\ ~connected))
    /\ loops' = loops \ {"heartbeat"}
    /\ UNCHANGED <<clientVars, link, queue, interrupted, stopping, inbound,
                   registered>>
    /\ InboundOnly

-----------------------------------------------------------------------------
(* handle_stream and what else ends a call                                  *)

StreamOnly == UNCHANGED <<engineVars, exotel, cancelled, interrupted>>
Disconnects == connected' = FALSE /\ sent' = {}
StaysConnected == UNCHANGED <<connected, sent>>

\* Mutant: handle_stream waits for all of its loops.
AllDone == loops = {}

\* asyncio.wait(..., FIRST_COMPLETED)
FirstDone == loops # Loops

StreamWakes ==
    /\ stream = "streaming" /\ FirstDone
    /\ stream' = "cancelling"
    /\ UNCHANGED <<clientVars, link, queue, stopping, loops, inbound,
                   registered, sender>>
    /\ StaysConnected /\ StreamOnly

\* A loop that is left is cancelled and waited for.  Cancelled in its drain,
\* the inbound loop closes neither the client nor the call.
CancelsLoop(l) ==
    /\ stream = "cancelling" /\ l \in loops
    /\ loops' = loops \ {l}
    /\ sender' = IF l = "outbound" THEN NoFrame ELSE sender
    /\ inbound' = IF l = "inbound" THEN "receive" ELSE inbound
    /\ UNCHANGED <<clientVars, link, queue, stopping, stream,
                   registered>>
    /\ StaysConnected /\ StreamOnly

\* Mutant: the carrier's connection is left open.
FinishConnected == stream' = "closed" /\ queue' = <<>> /\ StaysConnected

Finish == stream' = "closed" /\ queue' = <<>> /\ Disconnects

CleanupBegins ==
    /\ stream = "cancelling" /\ loops = {}
    /\ registered' = FALSE
    /\ IF registered /\ open
       THEN /\ told' = TRUE /\ stream' = "draining"
            /\ UNCHANGED queue /\ StaysConnected
       ELSE Finish /\ UNCHANGED told
    /\ UNCHANGED <<open, waiting, link, stopping, loops, inbound, sender>>
    /\ StreamOnly

StreamDrained ==
    /\ stream = "draining"
    /\ ClosesEngine /\ Finish
    /\ UNCHANGED <<told, stopping, loops, inbound, registered, sender>>
    /\ StreamOnly

\* RealtimeVoiceSession.close, of the pruner or the shutdown.
SessionCloses ==
    /\ ~stopping /\ stopping' = TRUE
    /\ queue' = <<>> /\ Disconnects
    /\ IF stream \in {"streaming", "cancelling"}
       THEN loops' = {} /\ sender' = NoFrame /\ inbound' = "receive"
       ELSE UNCHANGED <<loops, sender, inbound>>
    /\ UNCHANGED <<clientVars, link, stream, registered>>
    /\ StreamOnly

\* A handoff is completed inside the receive loop: see Handoff.
TransferCompletes ==
    /\ open /\ waiting = None /\ ~stopping
    /\ ClosesEngine /\ told' = TRUE
    /\ stopping' = TRUE /\ Disconnects
    /\ UNCHANGED <<queue, loops, inbound, stream, registered, sender>>
    /\ StreamOnly

CallerHangsUp ==
    /\ connected /\ Disconnects
    /\ UNCHANGED <<clientVars, link, queue, stopping, loops, inbound, stream,
                   registered, sender>>
    /\ StreamOnly

-----------------------------------------------------------------------------
(* Specification *)

Client  == ClientTakesAudio \/ ClientTakesCancelled \/ ClientQueues \/ ClientDrops
Sender  == SenderGets \/ SenderSends
Cleanup == StreamWakes \/ (\E l \in Loops : CancelsLoop(l)) \/ CleanupBegins
           \/ StreamDrained
Carrier == CallerSpeaks \/ CarrierClears \/ CarrierStops \/ CallerHangsUp

Next == \/ EngineTurns \/ EngineInterrupted \/ EngineCloses
        \/ \E g \in Generations : EngineSpeaks(g)
        \/ Client \/ Sender
        \/ Forwarded \/ StopDrained \/ SeesDisconnect \/ HeartbeatEnds
        \/ Cleanup \/ SessionCloses \/ TransferCompletes \/ Carrier

\* Ready coroutines run and timers fire; carrier, caller and engine owe nothing.
Fairness ==
    /\ WF_vars(Client) /\ WF_vars(Sender) /\ WF_vars(Cleanup)
    /\ WF_vars(Forwarded \/ StopDrained \/ SeesDisconnect)
    /\ WF_vars(HeartbeatEnds)

Spec == Init /\ [][Next]_vars /\ Fairness

-----------------------------------------------------------------------------
(* Properties *)

TypeOK ==
    /\ newest \in Generations
    /\ silenced \subseteq Generations
    /\ {open, told, exotel, interrupted, stopping, registered,
        connected} \subseteq BOOLEAN
    /\ link \in Seq([kind : {"audio", "cancelled"}, gen : Generations])
    /\ Len(link) <= LinkSize
    /\ cancelled \subseteq Generations
    /\ waiting \in Generations \cup {None}
    /\ queue \in Seq(Generations) /\ Len(queue) <= QueueSize
    /\ loops \subseteq Loops /\ inbound \in {"receive", "forwarding", "closing"}
    /\ sender \in [gen : Generations \cup {None}, left : 0 .. FrameChunks]
    /\ stream \in {"streaming", "cancelling", "draining", "closed"}
    /\ sent \subseteq Generations

\* Once the engine has taken a response back, none of its frames waits in the
\* gateway: what comes late is refused, what was queued is purged.
NoCancelledFrames ==
    waiting \notin cancelled /\ \A i \in DOMAIN queue : queue[i] \notin cancelled

\* The carrier holds no audio of a response that was taken back: the frame
\* that was being paced out when "clear" went cannot slip in behind it.  A
\* generic client may still be sent that one frame.
CarrierIsClear ==
    exotel => sent \cap cancelled = {}

\* When the stream is over its loops, the carrier's connection and the
\* transport's entry are gone; if the client or frames are left, the engine
\* was told to end the session they belong to.
TeardownIsComplete ==
    stream = "closed" =>
        /\ loops = {} /\ ~connected /\ ~registered
        /\ (open \/ queue # <<>>) => told

\* One loop that ends, or the end of the call, takes the whole stream down.
StreamEnds == (loops # Loops \/ stopping) ~> stream = "closed"

\* An interruption gets through to the client although audio of a full queue
\* may be before it, also when nobody empties the queue any more.
InterruptionArrives ==
    \A g \in Generations :
        (open /\ Event("cancelled", g) \in {link[i] : i \in DOMAIN link})
            ~> (g \in cancelled \/ ~open)
=============================================================================
