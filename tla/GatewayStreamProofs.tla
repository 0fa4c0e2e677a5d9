------------------------- MODULE GatewayStreamProofs -------------------------
(***************************************************************************)
(* Proofs about GatewayStream, for any number of responses and any sizes   *)
(* of queue, link and frames.                                              *)
(***************************************************************************)
EXTENDS GatewayStream, PositionsProofs, TLAPS

Events == [kind : {"audio", "cancelled"}, gen : Generations]

\* A frame in hand has packets left, and the outbound loop to send them.
Pacing ==
    \/ sender = NoFrame
    \/ /\ sender \in [gen : Generations, left : 1 .. FrameChunks]
       /\ "outbound" \in loops

\* Only a connected client holds a frame for which there was no room, and the
\* transport forgets a client that is open only after it was told to end.
ClientKept ==
    /\ waiting # None => open
    /\ open /\ ~registered => told

\* The cleanup drains the engine when all loops are gone.
Draining == stream = "draining" => loops = {} /\ ~registered /\ told

Inv ==
    /\ TypeOK
    /\ Pacing /\ ClientKept /\ Draining
    /\ NoCancelledFrames /\ CarrierIsClear /\ TeardownIsComplete

-----------------------------------------------------------------------------
(* Queues *)

LEMMA EventType ==
    ASSUME NEW kind \in {"audio", "cancelled"}, NEW g \in Generations
    PROVE  Event(kind, g) \in Events
  BY DEF Event, Events

LEMMA LinkAppended ==
    ASSUME TypeOK, NEW l \in Seq(Events), Len(l) < LinkSize, NEW e \in Events
    PROVE  /\ Append(l, e) \in Seq(Events)
           /\ Len(Append(l, e)) <= LinkSize
  BY SizesAssumption

\* What is on the way, read.
LEMMA LinkRead ==
    ASSUME TypeOK, link # <<>>
    PROVE  /\ Head(link).gen \in Generations
           /\ Tail(link) \in Seq(Events) /\ Len(Tail(link)) <= LinkSize
<1>1. link \in Seq(Events) /\ Len(link) <= LinkSize
  BY DEF TypeOK, Events
<1>2. Head(link) \in Events /\ Tail(link) \in Seq(Events)
  BY <1>1
<1>3. Len(Tail(link)) <= LinkSize
  BY <1>1, SizesAssumption
<1>4. QED BY <1>2, <1>3 DEF Events

\* The purge of one generation leaves nothing of it and nothing new.
LEMMA Purged ==
    ASSUME NEW q \in Seq(Generations), NEW g
    PROVE  /\ Without(q, g) \in Seq(Generations)
           /\ Len(Without(q, g)) <= Len(q)
           /\ \A k \in DOMAIN Without(q, g) :
                 /\ Without(q, g)[k] # g
                 /\ \E i \in DOMAIN q : Without(q, g)[k] = q[i]
<1> DEFINE K == {i \in DOMAIN q : q[i] # g}
<1>1. K \in SUBSET DOMAIN q /\ \A i \in K : i \in DOMAIN q /\ q[i] # g
  OBVIOUS
<1>2. Without(q, g) = Picked(q, K)
  BY DEF Without
<1>. HIDE DEF K
<1>3. QED BY <1>1, <1>2, PickedType

\* An empty queue and an empty link are of their types.
LEMMA EmptyIsTyped ==
    ASSUME NEW q, q = <<>>
    PROVE  /\ q \in Seq(Events) /\ Len(q) <= LinkSize
           /\ q \in Seq(Generations) /\ Len(q) <= QueueSize
           /\ DOMAIN q = {}
  BY SizesAssumption

-----------------------------------------------------------------------------
(* The engine *)

\* The engine's steps change nothing but its own state and what is on its way.
LEMMA EngineFrame ==
    ASSUME Inv, EngineSide,
           newest' \in Generations, silenced' \subseteq Generations,
           link' \in Seq(Events), Len(link') <= LinkSize
    PROVE  Inv'
  BY DEF Inv, EngineSide, clientVars, loopVars, TypeOK, Events, Pacing,
         ClientKept, Draining, NoCancelledFrames, CarrierIsClear,
         TeardownIsComplete

LEMMA EngineStep ==
    ASSUME Inv, \/ EngineTurns \/ EngineInterrupted
                \/ \E g \in Generations : EngineSpeaks(g)
    PROVE  Inv'
<1>1. /\ newest \in Generations /\ silenced \subseteq Generations
      /\ link \in Seq(Events) /\ Len(link) <= LinkSize
      /\ MaxGeneration \in Nat /\ LinkSize \in Nat
  BY SizesAssumption DEF Inv, TypeOK, Events
<1>2. newest < MaxGeneration => newest + 1 \in Generations
  BY <1>1 DEF Generations
<1>3. CASE EngineTurns
  BY <1>1, <1>2, <1>3, EngineFrame DEF EngineTurns, Engine!Open
<1>4. ASSUME NEW g \in Generations, EngineSpeaks(g)
      PROVE  Inv'
  <2>1. /\ EngineSide /\ UNCHANGED <<newest, silenced>>
        /\ Len(link) < LinkSize /\ link' = Append(link, Event("audio", g))
    BY <1>4 DEF EngineSpeaks, Send, engineVars
  <2>2. link' \in Seq(Events) /\ Len(link') <= LinkSize
    BY <1>1, <2>1, EventType, LinkAppended DEF Inv
  <2>3. QED BY <1>1, <2>1, <2>2, EngineFrame
<1>5. CASE EngineInterrupted
  <2>1. /\ EngineSide /\ newest' = newest + 1 /\ newest < MaxGeneration
        /\ silenced' \in {silenced \cup (2 .. newest), 1 .. newest}
    BY <1>5 DEF EngineInterrupted, Engine!Interrupt, Silences
  <2>2. PICK written \in 0 .. Len(link) :
           link' = Append(Picked(link, {i \in DOMAIN link :
                       i <= written \/ link[i].kind # "audio"}),
                          Event("cancelled", newest))
    BY <1>5 DEF EngineInterrupted
  <2>3. Len(link) < LinkSize
    BY <1>5 DEF EngineInterrupted
  <2> DEFINE Stays == {i \in DOMAIN link : i <= written \/ link[i].kind # "audio"}
             l == Picked(link, Stays)
  <2>4. l \in Seq(Events) /\ Len(l) <= Len(link)
    <3>1. Stays \in SUBSET DOMAIN link
      OBVIOUS
    <3>. HIDE DEF Stays
    <3>2. QED BY <1>1, <3>1, PickedType
  <2>5. link' = Append(l, Event("cancelled", newest))
    BY <2>2
  <2>. HIDE DEF l
  <2>6. Len(l) < LinkSize
    BY <1>1, <2>3, <2>4
  <2>7. link' \in Seq(Events) /\ Len(link') <= LinkSize
    BY <1>1, <2>4, <2>5, <2>6, EventType, LinkAppended DEF Inv
  <2>8. newest' \in Generations /\ silenced' \subseteq Generations
    BY <1>1, <1>2, <2>1 DEF Generations
  <2>9. QED BY <2>1, <2>7, <2>8, EngineFrame
<1>6. QED BY <1>3, <1>4, <1>5

-----------------------------------------------------------------------------
(* The client's receive loop *)

LEMMA ClientTakesAudioStep ==
    ASSUME Inv, ClientTakesAudio
    PROVE  Inv'
<1>1. /\ Head(link).gen \in Generations
      /\ link' \in Seq(Events) /\ Len(link') <= LinkSize
  BY LinkRead DEF Inv, ClientTakesAudio, Takes
<1>2. /\ open /\ waiting = None /\ open' = open
      /\ UNCHANGED <<newest, silenced, told, exotel, stopping, cancelled,
                     interrupted, sent, sender, connected>>
      /\ UNCHANGED <<loops, inbound, stream, registered>>
  BY DEF ClientTakesAudio, Takes, engineVars, loopVars
<1> DEFINE g == Head(link).gen
<1>3. CASE UNCHANGED <<queue, waiting>>
  BY <1>1, <1>2, <1>3 DEF Inv, TypeOK, Events, Pacing, ClientKept, Draining,
     NoCancelledFrames, CarrierIsClear, TeardownIsComplete
<1>4. CASE g \notin cancelled /\ waiting' = g /\ queue' = queue
  BY <1>1, <1>2, <1>4 DEF Inv, TypeOK, Events, Pacing, ClientKept, Draining,
     NoCancelledFrames, CarrierIsClear, TeardownIsComplete
<1>5. CASE g \notin cancelled /\ HasRoom /\ queue' = Append(queue, g) /\ waiting' = waiting
  <2>1. /\ queue' \in Seq(Generations) /\ Len(queue') <= QueueSize
        /\ \A i \in DOMAIN queue' : queue'[i] \notin cancelled
    <3>1. queue \in Seq(Generations) /\ Len(queue) < QueueSize
      BY <1>5 DEF Inv, TypeOK, HasRoom
    <3>2. \A i \in DOMAIN queue' : queue'[i] = g \/ (i \in DOMAIN queue /\ queue'[i] = queue[i])
      BY <1>1, <1>5, <3>1
    <3>3. queue' \in Seq(Generations) /\ Len(queue') <= QueueSize
      BY <1>1, <1>5, <3>1, SizesAssumption
    <3>4. QED BY <1>5, <3>2, <3>3 DEF Inv, NoCancelledFrames
  <2>2. QED
    BY <1>1, <1>2, <1>5, <2>1 DEF Inv, TypeOK, Events, Pacing, ClientKept,
       Draining, NoCancelledFrames, CarrierIsClear, TeardownIsComplete
<1>6. QED BY <1>3, <1>4, <1>5 DEF ClientTakesAudio, Heeds

LEMMA ClientTakesCancelledStep ==
    ASSUME Inv, ClientTakesCancelled
    PROVE  Inv'
<1> DEFINE g == Head(link).gen
<1>1. /\ g \in Generations
      /\ link' \in Seq(Events) /\ Len(link') <= LinkSize
  BY LinkRead DEF Inv, ClientTakesCancelled, Takes
<1>2. /\ open /\ waiting = None /\ open' = open
      /\ cancelled' = cancelled \cup {g} /\ queue' = Without(queue, g)
      /\ sent' = {} /\ interrupted' = TRUE
      /\ UNCHANGED <<newest, silenced, told, exotel, stopping, waiting, sender, connected>>
      /\ UNCHANGED <<loops, inbound, stream, registered>>
  BY DEF ClientTakesCancelled, Takes, engineVars, loopVars
<1>3. queue \in Seq(Generations) /\ Len(queue) <= QueueSize
  BY DEF Inv, TypeOK
<1>. HIDE DEF g
<1>4. /\ queue' \in Seq(Generations) /\ Len(queue') <= Len(queue)
      /\ \A k \in DOMAIN queue' :
            queue'[k] # g /\ \E i \in DOMAIN queue : queue'[k] = queue[i]
  BY <1>2, <1>3, Purged
<1>5. Len(queue') <= QueueSize
  BY <1>3, <1>4, SizesAssumption
<1>6. NoCancelledFrames'
  <2>1. waiting' \notin cancelled'
    BY <1>1, <1>2 DEF Inv, NoCancelledFrames, Generations, None
  <2>2. QED BY <1>2, <1>4, <2>1 DEF Inv, NoCancelledFrames
<1>7. TypeOK'
  BY <1>1, <1>2, <1>4, <1>5 DEF Inv, TypeOK, Events
<1>8. QED
  BY <1>1, <1>2, <1>6, <1>7 DEF Inv, Pacing, ClientKept, Draining,
     CarrierIsClear, TeardownIsComplete

LEMMA ClientWaitsStep ==
    ASSUME Inv, ClientQueues \/ ClientDrops
    PROVE  Inv'
<1>1. /\ waiting # None /\ waiting' = None /\ open
      /\ UNCHANGED <<newest, silenced, link, open, told, exotel, cancelled,
                     interrupted, stopping, sender, connected, sent>>
      /\ UNCHANGED <<loops, inbound, stream, registered>>
  BY DEF Inv, ClientKept, ClientQueues, ClientDrops, ClientWaits, engineVars, loopVars
<1>2. None \notin cancelled /\ waiting \in Generations /\ waiting \notin cancelled
  BY <1>1 DEF Inv, TypeOK, Generations, None, NoCancelledFrames
<1>3. queue \in Seq(Generations) /\ Len(queue) <= QueueSize
  BY DEF Inv, TypeOK
<1>4. /\ queue' \in Seq(Generations) /\ Len(queue') <= QueueSize
      /\ \A i \in DOMAIN queue' : queue'[i] \notin cancelled
  <2>1. CASE queue' = queue
    BY <1>3, <2>1 DEF Inv, NoCancelledFrames
  <2>2. CASE HasRoom /\ queue' = Append(queue, waiting)
    <3>1. Len(queue) < QueueSize
      BY <2>2 DEF HasRoom
    <3>2. queue' \in Seq(Generations) /\ Len(queue') <= QueueSize
      BY <1>2, <1>3, <2>2, <3>1, SizesAssumption
    <3>3. \A i \in DOMAIN queue' :
             queue'[i] = waiting \/ (i \in DOMAIN queue /\ queue'[i] = queue[i])
      BY <1>2, <1>3, <2>2
    <3>4. QED BY <1>2, <3>2, <3>3 DEF Inv, NoCancelledFrames
  <2>3. QED BY <2>1, <2>2 DEF ClientQueues, ClientDrops
<1>5. QED
  BY <1>1, <1>2, <1>4 DEF Inv, TypeOK, Pacing, ClientKept, Draining,
     NoCancelledFrames, CarrierIsClear, TeardownIsComplete

LEMMA EngineClosesStep ==
    ASSUME Inv, EngineCloses
    PROVE  Inv'
<1>1. open' = FALSE /\ waiting' = None /\ link' = <<>>
  BY DEF EngineCloses, ClosesEngine
<1>2. None \notin cancelled /\ link' \in Seq(Events) /\ Len(link') <= LinkSize
  BY <1>1, SizesAssumption DEF Inv, TypeOK, Generations, None
<1>3. QED
  BY <1>1, <1>2 DEF Inv, EngineCloses, engineVars, loopVars, TypeOK, Events,
     Pacing, ClientKept, Draining, NoCancelledFrames, CarrierIsClear,
     TeardownIsComplete

-----------------------------------------------------------------------------
(* The outbound loop *)

LEMMA SenderGetsStep ==
    ASSUME Inv, SenderGets
    PROVE  Inv'
<1>1. queue \in Seq(Generations) /\ queue # <<>> /\ queue' = Tail(queue)
  BY DEF Inv, TypeOK, SenderGets
<1>2. /\ queue' \in Seq(Generations) /\ Len(queue') <= QueueSize
      /\ Head(queue) \in Generations
      /\ \A i \in DOMAIN queue' : queue'[i] \notin cancelled
  <2>1. queue' \in Seq(Generations) /\ Len(queue') <= Len(queue) /\ Head(queue) \in Generations
    BY <1>1
  <2>2. \A i \in DOMAIN queue' : i + 1 \in DOMAIN queue /\ queue'[i] = queue[i + 1]
    BY <1>1
  <2>3. Len(queue') <= QueueSize
    BY <1>1, <2>1, SizesAssumption DEF Inv, TypeOK
  <2>4. QED BY <2>1, <2>2, <2>3 DEF Inv, NoCancelledFrames
<1>3. sender' = NoFrame \/ sender' \in [gen : Generations, left : 1 .. FrameChunks]
  BY <1>2, SizesAssumption DEF SenderGets
<1>4. /\ Pacing' /\ loops' \subseteq loops
      /\ sender' \in [gen : Generations \cup {None}, left : 0 .. FrameChunks]
  <2>1. loops' \subseteq loops /\ (sender' = NoFrame \/ loops' = loops)
    BY DEF SenderGets, GoesRound
  <2>2. NoFrame \in [gen : Generations \cup {None}, left : 0 .. FrameChunks]
    BY SizesAssumption DEF NoFrame
  <2>3. sender' \in [gen : Generations \cup {None}, left : 0 .. FrameChunks]
    BY <1>3, <2>2, SizesAssumption
  <2>4. "outbound" \in loops
    BY DEF SenderGets
  <2>5. QED BY <1>3, <2>1, <2>3, <2>4 DEF Pacing
<1>5. interrupted' \in BOOLEAN
  BY DEF SenderGets, Rearmed, Inv, TypeOK
<1>6. QED
  BY <1>2, <1>4, <1>5 DEF Inv, SenderGets, SenderOnly, engineVars, clientVars,
     TypeOK, ClientKept, Draining, NoCancelledFrames, CarrierIsClear,
     TeardownIsComplete

LEMMA SenderSendsStep ==
    ASSUME Inv, SenderSends
    PROVE  Inv'
<1>1. /\ sender \in [gen : Generations, left : 1 .. FrameChunks]
      /\ "outbound" \in loops
  BY DEF Inv, Pacing, SenderSends
<1>2. NoFrame \in [gen : Generations \cup {None}, left : 0 .. FrameChunks]
  BY SizesAssumption DEF NoFrame
<1>3. /\ Pacing' /\ loops' \subseteq loops
      /\ sender' \in [gen : Generations \cup {None}, left : 0 .. FrameChunks]
  <2>1. CASE sender' = NoFrame /\ loops' \subseteq loops
    BY <1>2, <2>1 DEF Pacing
  <2>2. CASE sender.left # 1 /\ sender' = [sender EXCEPT !.left = @ - 1] /\ loops' = loops
    <3>1. sender' \in [gen : Generations, left : 1 .. FrameChunks]
      BY <1>1, <2>2, SizesAssumption
    <3>2. QED BY <1>1, <2>2, <3>1, SizesAssumption DEF Pacing
  <2>3. QED BY <2>1, <2>2 DEF SenderSends, GoesRound
<1>4. sent' \subseteq Generations /\ CarrierIsClear'
  <2>1. CASE sent' = sent
    BY <2>1 DEF Inv, TypeOK, CarrierIsClear, SenderSends, SenderOnly
  <2>2. CASE ~Cut /\ sent' = sent \cup {sender.gen}
    BY <1>1, <2>2 DEF Inv, TypeOK, CarrierIsClear, Cut, SenderSends, SenderOnly
  <2>3. QED BY <2>1, <2>2 DEF SenderSends
<1>5. QED
  BY <1>3, <1>4 DEF Inv, SenderSends, SenderOnly, engineVars, clientVars,
     TypeOK, ClientKept, Draining, NoCancelledFrames, TeardownIsComplete

-----------------------------------------------------------------------------
(* The inbound and the heartbeat loop *)

\* A loop other than the outbound one does something or ends: what it may
\* change is the client's end, the queue's emptiness and which loops are left.
LEMMA InboundStep ==
    ASSUME Inv, \/ CallerSpeaks \/ Forwarded \/ CarrierClears \/ CarrierStops
                \/ StopDrained \/ SeesDisconnect \/ HeartbeatEnds
    PROVE  Inv'
<1>1. /\ UNCHANGED <<newest, silenced, exotel, cancelled, stream, sender, connected, sent>>
      /\ stopping' \in BOOLEAN /\ inbound' \in {"receive", "forwarding", "closing"}
      /\ interrupted' \in BOOLEAN
  BY DEF Inv, TypeOK, CallerSpeaks, Forwarded, CarrierClears, CarrierStops,
     StopDrained, SeesDisconnect, HeartbeatEnds, InboundOnly, engineVars
<1>2. /\ loops' \subseteq loops
      /\ "outbound" \in loops => "outbound" \in loops'
  BY DEF CallerSpeaks, Forwarded, CarrierClears, CarrierStops, StopDrained,
     SeesDisconnect, HeartbeatEnds, GoesRound
<1>3. queue' = queue \/ queue' = <<>>
  BY DEF CallerSpeaks, Forwarded, CarrierClears, CarrierStops, StopDrained,
     SeesDisconnect, HeartbeatEnds
<1>4. \/ UNCHANGED <<open, waiting, link>>
      \/ open' = FALSE /\ waiting' = None /\ link' = <<>>
  BY DEF CallerSpeaks, Forwarded, CarrierClears, CarrierStops, StopDrained,
     SeesDisconnect, HeartbeatEnds, clientVars, ClosesEngine
<1>5. \/ UNCHANGED <<told, registered>>
      \/ registered' = FALSE /\ told' = TRUE
      \/ registered' = FALSE /\ told' = told /\ ~(registered /\ open) /\ open' = open
  BY DEF CallerSpeaks, Forwarded, CarrierClears, CarrierStops, StopDrained,
     SeesDisconnect, HeartbeatEnds, clientVars
<1>6. TypeOK' /\ NoCancelledFrames'
  <2>1. link' \in Seq(Events) /\ Len(link') <= LinkSize
    BY <1>1, <1>2, <1>3, <1>4, <1>5, EmptyIsTyped DEF Inv, TypeOK, Events
  <2>2. /\ queue' \in Seq(Generations) /\ Len(queue') <= QueueSize
        /\ \A i \in DOMAIN queue' : queue'[i] \notin cancelled
    BY <1>1, <1>2, <1>3, <1>4, <1>5, EmptyIsTyped DEF Inv, TypeOK, NoCancelledFrames
  <2>3. TypeOK'
    BY <1>1, <1>2, <1>3, <1>4, <1>5, <2>1, <2>2 DEF Inv, TypeOK, Events
  <2>4. waiting' \notin cancelled'
    BY <1>1, <1>2, <1>3, <1>4, <1>5 DEF Inv, TypeOK, NoCancelledFrames, Generations, None
  <2>5. QED BY <1>1, <2>2, <2>3, <2>4 DEF NoCancelledFrames
<1>7. Pacing' /\ ClientKept' /\ CarrierIsClear'
  BY <1>1, <1>2, <1>4, <1>5 DEF Inv, Pacing, ClientKept, CarrierIsClear, TypeOK
<1>8. Draining' /\ TeardownIsComplete'
  BY <1>1, <1>2, <1>3, <1>4, <1>5 DEF Inv, Draining, TeardownIsComplete, TypeOK
<1>9. QED BY <1>6, <1>7, <1>8 DEF Inv

-----------------------------------------------------------------------------
(* handle_stream and what else ends a call *)

\* What is closed stays closed.
LEMMA CleanupStep ==
    ASSUME Inv, \/ StreamWakes \/ (\E l \in Loops : CancelsLoop(l))
                \/ CleanupBegins \/ StreamDrained
    PROVE  Inv'
<1>1. UNCHANGED <<newest, silenced, exotel, cancelled, interrupted>>
  BY DEF StreamWakes, CancelsLoop, CleanupBegins, StreamDrained, StreamOnly, engineVars
<1>2. CASE StreamWakes
  BY <1>1, <1>2 DEF StreamWakes, StaysConnected, clientVars, Inv, TypeOK, Pacing,
     ClientKept, Draining, NoCancelledFrames, CarrierIsClear, TeardownIsComplete
<1>3. ASSUME NEW l \in Loops, CancelsLoop(l)
      PROVE  Inv'
  <2>1. NoFrame \in [gen : Generations \cup {None}, left : 0 .. FrameChunks]
    BY SizesAssumption DEF NoFrame
  <2>2. Pacing'
    BY <1>3 DEF Inv, Pacing, CancelsLoop
  <2>3. QED
    BY <1>1, <1>3, <2>1, <2>2 DEF CancelsLoop, StaysConnected, clientVars, Inv,
       TypeOK, ClientKept, Draining, NoCancelledFrames, CarrierIsClear,
       TeardownIsComplete
<1>4. CASE CleanupBegins
  <2>1. /\ loops = {} /\ loops' = {} /\ registered' = FALSE
        /\ UNCHANGED <<open, waiting, link, stopping, inbound, sender>>
    BY <1>4 DEF CleanupBegins
  <2>2. \/ /\ open /\ registered /\ told' = TRUE /\ stream' = "draining"
           /\ UNCHANGED <<queue, connected, sent>>
        \/ /\ ~(registered /\ open) /\ told' = told
           /\ stream' = "closed" /\ queue' = <<>> /\ connected' = FALSE /\ sent' = {}
    BY <1>4 DEF CleanupBegins, Finish, Disconnects, StaysConnected
  <2>3. TypeOK' /\ NoCancelledFrames'
    <3>1. link' \in Seq(Events) /\ Len(link') <= LinkSize
      BY <1>1, <2>1, <2>2, EmptyIsTyped DEF Inv, TypeOK, Events
    <3>2. /\ queue' \in Seq(Generations) /\ Len(queue') <= QueueSize
          /\ \A i \in DOMAIN queue' : queue'[i] \notin cancelled
      BY <1>1, <2>1, <2>2, EmptyIsTyped DEF Inv, TypeOK, NoCancelledFrames
    <3>3. TypeOK'
      BY <1>1, <2>1, <2>2, <3>1, <3>2 DEF Inv, TypeOK, Events
    <3>4. waiting' \notin cancelled'
      BY <1>1, <2>1, <2>2 DEF Inv, TypeOK, NoCancelledFrames, Generations, None
    <3>5. QED BY <1>1, <3>2, <3>3, <3>4 DEF NoCancelledFrames
  <2>4. Pacing' /\ ClientKept' /\ Draining' /\ CarrierIsClear'
    BY <1>1, <2>1, <2>2 DEF Inv, TypeOK, Pacing, ClientKept, Draining, CarrierIsClear
  <2>5. TeardownIsComplete'
    BY <2>1, <2>2 DEF Inv, ClientKept, TeardownIsComplete
  <2>6. QED BY <2>3, <2>4, <2>5 DEF Inv
<1>5. CASE StreamDrained
  <2>1. /\ open' = FALSE /\ waiting' = None /\ link' = <<>>
        /\ stream' = "closed" /\ queue' = <<>> /\ connected' = FALSE /\ sent' = {}
        /\ UNCHANGED <<told, stopping, loops, inbound, registered, sender>>
    BY <1>5 DEF StreamDrained, ClosesEngine, Finish, Disconnects
  <2>2. TypeOK' /\ NoCancelledFrames'
    <3>1. link' \in Seq(Events) /\ Len(link') <= LinkSize
      BY <1>1, <2>1, EmptyIsTyped DEF Inv, TypeOK, Events
    <3>2. /\ queue' \in Seq(Generations) /\ Len(queue') <= QueueSize
          /\ \A i \in DOMAIN queue' : queue'[i] \notin cancelled
      BY <1>1, <2>1, EmptyIsTyped DEF Inv, TypeOK, NoCancelledFrames
    <3>3. TypeOK'
      BY <1>1, <2>1, <3>1, <3>2 DEF Inv, TypeOK, Events
    <3>4. waiting' \notin cancelled'
      BY <1>1, <2>1 DEF Inv, TypeOK, NoCancelledFrames, Generations, None
    <3>5. QED BY <1>1, <3>2, <3>3, <3>4 DEF NoCancelledFrames
  <2>3. QED
    BY <1>1, <1>5, <2>1, <2>2 DEF StreamDrained, Inv, Pacing, ClientKept, Draining,
       CarrierIsClear, TeardownIsComplete
<1>6. QED BY <1>2, <1>3, <1>4, <1>5

LEMMA CallEndsStep ==
    ASSUME Inv, SessionCloses \/ TransferCompletes \/ CallerHangsUp
    PROVE  Inv'
<1>1. /\ UNCHANGED <<newest, silenced, exotel, cancelled, interrupted>>
      /\ connected' = FALSE /\ sent' = {} /\ stopping' \in BOOLEAN
      /\ UNCHANGED <<stream, registered>>
  BY DEF Inv, TypeOK, SessionCloses, TransferCompletes, CallerHangsUp, StreamOnly,
     engineVars, Disconnects
<1>2. queue' = queue \/ queue' = <<>>
  BY DEF SessionCloses, TransferCompletes, CallerHangsUp
<1>3. \/ UNCHANGED <<open, told, waiting, link>>
      \/ open' = FALSE /\ told' = TRUE /\ waiting' = None /\ link' = <<>>
  BY DEF SessionCloses, TransferCompletes, CallerHangsUp, clientVars, ClosesEngine
<1>4. \/ UNCHANGED <<loops, sender, inbound>>
      \/ loops' = {} /\ sender' = NoFrame /\ inbound' = "receive"
  BY DEF SessionCloses, TransferCompletes, CallerHangsUp
<1>5. NoFrame \in [gen : Generations \cup {None}, left : 0 .. FrameChunks]
  BY SizesAssumption DEF NoFrame
<1>6. TypeOK' /\ NoCancelledFrames'
  <2>1. link' \in Seq(Events) /\ Len(link') <= LinkSize
    BY <1>1, <1>2, <1>3, <1>4, <1>5, EmptyIsTyped DEF Inv, TypeOK, Events
  <2>2. /\ queue' \in Seq(Generations) /\ Len(queue') <= QueueSize
        /\ \A i \in DOMAIN queue' : queue'[i] \notin cancelled
    BY <1>1, <1>2, <1>3, <1>4, <1>5, EmptyIsTyped DEF Inv, TypeOK, NoCancelledFrames
  <2>3. TypeOK'
    BY <1>1, <1>2, <1>3, <1>4, <1>5, <2>1, <2>2 DEF Inv, TypeOK, Events
  <2>4. waiting' \notin cancelled'
    BY <1>1, <1>2, <1>3, <1>4, <1>5 DEF Inv, TypeOK, NoCancelledFrames, Generations, None
  <2>5. QED BY <1>1, <2>2, <2>3, <2>4 DEF NoCancelledFrames
<1>7. Pacing' /\ ClientKept' /\ Draining' /\ CarrierIsClear'
  BY <1>1, <1>3, <1>4 DEF Inv, Pacing, ClientKept, Draining, CarrierIsClear
<1>8. TeardownIsComplete'
  BY <1>1, <1>2, <1>3, <1>4 DEF Inv, TeardownIsComplete
<1>9. QED BY <1>6, <1>7, <1>8 DEF Inv

-----------------------------------------------------------------------------
(* Theorems *)

LEMMA Initially == Init => Inv
<1> SUFFICES ASSUME Init PROVE Inv
  OBVIOUS
<1>1. /\ newest \in Generations /\ silenced = {} /\ link \in Seq(Events)
      /\ NoFrame \in [gen : Generations \cup {None}, left : 0 .. FrameChunks]
  BY SizesAssumption DEF Init, Engine!Init, Generations, NoFrame
<1>2. queue \in Seq(Generations) /\ Len(queue) <= QueueSize /\ Len(link) <= LinkSize
  BY EmptyIsTyped DEF Init
<1>3. TypeOK
  BY <1>1, <1>2 DEF Init, TypeOK, Events, Loops, None
<1>4. QED
  BY <1>3 DEF Init, Inv, Pacing, ClientKept, Draining, NoCancelledFrames,
     CarrierIsClear, TeardownIsComplete, None

\* What holds of client, queue, carrier and cleanup at every step of a stream.
THEOREM StreamInvariant == Spec => []Inv
<1>1. Inv /\ [Next]_vars => Inv'
  <2> SUFFICES ASSUME Inv, [Next]_vars PROVE Inv'
    OBVIOUS
  <2>1. CASE UNCHANGED vars
    BY <2>1 DEF vars, engineVars, clientVars, loopVars, Inv, TypeOK, Pacing,
       ClientKept, Draining, NoCancelledFrames, CarrierIsClear, TeardownIsComplete
  <2>2. CASE EngineTurns \/ EngineInterrupted \/ \E g \in Generations : EngineSpeaks(g)
    BY <2>2, EngineStep
  <2>3. CASE Client
    BY <2>3, ClientTakesAudioStep, ClientTakesCancelledStep, ClientWaitsStep DEF Client
  <2>4. CASE Sender
    BY <2>4, SenderGetsStep, SenderSendsStep DEF Sender
  <2>5. CASE Cleanup
    BY <2>5, CleanupStep DEF Cleanup
  <2>6. CASE EngineCloses
    BY <2>6, EngineClosesStep
  <2>7. CASE Carrier \/ Forwarded \/ StopDrained \/ SeesDisconnect \/ HeartbeatEnds
    BY <2>7, InboundStep, CallEndsStep DEF Carrier
  <2>8. CASE SessionCloses \/ TransferCompletes
    BY <2>8, CallEndsStep
  <2>9. QED BY <2>1, <2>2, <2>3, <2>4, <2>5, <2>6, <2>7, <2>8 DEF Next
<1>2. QED BY Initially, <1>1, PTL DEF Spec

\* Every variable of the stream has its type; no queue exceeds its capacity.
THEOREM StreamTypes == Spec => []TypeOK
<1>1. Inv => TypeOK
  BY DEF Inv
<1>2. QED BY StreamInvariant, <1>1, PTL

\* Once the engine has taken a response back, none of its frames waits in the
\* gateway (on_response_cancelled, is_generation_cancelled).
THEOREM CancelledFramesAreGone == Spec => []NoCancelledFrames
<1>1. Inv => NoCancelledFrames
  BY DEF Inv
<1>2. QED BY StreamInvariant, <1>1, PTL

\* No packet of a response that was taken back follows "clear" to the carrier,
\* although its frame was being paced out (_outbound_loop).
THEOREM CarrierStaysClear == Spec => []CarrierIsClear
<1>1. Inv => CarrierIsClear
  BY DEF Inv
<1>2. QED BY StreamInvariant, <1>1, PTL

\* A stream that is over has left nothing but what the engine was told to end
\* (the finally of handle_stream).
THEOREM TeardownCompletes == Spec => []TeardownIsComplete
<1>1. Inv => TeardownIsComplete
  BY DEF Inv
<1>2. QED BY StreamInvariant, <1>1, PTL
=============================================================================
