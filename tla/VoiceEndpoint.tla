---------------------------- MODULE VoiceEndpoint ----------------------------
(***************************************************************************)
(* The Voice Engine's end of a call: /ws/voice                             *)
(* (voice-engine/app/api/websocket.py), the registry of sessions           *)
(* (session/manager.py) and start and stop of the engine, against the      *)
(* gateway's transport (voice_engine_contract.py), which makes one client  *)
(* after the other of a session: the caller's stream may break and come    *)
(* back.  Every client has a socket of its own, and all of them name the   *)
(* same session id.  What the engine does in between is TurnPipeline.      *)
(***************************************************************************)
EXTENDS Naturals, Sequences, SequencesExt

CONSTANTS
    MaxSockets,   \* bound: clients of the session
    MaxMessages   \* bound: messages on their way to the engine

ASSUME VoiceEndpointAssumption == {MaxSockets, MaxMessages} \subseteq Nat \ {0}

VARIABLES
    \* the gateway
    client,    \* the latest client, 0 before the first
    gateway,   \* "idle", "starting", "ready" or "draining"
    \* the WebSockets
    link,      \* "none", "up" or "down"
    inbox,     \* messages to the engine that it has not read
    answered,  \* session.ready is on its way
    \* the engine
    handler,   \* "none", "accepted", "serving", "leaving", "stopping" or "closed";
               \* a worker's name while it awaits room in that worker's queue
    created,   \* the handler has a session
    active,    \* its session's is_active
    tasks,     \* workers of its engine that have not ended
    registry   \* whose session manager._sessions holds under the id, 0 if none

gatewayVars == <<client, gateway>>
engineVars  == <<handler, created, active, tasks, registry>>
vars == <<gatewayVars, link, inbox, answered, engineVars>>

Sockets == 1 .. MaxSockets
Workers == {"vad", "llm", "tts", "writer"}

\* Those whose bounded queues the handler fills: caller audio and announcements.
Consumers == {"vad", "tts"}

Init ==
    /\ client = 0 /\ gateway = "idle"
    /\ link = [s \in Sockets |-> "none"]
    /\ inbox = [s \in Sockets |-> <<>>]
    /\ answered = {}
    /\ handler = [s \in Sockets |-> "none"]
    /\ created = {} /\ active = {}
    /\ tasks = [s \in Sockets |-> {}]
    /\ registry = 0

-----------------------------------------------------------------------------
(* The gateway                                                             *)

\* session.start is sent at once; a client that cannot connect leaves no trace
\* at the engine.
Connects ==
    /\ gateway = "idle" /\ client < MaxSockets
    /\ LET s == client + 1
       IN  /\ client' = s /\ gateway' = "starting"
           /\ link' = [link EXCEPT ![s] = "up"]
           /\ inbox' = [inbox EXCEPT ![s] = <<"start">>]
           /\ handler' = [handler EXCEPT ![s] = "accepted"]
    /\ UNCHANGED <<answered, created, active, tasks, registry>>

TakesReady ==
    /\ gateway = "starting" /\ client \in answered /\ gateway' = "ready"
    /\ UNCHANGED <<client, link, inbox, answered, engineVars>>

Lowers(s) == link' = [link EXCEPT ![s] = "down"]

\* session.ready does not come in time, or the stream is over before it does.
GivesUp ==
    /\ gateway = "starting" /\ gateway' = "idle" /\ Lowers(client)
    /\ UNCHANGED <<client, inbox, answered, engineVars>>

\* Audio, or the outcome of a handoff.
Forwards ==
    /\ gateway = "ready" /\ link[client] = "up" /\ Len(inbox[client]) < MaxMessages
    /\ \E m \in {"audio", "fallback"} :
         inbox' = [inbox EXCEPT ![client] = Append(@, m)]
    /\ UNCHANGED <<gatewayVars, link, answered, engineVars>>

\* The stream is over: session.end, and half a second for what it brings.
Ends ==
    /\ gateway = "ready"
    /\ IF link[client] = "up"
       THEN /\ gateway' = "draining"
            /\ inbox' = [inbox EXCEPT ![client] = Append(@, "end")]
       ELSE gateway' = "idle" /\ UNCHANGED inbox
    /\ UNCHANGED <<client, link, answered, engineVars>>

Drained ==
    /\ gateway = "draining" /\ gateway' = "idle" /\ Lowers(client)
    /\ UNCHANGED <<client, inbox, answered, engineVars>>

Breaks(s) ==
    /\ link[s] = "up" /\ Lowers(s)
    /\ UNCHANGED <<gatewayVars, inbox, answered, engineVars>>

-----------------------------------------------------------------------------
(* The endpoint                                                            *)

\* Session, engine and writer are made without a pause; a session that was
\* registered under the id is replaced.
Starts(s) ==
    /\ created' = created \cup {s} /\ active' = active \cup {s}
    /\ registry' = s
    /\ tasks' = [tasks EXCEPT ![s] = Workers]
    /\ \/ handler' = [handler EXCEPT ![s] = "serving"] /\ answered' = answered \cup {s}
       \/ /\ link[s] = "down" /\ UNCHANGED answered
          /\ handler' = [handler EXCEPT ![s] = "leaving"]

\* What is put into a worker's queue, which may be full: then the handler waits,
\* and reads nothing, until there is room.  Audio for a session that is not
\* active is dropped; the announcement of a failed transfer is not.
Hears(s, worker) ==
    /\ \/ UNCHANGED handler
       \/ /\ worker = "vad" => s \in active
          /\ handler' = [handler EXCEPT ![s] = worker]
    /\ UNCHANGED <<created, active, tasks, registry, answered>>

\* Lead and summary are sent, if they can be, and the handler's loop is left.
Leaves(s) ==
    /\ handler' = [handler EXCEPT ![s] = "leaving"]
    /\ UNCHANGED <<created, active, tasks, registry, answered>>

Open(s) == handler[s] \in {"accepted", "serving"}

Reads(s) ==
    /\ Open(s) /\ inbox[s] # <<>>
    /\ inbox' = [inbox EXCEPT ![s] = Tail(@)]
    /\ CASE Head(inbox[s]) = "start"    -> Starts(s)
         [] Head(inbox[s]) = "audio"    -> Hears(s, "vad")
         [] Head(inbox[s]) = "fallback" -> Hears(s, "tts")
         [] Head(inbox[s]) = "end"      -> Leaves(s)
    /\ UNCHANGED <<gatewayVars, link>>

\* The message that tells of the disconnection has neither bytes nor text and is
\* skipped, but the next receive raises.
SeesDisconnect(s) ==
    /\ Open(s) /\ inbox[s] = <<>> /\ link[s] = "down" /\ Leaves(s)
    /\ UNCHANGED <<gatewayVars, link, inbox>>

\* A worker that takes the next item makes room for what the handler puts.
MakesRoom(s, worker) == handler' = [handler EXCEPT ![s] = IF @ = worker THEN "serving" ELSE @]

\* An interruption makes room too, although nobody may read the texts any more.
TakesNext(s) ==
    /\ \E worker \in tasks[s] : handler[s] = worker /\ MakesRoom(s, worker)
    /\ UNCHANGED <<gatewayVars, link, inbox, answered, created, active, tasks, registry>>

Interrupts(s) ==
    /\ handler[s] = "tts" /\ "vad" \in tasks[s] /\ MakesRoom(s, "tts")
    /\ UNCHANGED <<gatewayVars, link, inbox, answered, created, active, tasks, registry>>

\* With the next frame the vad worker ends a session whose time is over, or that
\* was closed under the same id; the socket stays.
Expires(s) ==
    /\ "vad" \in tasks[s] /\ active' = active \ {s}
    /\ tasks' = [tasks EXCEPT ![s] = @ \ {"vad"}]
    /\ MakesRoom(s, "vad")
    /\ UNCHANGED <<gatewayVars, link, inbox, answered, created, registry>>

\* The others end when they come round in a session out of service, and the vad
\* and the tts worker at any time by an exception that nothing catches: a frame
\* of half a sample, an item without a text.  Their queues are not read again.
WorkerEnds(s) ==
    /\ \E worker \in tasks[s] \ {"writer"} :
         /\ worker \in Consumers \/ s \notin active
         /\ tasks' = [tasks EXCEPT ![s] = @ \ {worker}]
    /\ UNCHANGED <<gatewayVars, link, inbox, answered, handler, created, active, registry>>

\* The writer ends when it cannot send.
WriterEnds(s) ==
    /\ "writer" \in tasks[s] /\ link[s] = "down"
    /\ tasks' = [tasks EXCEPT ![s] = @ \ {"writer"}]
    /\ UNCHANGED <<gatewayVars, link, inbox, answered, handler, created, active, registry>>

\* finally: the writer is cancelled, and engine.stop() takes the session out of
\* service, cancels the workers and waits for the recognizer's socket and for them.
Stops(s) ==
    /\ handler[s] = "leaving"
    /\ handler' = [handler EXCEPT ![s] = IF s \in created THEN "stopping" ELSE "closed"]
    /\ active' = active \ {s}
    /\ tasks' = [tasks EXCEPT ![s] = {}]
    /\ UNCHANGED <<gatewayVars, link, inbox, answered, created, registry>>

\* Mutant: only a session in service is taken from the registry.
RemovesActive == registry \in active

Removes == TRUE

\* close_session, once stop() is through: whatever is registered under the id goes, and is closed.
Closes(s) ==
    /\ handler[s] = "stopping"
    /\ handler' = [handler EXCEPT ![s] = "closed"]
    /\ IF Removes
       THEN registry' = 0 /\ active' = active \ {registry}
       ELSE UNCHANGED <<registry, active>>
    /\ UNCHANGED <<gatewayVars, link, inbox, answered, created, tasks>>

-----------------------------------------------------------------------------

Handling(s) == Reads(s) \/ SeesDisconnect(s) \/ Stops(s) \/ Closes(s)

Next ==
    \/ Connects \/ TakesReady \/ GivesUp \/ Forwards \/ Ends \/ Drained
    \/ \E s \in Sockets :
         \/ Breaks(s) \/ TakesNext(s) \/ Interrupts(s)
         \/ Expires(s) \/ WorkerEnds(s) \/ WriterEnds(s) \/ Handling(s)

\* Handlers run, and so do the workers that have not ended; the gateway's waits
\* have an end.  Nothing makes room in the queue of a worker that has.
Fairness ==
    /\ WF_vars(Drained)
    /\ \A s \in Sockets : WF_vars(Handling(s)) /\ WF_vars(TakesNext(s))

Spec == Init /\ [][Next]_vars /\ Fairness

-----------------------------------------------------------------------------
(* Properties *)

\* The handler waits for room in the queue of a worker that has ended.
Stuck(s) == handler[s] \in Consumers \ tasks[s]

\* A call that is over, however it ended, leaves nothing behind at the engine:
\* no worker runs, and the id finds none of its session, although every client
\* of the session is registered under the same id.  The one exception is a
\* handler that waits for good for room in the queue of a worker that has ended:
\* it does not see the disconnection, and its session stays.
CallsLeaveNothing ==
    \A s \in Sockets :
       link[s] = "down" ~>
          []Stuck(s) \/ (tasks[s] = {} /\ s \notin active /\ registry # s)

\* A client that is ready and connected is served, as long as its session's time
\* is not over.  Not kept: the handler of an earlier socket that is still
\* stopping closes the session of the new one.
ReadyIsServed ==
    [][\A s \in Sockets :
         gateway = "ready" /\ client = s /\ link[s] = "up" /\ "vad" \in tasks'[s]
         /\ s \in active => s \in active']_vars
=============================================================================
