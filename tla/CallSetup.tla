------------------------------ MODULE CallSetup ------------------------------
(***************************************************************************)
(* How a call comes into the gateway: the carrier asks /exotel/resolve for *)
(* the address of a stream, connects to it (or to the direct address) and  *)
(* sends its start event; the number dialled is resolved to a tenant by    *)
(* the backend, the session manager holds the session objects, and the     *)
(* Voice Engine is connected once the tenant is known.  A step is what one *)
(* coroutine does between two suspension points; the manager's lock makes  *)
(* each of its operations one step.  What happens on a stream once it runs *)
(* is the subject of GatewayStream.                                        *)
(*                                                                         *)
(* A session object is its place in object.  Only the manager's table says *)
(* which object an id means: an object that left it may still have a       *)
(* stream, and the id may get a new object.                                *)
(***************************************************************************)
EXTENDS Integers, Sequences, FiniteSets

CONSTANTS
    Asks,        \* requests of the carrier to /exotel/resolve
    Streams,     \* WebSockets of the carrier
    Numbers,     \* the numbers that are dialled, each with a tenant of its own
    MaxSessions, \* max_active_sessions (500 in the code)
    MaxRate,     \* rate_limit_connections_per_min
    MaxObjects,  \* bound: session objects ever made
    Default,     \* the tenant "default", which is nobody's
    None

ASSUME SetupAssumption ==
    /\ None \notin Numbers \cup Streams \cup {Default} /\ Default \notin Numbers
    /\ {MaxSessions, MaxRate, MaxObjects} \subseteq Nat \ {0}

VARIABLES
    ask,      \* where each request is: [at, did, saw, reply], with the class
              \* of the reply (2xx, 4xx, 5xx) and whether the backend found the number's state
    object,   \* the session objects made so far
    table,    \* RealtimeSessionManager._sessions, as a set of objects
    shutting, \* _is_shutting_down
    recent,   \* connections the limiter let through in the last minute
    stream    \* where handle_stream is for each WebSocket

vars == <<ask, object, table, shutting, recent, stream>>

-----------------------------------------------------------------------------
(* The backend's answer, on its way to the carrier *)

\* What the backend finds for a number; an assignment may name a placeholder for
\* a tenant, and only one of the gateway's checks knows "default" for one.
Findings == {"DID_NOT_FOUND", "DID_INACTIVE", "ORGANIZATION_INACTIVE",
             "NO_ACTIVE_ASSIGNMENT", "AGENT_INACTIVE", "CONFIGURATION_ERROR",
             "placeholder", "default", "assigned"}
Failures == {"DATABASE_UNAVAILABLE", "UNAUTHORIZED", "malformed", "timeout",
             "unreachable"}
Answers  == Findings \cup Failures

\* The words of GatewayError that the endpoint looks for, by what it is for.
\* The backend says "institution" of an organization, so that the gateway takes
\* it for the number.
ParseResponse(a) ==
    CASE a = "DID_NOT_FOUND" -> "not found"
      [] a \in {"DID_INACTIVE", "ORGANIZATION_INACTIVE"} -> "inactive"
      [] a = "AGENT_INACTIVE" -> "inactive agent"
      [] a \in {"NO_ACTIVE_ASSIGNMENT", "placeholder"} -> "assignment"
      [] a \in {"DATABASE_UNAVAILABLE", "unreachable"} -> "unavailable"
      [] a = "UNAUTHORIZED" -> "unauthorized"
      [] a = "timeout" -> "timed out"
      [] OTHER -> "failed"

HttpStatus(words) ==
    CASE words = "not found"      -> 404
      [] words = "inactive"       -> 403
      [] words = "inactive agent" -> 422
      [] words = "assignment"     -> 422
      [] words = "unauthorized"   -> 500
      [] words = "timed out"      -> 504
      [] words = "unavailable"    -> 503
      [] OTHER                    -> 502

StatusOf(a) == HttpStatus(ParseResponse(a))

-----------------------------------------------------------------------------
(* RealtimeSessionManager *)

NewObject(id, did, tenant) ==
    [id |-> id, did |-> did, tenant |-> tenant, ws |-> None, closed |-> FALSE,
     cancelled |-> FALSE, expired |-> FALSE, client |-> FALSE]

\* Ids are numbers: a new one is the number of the first object that bears it.
NewId    == Len(object) + 1
Of(id)   == {o \in table : object[o].id = id}
Room     == Cardinality(table) < MaxSessions
MayMake  == Len(object) < MaxObjects

\* Mutant: a shutdown does not keep new sessions out.
AdmitsAlways == Room

Admits == ~shutting /\ Room

Makes(id, did, tenant) ==
    /\ object' = Append(object, NewObject(id, did, tenant))
    /\ table' = table \cup {Len(object) + 1}

\* RealtimeVoiceSession.close
Closed(r) == [r EXCEPT !.ws = None, !.closed = TRUE, !.cancelled = TRUE]

ClosesAll(O) == object' = [o \in DOMAIN object |->
                             IF o \in O THEN Closed(object[o]) ELSE object[o]]

\* The tasks of a closed session are cancelled; what handle_stream itself
\* waits for is not.
InTask == {"streaming", "resolving", "connecting"}
Interrupts(O) ==
    stream' = [w \in Streams |->
                 IF stream[w].object \in O
                 THEN [stream[w] EXCEPT !.carrier = FALSE,
                         !.at = IF @ \in InTask THEN "closing" ELSE @]
                 ELSE stream[w]]

Removes(O) ==
    /\ table' = table \ O
    /\ ClosesAll(O)
    /\ Interrupts({o \in O : ~object[o].closed})

\* Mutant: a session nobody connected to is not stale.
StaleIfClosed == {o \in table : object[o].closed}

Stale == {o \in table : object[o].closed \/ object[o].expired}

\* The pruner's round.
Prune ==
    /\ Stale # {} /\ ~shutting
    /\ Removes(Stale)
    /\ UNCHANGED <<ask, shutting, recent>>

\* The session is an hour old, or nothing has happened on it for half of one.
Expires(o) ==
    /\ o \in table /\ ~object[o].expired
    /\ object' = [object EXCEPT ![o].expired = TRUE]
    /\ UNCHANGED <<ask, table, shutting, recent, stream>>

\* close_all
Shutdown ==
    /\ ~shutting /\ shutting' = TRUE
    /\ Removes(table)
    /\ UNCHANGED <<ask, recent>>

-----------------------------------------------------------------------------
(* exotel_dynamic_resolver *)

Answered(a, status, saw) ==
    ask' = [ask EXCEPT ![a] = [at |-> "answered", did |-> None, saw |-> saw,
                               reply |-> status \div 100]]

\* GatewayError of create_session is caught by nobody: 500.
CreatesFor(a, did, tenant) ==
    IF Admits
    THEN MayMake /\ Answered(a, 200, "found") /\ Makes(NewId, did, tenant)
    ELSE Answered(a, 500, "failed") /\ UNCHANGED <<object, table>>

\* Without a CallSid the number is left to the start event.
AskDeferred(a) ==
    /\ ask[a].at = "new"
    /\ CreatesFor(a, None, None)
    /\ UNCHANGED <<shutting, recent, stream>>

AskResolves(a, did) ==
    /\ ask[a].at = "new"
    /\ ask' = [ask EXCEPT ![a].at = "resolving", ![a].did = did]
    /\ UNCHANGED <<object, table, shutting, recent, stream>>

Resolver(a, answer) ==
    /\ ask[a].at = "resolving"
    /\ IF answer \in {"assigned", "default"}
       THEN CreatesFor(a, ask[a].did,
                       IF answer = "default" THEN Default ELSE ask[a].did)
       ELSE /\ Answered(a, StatusOf(answer),
                        IF answer \in Findings THEN "found" ELSE "failed")
            /\ UNCHANGED <<object, table>>
    /\ UNCHANGED <<shutting, recent, stream>>

-----------------------------------------------------------------------------
(* handle_stream, up to its loops *)

Idle(at) == [at |-> at, id |-> 0, object |-> 0, carrier |-> FALSE,
             engine |-> FALSE, started |-> FALSE]

Moves(w, to)    == stream' = [stream EXCEPT ![w].at = to]
TurnsDown(w)    == stream' = [stream EXCEPT ![w] = Idle("over")]
Obj(w)          == object[stream[w].object]
OnlyStreams     == UNCHANGED <<ask, shutting, recent>>

\* GatewayRateLimiter.is_allowed
RateLimited(w) ==
    /\ stream[w].at = "new" /\ recent = MaxRate
    /\ TurnsDown(w)
    /\ UNCHANGED <<object, table>> /\ OnlyStreams

MinutePasses ==
    /\ recent > 0 /\ recent' = recent - 1
    /\ UNCHANGED <<ask, object, table, shutting, stream>>

\* get_or_create_session and the first check for a duplicate.  An id that the
\* table does not know (any more) gets a session without a tenant.
Connect(w, id) ==
    /\ stream[w].at = "new" /\ recent < MaxRate
    /\ recent' = recent + 1
    /\ IF Of(id) # {}
       THEN UNCHANGED <<object, table>>
       ELSE IF Admits
            THEN MayMake /\ Makes(id, None, None)
            ELSE UNCHANGED <<object, table>>
    /\ IF \/ Of(id) = {} /\ ~Admits
          \/ \E o \in Of(id) : object[o].ws # None
       THEN TurnsDown(w)
       ELSE stream' = [stream EXCEPT ![w].at = "accepting", ![w].id = id,
                                     ![w].carrier = TRUE]
    /\ UNCHANGED <<ask, shutting>>

\* Mutant: who was no duplicate before the accept is none after it.
FreeOnce(w) == Of(stream[w].id)

Free(w) == {o \in Of(stream[w].id) : object[o].ws = None}

\* register_connection looks the id up again.
Register(w) ==
    /\ stream[w].at = "accepting"
    /\ IF Free(w) = {}
       THEN TurnsDown(w) /\ UNCHANGED object
       ELSE \E o \in Free(w) :
              /\ object' = [object EXCEPT ![o].ws = w, ![o].closed = FALSE]
              /\ stream' = [stream EXCEPT ![w].object = o, ![w].id = 0,
                              ![w].at = IF object[o].tenant = None
                                        THEN "streaming" ELSE "initializing"]
    /\ UNCHANGED table /\ OnlyStreams

\* Mutant: any tenant will do.
MayInitializeAny(w) == Obj(w).tenant # None

\* The check before a client is made, which turns down what is no tenant.
MayInitialize(w) == Obj(w).tenant \in Numbers

\* connect_and_start answers: the socket, session.start and session.ready.
Initialized(w, ready) ==
    /\ stream[w].at = "initializing" /\ (ready => MayInitialize(w))
    /\ stream' = [stream EXCEPT ![w].at = IF Obj(w).cancelled THEN "closing"
                                          ELSE "streaming",
                                ![w].engine = ready]
    /\ object' = [object EXCEPT ![stream[w].object].client = @ \/ ready]
    /\ UNCHANGED table /\ OnlyStreams

-----------------------------------------------------------------------------
(* The start event *)

\* Failing closed: the carrier's socket is closed and the session cancelled.
FailClosed(w) ==
    /\ stream' = [stream EXCEPT ![w].at = "closing", ![w].carrier = FALSE]
    /\ object' = [object EXCEPT ![stream[w].object].cancelled = TRUE]

\* An engine is connected unless the session has had a client before.
EngineNext(w) == IF Obj(w).client THEN "streaming" ELSE "connecting"

Starts(w) ==
    /\ stream[w].at = "streaming" /\ stream[w].carrier /\ ~stream[w].started
    /\ ~Obj(w).cancelled

\* The number the session was made for goes before the start event's.
StartNumber(w, did) == IF Obj(w).did = None THEN did ELSE Obj(w).did

\* No CallSid, or no number.
StartUnidentified(w) ==
    /\ Starts(w) /\ FailClosed(w)
    /\ UNCHANGED table /\ OnlyStreams

Start(w, did) ==
    /\ Starts(w)
    /\ object' = [object EXCEPT ![stream[w].object].did = StartNumber(w, did)]
    /\ stream' = [stream EXCEPT ![w].started = TRUE,
                    ![w].at = IF Obj(w).tenant = None THEN "resolving"
                              ELSE EngineNext(w)]
    /\ UNCHANGED table /\ OnlyStreams

StartResolved(w, answer) ==
    /\ stream[w].at = "resolving"
    /\ IF answer = "assigned"
       THEN /\ object' = [object EXCEPT ![stream[w].object].tenant = Obj(w).did]
            /\ stream' = [stream EXCEPT ![w].at = EngineNext(w)]
       ELSE FailClosed(w)
    /\ UNCHANGED table /\ OnlyStreams

StartConnected(w, ready) ==
    /\ stream[w].at = "connecting" /\ (ready => MayInitialize(w))
    /\ IF ready
       THEN /\ stream' = [stream EXCEPT ![w].at = "streaming", ![w].engine = TRUE]
            /\ object' = [object EXCEPT ![stream[w].object].client = TRUE]
       ELSE FailClosed(w)
    /\ UNCHANGED table /\ OnlyStreams

-----------------------------------------------------------------------------
(* The end of a stream *)

Drops(w) ==
    /\ stream[w].carrier /\ stream[w].at # "new"
    /\ stream' = [stream EXCEPT ![w].carrier = FALSE]
    /\ UNCHANGED <<object, table>> /\ OnlyStreams

\* A loop ends: the carrier is gone, or the session cancelled.
LoopEnds(w) ==
    /\ stream[w].at \in InTask
    /\ ~stream[w].carrier \/ Obj(w).cancelled
    /\ Moves(w, "closing")
    /\ UNCHANGED <<object, table>> /\ OnlyStreams

\* The cleanup has closed the stream's engine client; the session stays.
StreamOver(w) ==
    /\ stream[w].at = "closing"
    /\ TurnsDown(w)
    /\ object' = [object EXCEPT ![stream[w].object].ws = None,
                                ![stream[w].object].closed = TRUE]
    /\ UNCHANGED table /\ OnlyStreams

-----------------------------------------------------------------------------
(* Specification *)

Init ==
    /\ ask = [a \in Asks |-> [at |-> "new", did |-> None, saw |-> "nothing", reply |-> 0]]
    /\ object = <<>> /\ table = {} /\ shutting = FALSE /\ recent = 0
    /\ stream = [w \in Streams |-> Idle("new")]

\* The addresses a carrier has: those it was given, and the direct one.
Addresses == 1 .. NewId

Asking(a) ==
    \/ AskDeferred(a) \/ \E did \in Numbers : AskResolves(a, did)
    \/ \E answer \in Answers : Resolver(a, answer)

Setting(w) ==
    \/ Register(w) \/ \E ready \in BOOLEAN : Initialized(w, ready)
    \/ \E answer \in Answers : StartResolved(w, answer)
    \/ \E ready \in BOOLEAN : StartConnected(w, ready)
    \/ LoopEnds(w) \/ StreamOver(w)

Coming(w) ==
    \/ RateLimited(w) \/ \E id \in Addresses : Connect(w, id)
    \/ StartUnidentified(w) \/ \E did \in Numbers : Start(w, did)
    \/ Drops(w)

Next == \/ \E a \in Asks : Asking(a)
        \/ \E w \in Streams : Setting(w) \/ Coming(w)
        \/ Prune \/ Shutdown \/ MinutePasses
        \/ \E o \in DOMAIN object : Expires(o)

\* Every wait has a timeout, the pruner comes round and sessions grow old; the
\* carrier owes nothing.
Fairness ==
    /\ \A w \in Streams : WF_vars(Setting(w))
    /\ WF_vars(Prune)
    /\ \A o \in 1 .. MaxObjects : WF_vars(o \in DOMAIN object /\ Expires(o))

Spec == Init /\ [][Next]_vars /\ Fairness

-----------------------------------------------------------------------------
(* Properties *)

\* Streams whose caller can still be heard.
Live(w) == stream[w].object # 0 /\ stream[w].at # "closing" /\ ~Obj(w).cancelled

\* No two streams work on one session, although the check for a duplicate and
\* the registration are apart: the session's WebSocket is its stream's.  And the
\* manager knows it, so that pruner and shutdown reach every live stream and
\* there are no more of them than sessions are allowed.
OneStream ==
    /\ \A w \in Streams : Live(w) =>
         /\ Obj(w).ws = w /\ stream[w].object \in table
         /\ \A x \in Streams \ {w} : Live(x) => stream[x].object # stream[w].object
    /\ Cardinality({w \in Streams : Live(w)}) <= MaxSessions

\* The engine is only connected for a tenant, and for the one that owns the
\* number the session is of, whatever number a later start event names.
EngineServesOwner ==
    \A w \in Streams :
        stream[w].engine => Obj(w).tenant \in Numbers /\ Obj(w).tenant = Obj(w).did

\* Every session leaves the table, whether a stream ever came to it or not, and
\* its slot is free again.
SlotsComeBack ==
    \A o \in 1 .. MaxObjects : o \in table ~> o \notin table

\* After a shutdown every stream ends, whatever it was waiting for, and no new
\* one begins.
ShutdownEnds ==
    shutting ~> \A w \in Streams : stream[w].at \in {"new", "over"}
=============================================================================
