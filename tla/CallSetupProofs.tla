-------------------------- MODULE CallSetupProofs ---------------------------
(***************************************************************************)
(* Theorems about CallSetup for any number of requests, streams, numbers   *)
(* and sessions: a session has one stream that is heard, the manager knows *)
(* it, there are no more of them than it admits, and the engine serves the *)
(* owner of the number.  They rest on one inductive invariant, Inv.        *)
(***************************************************************************)
EXTENDS CallSetup, FiniteSetTheorems, TLAPS

-----------------------------------------------------------------------------
(* The inductive invariant.                                                  *)

Places  == {"new", "over", "accepting", "initializing", "streaming", "resolving",
            "connecting", "closing"}
Session == [id : Nat, did : Numbers \cup {None}, tenant : Numbers \cup {None, Default},
            ws : Streams \cup {None}, closed : BOOLEAN, cancelled : BOOLEAN,
            expired : BOOLEAN, client : BOOLEAN]
Socket  == [at : Places, id : Nat, object : Nat, carrier : BOOLEAN,
            engine : BOOLEAN, started : BOOLEAN]

Typed == /\ object \in Seq(Session)
         /\ stream \in [Streams -> Socket]
         /\ DOMAIN ask = Asks
         /\ \A a \in Asks : ask[a].at = "resolving" => ask[a].did \in Numbers

\* A stream has a session from its registration until it is over.
Bound(w) ==
    /\ stream[w].object \in {0} \cup DOMAIN object
    /\ stream[w].at \in {"new", "accepting", "over"} <=> stream[w].object = 0
    /\ stream[w].object = 0 => ~stream[w].engine

\* A session of a stream that was not cancelled is that stream's, and the
\* manager knows it.  This holds of closing streams too: what one of them does
\* last could otherwise take a session from the stream it is reused by.
Held(w) ==
    stream[w].object # 0 /\ ~Obj(w).cancelled => Obj(w).ws = w /\ stream[w].object \in table

\* There is a number to resolve, and whoever is connected has a tenant.
Served(w) ==
    /\ stream[w].at = "resolving" => Obj(w).did \in Numbers
    /\ stream[w].engine => Obj(w).tenant \in Numbers

\* A tenant that was found owns the number of the session.
Owned(o) == object[o].tenant \in Numbers => object[o].tenant = object[o].did

\* The manager's table has its limit.
InTable == table \subseteq DOMAIN object /\ Cardinality(table) <= MaxSessions

Inv == /\ Typed /\ InTable
       /\ \A w \in Streams : Bound(w) /\ Held(w) /\ Served(w)
       /\ \A o \in DOMAIN object : Owned(o)

-----------------------------------------------------------------------------
(* What a step may do to a session and to the streams that do not take it.   *)

\* A session as it may go on: what was cancelled stays cancelled, a number or a
\* tenant that was found stays found.
GoesOn(old, new) ==
    /\ new \in Session
    /\ old.cancelled => new.cancelled
    /\ old.did \in Numbers => new.did \in Numbers
    /\ old.tenant \in Numbers => new.tenant \in Numbers
    /\ new.tenant \in Numbers => new.tenant = new.did

LEMMA Names ==
    /\ None \notin Numbers /\ None \notin Streams /\ Default \notin Numbers
    /\ MaxSessions \in Nat /\ MaxSessions >= 1
  BY SetupAssumption

\* A stream that is left alone, or only told to close, remains as it should be.
LEMMA OtherStream ==
    ASSUME NEW x \in Streams, Bound(x), Held(x), Served(x),
           stream'[x].object = stream[x].object, stream'[x].engine = stream[x].engine,
           \/ stream'[x].at = stream[x].at
           \/ stream'[x].at = "closing" /\ stream[x].object # 0,
           DOMAIN object \subseteq DOMAIN object',
           stream[x].object # 0 =>
               /\ GoesOn(object[stream[x].object], object'[stream[x].object])
               /\ \/ object'[stream[x].object].cancelled
                  \/ object[stream[x].object].ws # x
                  \/ /\ object'[stream[x].object].ws = object[stream[x].object].ws
                     /\ stream[x].object \in table => stream[x].object \in table'
    PROVE  Bound(x)' /\ Held(x)' /\ Served(x)'
<1>1. Bound(x)'
  BY DEF Bound
<1>2. Held(x)'
  BY DEF Held, Obj, GoesOn
<1>3. Served(x)'
  BY DEF Served, Bound, Obj, GoesOn
<1>4. QED BY <1>1, <1>2, <1>3

\* A step of one stream and the session it works on.
LEMMA StreamStep ==
    ASSUME Inv, NEW w \in Streams, NEW T \in Socket, NEW o \in DOMAIN object, NEW R,
           stream' = [stream EXCEPT ![w] = T],
           object' = [object EXCEPT ![o] = R],
           UNCHANGED <<ask, table>>,
           GoesOn(object[o], R),
           R.ws = object[o].ws \/ object[o].ws \in {None, w} \/ R.cancelled,
           T.object \in {0} \cup DOMAIN object,
           T.at \in {"new", "accepting", "over"} <=> T.object = 0,
           T.object = 0 => ~T.engine,
           T.object # 0 => T.object = o,
           T.object # 0 /\ ~R.cancelled => R.ws = w /\ o \in table,
           T.at = "resolving" => R.did \in Numbers,
           T.engine => R.tenant \in Numbers
    PROVE  Inv'
<1>1. object \in Seq(Session) /\ stream \in [Streams -> Socket] /\ R \in Session
  BY DEF Inv, Typed, GoesOn
<1>2. /\ object' \in Seq(Session) /\ DOMAIN object' = DOMAIN object
      /\ object'[o] = R
      /\ \A p \in DOMAIN object : p # o => object'[p] = object[p]
  BY <1>1
<1>3. /\ stream' \in [Streams -> Socket] /\ stream'[w] = T
      /\ \A x \in Streams : x # w => stream'[x] = stream[x]
  BY <1>1
<1>4. Typed'
  BY <1>2, <1>3 DEF Inv, Typed
<1>5. InTable'
  BY <1>2 DEF Inv, InTable
<1>6. \A p \in DOMAIN object' : Owned(p)'
  BY <1>2 DEF Inv, Owned, GoesOn
<1>7. Bound(w)' /\ Held(w)' /\ Served(w)'
  <2>1. Bound(w)'
    BY <1>2, <1>3 DEF Bound
  <2>2. Held(w)'
    BY <1>2, <1>3 DEF Held, Obj
  <2>3. Served(w)'
    BY <1>2, <1>3 DEF Served, Obj
  <2>4. QED BY <2>1, <2>2, <2>3
<1>8. ASSUME NEW x \in Streams, x # w
      PROVE  Bound(x)' /\ Held(x)' /\ Served(x)'
  <2>1. Bound(x) /\ Held(x) /\ Served(x) /\ stream'[x] = stream[x]
    BY <1>3, <1>8 DEF Inv
  <2>2. \A p \in DOMAIN object : p # o => GoesOn(object[p], object'[p])
    BY <1>1, <1>2 DEF Inv, Owned, GoesOn
  <2>3. stream[x].object # 0 =>
            /\ GoesOn(object[stream[x].object], object'[stream[x].object])
            /\ \/ object'[stream[x].object].cancelled
               \/ object[stream[x].object].ws # x
               \/ /\ object'[stream[x].object].ws = object[stream[x].object].ws
                  /\ stream[x].object \in table => stream[x].object \in table'
    BY <1>2, <1>8, <2>1, <2>2, Names DEF Bound
  <2>4. QED BY <1>2, <2>1, <2>3, OtherStream
<1>9. QED BY <1>4, <1>5, <1>6, <1>7, <1>8 DEF Inv

\* A step of one stream that leaves the sessions alone.
LEMMA SocketStep ==
    ASSUME Inv, NEW w \in Streams, NEW T \in Socket,
           stream' = [stream EXCEPT ![w] = T],
           UNCHANGED <<ask, object, table>>,
           T.object \in {0, stream[w].object},
           T.at \in {"new", "accepting", "over"} <=> T.object = 0,
           T.engine => stream[w].engine /\ T.object # 0,
           T.at = "resolving" => stream[w].at = "resolving"
    PROVE  Inv'
<1>1. stream \in [Streams -> Socket] /\ Bound(w) /\ Held(w) /\ Served(w)
  BY DEF Inv, Typed
<1>2. /\ stream' \in [Streams -> Socket] /\ stream'[w] = T
      /\ \A x \in Streams : x # w => stream'[x] = stream[x]
  BY <1>1
<1>3. Typed' /\ InTable' /\ \A o \in DOMAIN object' : Owned(o)'
  BY <1>2 DEF Inv, Typed, InTable, Owned
<1>4. Bound(w)' /\ Held(w)' /\ Served(w)'
  <2>1. Bound(w)'
    BY <1>1, <1>2 DEF Bound
  <2>2. Held(w)'
    BY <1>1, <1>2 DEF Held, Obj
  <2>3. Served(w)'
    BY <1>1, <1>2 DEF Served, Obj, Bound
  <2>4. QED BY <2>1, <2>2, <2>3
<1>5. ASSUME NEW x \in Streams, x # w
      PROVE  Bound(x)' /\ Held(x)' /\ Served(x)'
  BY <1>2, <1>5 DEF Inv, Bound, Held, Served, Obj
<1>6. QED BY <1>3, <1>4, <1>5 DEF Inv

\* A session is added.
LEMMA Grows ==
    ASSUME Inv, NEW id \in Nat, NEW did \in Numbers \cup {None},
           NEW tenant \in {None, Default, did},
           Admits, Makes(id, did, tenant)
    PROVE  /\ object' \in Seq(Session) /\ DOMAIN object \subseteq DOMAIN object'
           /\ \A o \in DOMAIN object : object'[o] = object[o]
           /\ table \subseteq table' /\ InTable'
           /\ \A o \in DOMAIN object' : Owned(o)'
<1> DEFINE R == NewObject(id, did, tenant)
<1>0. PICK n : n = Len(object) + 1
  OBVIOUS
<1>1. object \in Seq(Session) /\ R \in Session /\ R.tenant = tenant /\ R.did = did
  BY DEF Inv, Typed, NewObject, Session
<1> HIDE DEF R
<1>2. object' = Append(object, R) /\ table' = table \cup {n}
  BY <1>0 DEF Makes, R
<1>3. /\ object' \in Seq(Session) /\ DOMAIN object' = DOMAIN object \cup {n}
      /\ \A o \in DOMAIN object : object'[o] = object[o]
      /\ object'[n] = R
  BY <1>0, <1>1, <1>2
<1>4. InTable'
  <2>1. table \subseteq DOMAIN object /\ Cardinality(table) < MaxSessions
    BY DEF Inv, InTable, Admits, Room
  <2>2. IsFiniteSet(table)
    <3>1. DOMAIN object = 1 .. Len(object) /\ Len(object) \in Int
      BY <1>1
    <3>2. QED BY <2>1, <3>1, FS_Interval, FS_Subset
  <2>3. Cardinality(table) \in Nat
    BY <2>2, FS_CardinalityType
  <2>4. Cardinality(table') <= Cardinality(table) + 1
    <3>1. \/ Cardinality(table \cup {n}) = Cardinality(table)
          \/ Cardinality(table \cup {n}) = Cardinality(table) + 1
      BY <2>2, FS_AddElement
    <3>2. QED BY <1>2, <2>3, <3>1
  <2>5. Cardinality(table') \in Nat
    BY <1>2, <2>2, FS_AddElement, FS_CardinalityType
  <2>6. Cardinality(table') <= MaxSessions
    BY <2>1, <2>3, <2>4, <2>5, Names
  <2>7. QED BY <1>2, <1>3, <2>1, <2>6 DEF InTable
<1>5. \A o \in DOMAIN object' : Owned(o)'
  <2>1. Owned(n)'
    BY <1>1, <1>3, Names DEF Owned
  <2>2. ASSUME NEW o \in DOMAIN object PROVE Owned(o)'
    BY <1>3 DEF Inv, Owned
  <2>3. QED BY <1>3, <2>1, <2>2
<1>6. QED BY <1>2, <1>3, <1>4, <1>5

\* Sessions leave the table.
LEMMA RemovesStep ==
    ASSUME Inv, NEW O \in SUBSET table, Removes(O), ask' = ask
    PROVE  Inv'
<1>1. object \in Seq(Session) /\ stream \in [Streams -> Socket]
  BY DEF Inv, Typed
<1>2. \A o \in DOMAIN object :
        /\ object[o] \in Session /\ Closed(object[o]) \in Session
        /\ Closed(object[o]).cancelled
        /\ Closed(object[o]).tenant = object[o].tenant
        /\ Closed(object[o]).did = object[o].did
  <2>1. SUFFICES ASSUME NEW o \in DOMAIN object
                 PROVE  /\ object[o] \in Session /\ Closed(object[o]) \in Session
                        /\ Closed(object[o]).cancelled
                        /\ Closed(object[o]).tenant = object[o].tenant
                        /\ Closed(object[o]).did = object[o].did
    OBVIOUS
  <2>2. object[o] \in Session
    BY <1>1
  <2>3. QED BY <2>2 DEF Closed, Session
<1>3. object' = [o \in DOMAIN object |-> IF o \in O THEN Closed(object[o]) ELSE object[o]]
  BY DEF Removes, ClosesAll
<1>4. object' \in Seq(Session) /\ DOMAIN object' = DOMAIN object
  <2>1. \A o \in DOMAIN object : object'[o] \in Session
    BY <1>2, <1>3
  <2>2. DOMAIN object = 1 .. Len(object) /\ Len(object) \in Nat
    BY <1>1
  <2>3. object' = [o \in 1 .. Len(object) |-> object'[o]]
    BY <1>3, <2>2
  <2>4. QED BY <1>3, <2>1, <2>2, <2>3
<1>5. \A o \in DOMAIN object : GoesOn(object[o], object'[o])
  BY <1>1, <1>2, <1>3 DEF Inv, Owned, GoesOn
<1>6. \A x \in Streams :
        /\ stream'[x] \in Socket
        /\ stream'[x].object = stream[x].object /\ stream'[x].engine = stream[x].engine
        /\ \/ stream'[x].at = stream[x].at
           \/ stream'[x].at = "closing" /\ stream[x].object # 0
  <2>1. stream' = [x \in Streams |->
                     IF stream[x].object \in {o \in O : ~object[o].closed}
                     THEN [stream[x] EXCEPT !.carrier = FALSE,
                             !.at = IF @ \in InTask THEN "closing" ELSE @]
                     ELSE stream[x]]
    BY DEF Removes, Interrupts
  <2>2. \A o \in O : o # 0
    <3>1. DOMAIN object = 1 .. Len(object) /\ Len(object) \in Int
      BY <1>1
    <3>2. QED BY <3>1 DEF Inv, InTable
  <2>3. SUFFICES ASSUME NEW x \in Streams
                 PROVE  /\ stream'[x] \in Socket
                        /\ stream'[x].object = stream[x].object
                        /\ stream'[x].engine = stream[x].engine
                        /\ \/ stream'[x].at = stream[x].at
                           \/ stream'[x].at = "closing" /\ stream[x].object # 0
    OBVIOUS
  <2>4. stream[x] \in Socket
    BY <1>1
  <2>5. CASE stream[x].object \in {o \in O : ~object[o].closed}
    BY <2>1, <2>2, <2>4, <2>5 DEF Socket, Places
  <2>6. CASE stream[x].object \notin {o \in O : ~object[o].closed}
    BY <2>1, <2>4, <2>6
  <2>7. QED BY <2>5, <2>6
<1>7. stream' \in [Streams -> Socket]
  BY <1>6 DEF Removes, Interrupts
<1>8. Typed'
  BY <1>4, <1>7 DEF Inv, Typed
<1>9. InTable'
  <2>1. table' = table \ O /\ table \subseteq DOMAIN object /\ Cardinality(table) <= MaxSessions
    BY DEF Inv, InTable, Removes
  <2>2. IsFiniteSet(table)
    <3>1. DOMAIN object = 1 .. Len(object) /\ Len(object) \in Int
      BY <1>1
    <3>2. QED BY <2>1, <3>1, FS_Interval, FS_Subset
  <2>3. table' \in SUBSET table
    BY <2>1
  <2>4. /\ Cardinality(table') <= Cardinality(table) /\ IsFiniteSet(table')
    BY <2>2, <2>3, FS_Subset
  <2>5. Cardinality(table) \in Nat /\ Cardinality(table') \in Nat
    BY <2>2, <2>4, FS_CardinalityType
  <2>6. QED BY <1>4, <2>1, <2>4, <2>5, Names DEF InTable
<1>10. \A o \in DOMAIN object' : Owned(o)'
  BY <1>4, <1>5 DEF Owned, GoesOn
<1>11. ASSUME NEW x \in Streams PROVE Bound(x)' /\ Held(x)' /\ Served(x)'
  <2>1. Bound(x) /\ Held(x) /\ Served(x)
    BY DEF Inv
  <2>2. ASSUME stream[x].object # 0
        PROVE  /\ GoesOn(object[stream[x].object], object'[stream[x].object])
               /\ \/ object'[stream[x].object].cancelled
                  \/ object[stream[x].object].ws # x
                  \/ /\ object'[stream[x].object].ws = object[stream[x].object].ws
                     /\ stream[x].object \in table => stream[x].object \in table'
    <3>1. stream[x].object \in DOMAIN object
      BY <2>1, <2>2 DEF Bound
    <3>2. CASE stream[x].object \in O
      BY <1>2, <1>3, <1>5, <3>1, <3>2
    <3>3. CASE stream[x].object \notin O
      BY <1>3, <1>5, <3>1, <3>3 DEF Removes
    <3>4. QED BY <3>2, <3>3
  <2>3. QED BY <1>4, <1>6, <2>1, <2>2, OtherStream
<1>12. QED BY <1>8, <1>9, <1>10, <1>11 DEF Inv

-----------------------------------------------------------------------------
(* The requests, and the sessions made for them.                             *)

\* A session is made and no stream has it yet.
LEMMA MakesStep ==
    ASSUME Inv, NEW id \in Nat, NEW did \in Numbers \cup {None},
           NEW tenant \in {None, Default, did},
           Admits, Makes(id, did, tenant), stream' = stream,
           DOMAIN ask' = Asks,
           \A a \in Asks : ask'[a].at = "resolving" => ask'[a].did \in Numbers
    PROVE  Inv'
<1>1. /\ object' \in Seq(Session) /\ DOMAIN object \subseteq DOMAIN object'
      /\ \A o \in DOMAIN object : object'[o] = object[o]
      /\ table \subseteq table' /\ InTable'
      /\ \A o \in DOMAIN object' : Owned(o)'
  BY Grows
<1>2. Typed'
  BY <1>1 DEF Inv, Typed
<1>3. ASSUME NEW x \in Streams PROVE Bound(x)' /\ Held(x)' /\ Served(x)'
  BY <1>1 DEF Inv, Bound, Held, Served, Obj
<1>4. QED BY <1>1, <1>2, <1>3 DEF Inv

LEMMA AnsweredAsks ==
    ASSUME Inv, NEW a \in Asks, NEW status, NEW saw, Answered(a, status, saw)
    PROVE  /\ DOMAIN ask' = Asks
           /\ \A b \in Asks : ask'[b].at = "resolving" => ask'[b].did \in Numbers
  BY DEF Inv, Typed, Answered

LEMMA CreatesStep ==
    ASSUME Inv, NEW a \in Asks, NEW did \in Numbers \cup {None},
           NEW tenant \in {None, Default, did},
           CreatesFor(a, did, tenant), stream' = stream
    PROVE  Inv'
<1>1. CASE Admits
  <2>1. NewId \in Nat
    BY DEF NewId, Inv, Typed
  <2>2. Makes(NewId, did, tenant)
    BY <1>1 DEF CreatesFor
  <2>3. /\ DOMAIN ask' = Asks
        /\ \A b \in Asks : ask'[b].at = "resolving" => ask'[b].did \in Numbers
    BY <1>1, AnsweredAsks DEF CreatesFor
  <2>4. QED BY <1>1, <2>1, <2>2, <2>3, MakesStep
<1>2. CASE ~Admits
  <2>1. UNCHANGED <<object, table>>
    BY <1>2 DEF CreatesFor
  <2>2. /\ DOMAIN ask' = Asks
        /\ \A b \in Asks : ask'[b].at = "resolving" => ask'[b].did \in Numbers
    BY <1>2, AnsweredAsks DEF CreatesFor
  <2>3. QED BY <2>1, <2>2 DEF Inv, Typed, InTable, Bound, Held, Served, Owned, Obj
<1>3. QED BY <1>1, <1>2

LEMMA AskStep ==
    ASSUME Inv, NEW a \in Asks, Asking(a)
    PROVE  Inv'
<1>1. CASE AskDeferred(a)
  BY <1>1, CreatesStep DEF AskDeferred
<1>2. ASSUME NEW did \in Numbers, AskResolves(a, did) PROVE Inv'
  BY <1>2 DEF AskResolves, Inv, Typed, InTable, Bound, Held, Served, Owned, Obj
<1>3. ASSUME NEW answer \in Answers, Resolver(a, answer) PROVE Inv'
  <2>1. stream' = stream /\ ask[a].did \in Numbers
    BY <1>3 DEF Resolver, Inv, Typed
  <2>2. CASE answer \in {"assigned", "default"}
    <3>1. PICK tenant \in {Default, ask[a].did} : CreatesFor(a, ask[a].did, tenant)
      BY <1>3, <2>2 DEF Resolver
    <3>2. QED BY <2>1, <3>1, CreatesStep
  <2>3. CASE answer \notin {"assigned", "default"}
    <3>1. /\ UNCHANGED <<object, table>>
          /\ Answered(a, StatusOf(answer), IF answer \in Findings THEN "found" ELSE "failed")
      BY <1>3, <2>3 DEF Resolver
    <3>2. /\ DOMAIN ask' = Asks
          /\ \A b \in Asks : ask'[b].at = "resolving" => ask'[b].did \in Numbers
      BY <3>1, AnsweredAsks
    <3>3. QED BY <2>1, <3>1, <3>2 DEF Inv, Typed, InTable, Bound, Held, Served, Owned, Obj
  <2>4. QED BY <2>2, <2>3
<1>4. QED BY <1>1, <1>2, <1>3 DEF Asking

-----------------------------------------------------------------------------
(* The streams.                                                              *)

LEMMA IdleSocket ==
    /\ Idle("over") \in Socket /\ Idle("new") \in Socket
    /\ Idle("over").object = 0 /\ ~Idle("over").engine /\ Idle("over").at = "over"
    /\ Idle("new").object = 0 /\ ~Idle("new").engine /\ Idle("new").at = "new"
  BY DEF Idle, Socket, Places

LEMMA TurnedDown ==
    ASSUME Inv, NEW w \in Streams, TurnsDown(w), UNCHANGED <<ask, object, table>>
    PROVE  Inv'
  BY IdleSocket, SocketStep DEF TurnsDown

LEMMA ConnectStep ==
    ASSUME Inv, NEW w \in Streams, NEW id \in Nat, Connect(w, id)
    PROVE  Inv'
<1>1. /\ stream \in [Streams -> Socket] /\ stream[w].at = "new" /\ Bound(w)
      /\ ask' = ask
  BY DEF Inv, Typed, Connect
<1>2. stream[w].object = 0 /\ ~stream[w].engine
  BY <1>1 DEF Bound
<1>3. PICK T \in Socket : /\ stream' = [stream EXCEPT ![w] = T]
                          /\ T.object = 0 /\ ~T.engine /\ T.at \in {"over", "accepting"}
  <2>1. CASE TurnsDown(w)
    BY <2>1, IdleSocket DEF TurnsDown
  <2>2. CASE stream' = [stream EXCEPT ![w].at = "accepting", ![w].id = id, ![w].carrier = TRUE]
    <3> DEFINE S == [stream[w] EXCEPT !.at = "accepting", !.id = id, !.carrier = TRUE]
    <3>1. stream[w] \in Socket
      BY <1>1
    <3>2. S \in Socket /\ S.object = 0 /\ ~S.engine /\ S.at = "accepting"
      BY <1>2, <3>1 DEF Socket, Places
    <3>3. stream' = [stream EXCEPT ![w] = S]
      BY <1>1, <2>2
    <3>4. QED BY <3>2, <3>3
  <2>3. QED BY <2>1, <2>2 DEF Connect
<1>4. CASE UNCHANGED <<object, table>>
  BY <1>1, <1>3, <1>4, SocketStep
<1>5. CASE Admits /\ Makes(id, None, None)
  <2>1. /\ object' \in Seq(Session) /\ DOMAIN object \subseteq DOMAIN object'
        /\ \A o \in DOMAIN object : object'[o] = object[o]
        /\ table \subseteq table' /\ InTable'
        /\ \A o \in DOMAIN object' : Owned(o)'
    BY <1>5, Grows
  <2>2. /\ stream' \in [Streams -> Socket] /\ stream'[w] = T
        /\ \A x \in Streams : x # w => stream'[x] = stream[x]
    BY <1>1, <1>3
  <2>3. Typed'
    BY <1>1, <2>1, <2>2 DEF Inv, Typed
  <2>4. Bound(w)' /\ Held(w)' /\ Served(w)'
    BY <1>3, <2>2 DEF Bound, Held, Served
  <2>5. ASSUME NEW x \in Streams, x # w
        PROVE  Bound(x)' /\ Held(x)' /\ Served(x)'
    BY <2>1, <2>2, <2>5 DEF Inv, Bound, Held, Served, Obj
  <2>6. QED BY <2>1, <2>3, <2>4, <2>5 DEF Inv
<1>6. QED BY <1>4, <1>5 DEF Connect

\* What a stream that has a session knows of it.
LEMMA OfStream ==
    ASSUME Inv, NEW w \in Streams,
           stream[w].at \in {"initializing", "streaming", "resolving", "connecting", "closing"}
    PROVE  /\ stream[w] \in Socket /\ stream[w].object # 0
           /\ stream[w].object \in DOMAIN object
           /\ Obj(w) = object[stream[w].object] /\ Obj(w) \in Session
           /\ Obj(w).tenant \in Numbers => Obj(w).tenant = Obj(w).did
           /\ Bound(w) /\ Held(w) /\ Served(w)
<1>1. stream \in [Streams -> Socket] /\ object \in Seq(Session) /\ Bound(w)
  BY DEF Inv, Typed
<1>2. stream[w].object # 0 /\ stream[w].object \in DOMAIN object
  BY <1>1 DEF Bound
<1>3. Obj(w) = object[stream[w].object] /\ Obj(w) \in Session
  BY <1>1, <1>2 DEF Obj
<1>4. QED BY <1>1, <1>2, <1>3 DEF Inv, Owned

LEMMA RegisterStep ==
    ASSUME Inv, NEW w \in Streams, Register(w)
    PROVE  Inv'
<1>1. /\ stream \in [Streams -> Socket] /\ stream[w].at = "accepting" /\ Bound(w)
      /\ object \in Seq(Session) /\ UNCHANGED <<ask, table>>
  BY DEF Inv, Typed, Register, OnlyStreams
<1>2. CASE Free(w) = {}
  BY <1>1, <1>2, TurnedDown DEF Register
<1>3. CASE Free(w) # {}
  <2>1. PICK o \in Free(w) :
          /\ object' = [object EXCEPT ![o].ws = w, ![o].closed = FALSE]
          /\ stream' = [stream EXCEPT ![w].object = o, ![w].id = 0,
                          ![w].at = IF object[o].tenant = None
                                    THEN "streaming" ELSE "initializing"]
    BY <1>3 DEF Register
  <2>2. o \in table /\ o \in DOMAIN object /\ object[o].ws = None
    BY DEF Free, Of, Inv, InTable
  <2>3. o \in Nat /\ o # 0
    BY <1>1, <2>2
  <2> DEFINE at == IF object[o].tenant = None THEN "streaming" ELSE "initializing"
             T  == [stream[w] EXCEPT !.object = o, !.id = 0, !.at = at]
             R  == [object[o] EXCEPT !.ws = w, !.closed = FALSE]
  <2>4. object[o] \in Session /\ stream[w] \in Socket /\ Owned(o)
    BY <1>1, <2>2 DEF Inv
  <2>5. /\ T \in Socket /\ T.object = o /\ T.at \in {"streaming", "initializing"}
        /\ T.engine = stream[w].engine
    BY <2>3, <2>4 DEF Socket, Places
  <2>6. /\ R \in Session /\ R.ws = w /\ GoesOn(object[o], R)
    BY <2>4 DEF Session, GoesOn, Owned
  <2>7. stream' = [stream EXCEPT ![w] = T] /\ object' = [object EXCEPT ![o] = R]
    BY <1>1, <2>1, <2>2
  <2>8. ~stream[w].engine
    BY <1>1 DEF Bound
  <2> HIDE DEF T, R
  <2>9. QED BY <1>1, <2>2, <2>3, <2>5, <2>6, <2>7, <2>8, StreamStep
<1>4. QED BY <1>2, <1>3

\* Failing closed, whatever the stream was at.
LEMMA FailsClosed ==
    ASSUME Inv, NEW w \in Streams, FailClosed(w), UNCHANGED <<ask, table>>,
           stream[w].at \in {"streaming", "resolving", "connecting"}
    PROVE  Inv'
<1> DEFINE o == stream[w].object
           T == [stream[w] EXCEPT !.at = "closing", !.carrier = FALSE]
           R == [object[o] EXCEPT !.cancelled = TRUE]
<1>1. /\ stream[w] \in Socket /\ o # 0 /\ o \in DOMAIN object /\ object[o] \in Session
      /\ object[o].tenant \in Numbers => object[o].tenant = object[o].did
      /\ Bound(w) /\ Served(w) /\ Obj(w) = object[o]
  BY OfStream
<1>2. /\ T \in Socket /\ T.object = o /\ T.at = "closing" /\ T.engine = stream[w].engine
  BY <1>1 DEF Socket, Places
<1>3. R \in Session /\ R.cancelled /\ R.tenant = object[o].tenant /\ GoesOn(object[o], R)
  BY <1>1 DEF Session, GoesOn
<1>4. stream' = [stream EXCEPT ![w] = T] /\ object' = [object EXCEPT ![o] = R]
  BY <1>1 DEF FailClosed, Inv, Typed
<1>5. T.engine => R.tenant \in Numbers
  BY <1>1, <1>2, <1>3 DEF Served
<1> HIDE DEF T, R, o
<1>6. QED BY <1>1, <1>2, <1>3, <1>4, <1>5, StreamStep

\* A step that moves a stream with its session, and what it needs.
LEMMA MovesOn ==
    ASSUME Inv, NEW w \in Streams, UNCHANGED <<ask, table>>,
           stream[w].at \in {"initializing", "streaming", "resolving", "connecting"},
           NEW T \in Socket, NEW R,
           stream' = [stream EXCEPT ![w] = T],
           object' = [object EXCEPT ![stream[w].object] = R],
           T.object = stream[w].object, T.at \notin {"new", "accepting", "over"},
           GoesOn(Obj(w), R), R.ws = Obj(w).ws,
           R.cancelled => Obj(w).cancelled,
           T.at = "resolving" => R.did \in Numbers,
           T.engine => R.tenant \in Numbers
    PROVE  Inv'
<1>1. /\ stream[w].object # 0 /\ stream[w].object \in DOMAIN object
      /\ Obj(w) = object[stream[w].object] /\ Held(w)
  BY OfStream
<1>2. ~R.cancelled => R.ws = w /\ stream[w].object \in table
  BY <1>1 DEF Held, GoesOn
<1>3. QED BY <1>1, <1>2, StreamStep

LEMMA InitializedStep ==
    ASSUME Inv, NEW w \in Streams, NEW ready \in BOOLEAN, Initialized(w, ready)
    PROVE  Inv'
<1> DEFINE T == [stream[w] EXCEPT !.at = IF Obj(w).cancelled THEN "closing" ELSE "streaming",
                                  !.engine = ready]
           R == [object[stream[w].object] EXCEPT !.client = @ \/ ready]
<1>1. /\ stream[w] \in Socket /\ stream[w].object \in DOMAIN object
      /\ Obj(w) = object[stream[w].object] /\ Obj(w) \in Session
      /\ Obj(w).tenant \in Numbers => Obj(w).tenant = Obj(w).did
      /\ stream[w].at = "initializing" /\ UNCHANGED <<ask, table>>
  BY OfStream DEF Initialized, OnlyStreams
<1>2. /\ T \in Socket /\ T.object = stream[w].object /\ T.at \in {"closing", "streaming"}
      /\ T.engine = ready
  BY <1>1 DEF Socket, Places
<1>3. /\ R.ws = Obj(w).ws /\ R.cancelled = Obj(w).cancelled /\ R.tenant = Obj(w).tenant
      /\ GoesOn(Obj(w), R)
  BY <1>1 DEF Session, GoesOn
<1>4. ready => Obj(w).tenant \in Numbers
  BY DEF Initialized, MayInitialize
<1>5. /\ stream' = [stream EXCEPT ![w] = T]
      /\ object' = [object EXCEPT ![stream[w].object] = R]
  BY <1>1 DEF Initialized, Inv, Typed
<1> HIDE DEF T, R
<1>6. QED BY <1>1, <1>2, <1>3, <1>4, <1>5, MovesOn

LEMMA StartStep ==
    ASSUME Inv, NEW w \in Streams, NEW did \in Numbers, Start(w, did)
    PROVE  Inv'
<1> DEFINE at == IF Obj(w).tenant = None THEN "resolving" ELSE EngineNext(w)
           T  == [stream[w] EXCEPT !.started = TRUE, !.at = at]
           R  == [object[stream[w].object] EXCEPT !.did = StartNumber(w, did)]
<1>1. /\ stream[w] \in Socket /\ stream[w].object \in DOMAIN object
      /\ Obj(w) = object[stream[w].object] /\ Obj(w) \in Session /\ Served(w)
      /\ Obj(w).tenant \in Numbers => Obj(w).tenant = Obj(w).did
      /\ stream[w].at = "streaming" /\ UNCHANGED <<ask, table>>
  BY OfStream DEF Start, Starts, OnlyStreams
<1>2. StartNumber(w, did) \in Numbers /\ (Obj(w).did \in Numbers => StartNumber(w, did) = Obj(w).did)
  BY <1>1, Names DEF StartNumber, Session
<1>3. at \in {"resolving", "streaming", "connecting"}
  BY DEF EngineNext
<1>4. /\ T \in Socket /\ T.object = stream[w].object /\ T.at = at
      /\ T.engine = stream[w].engine
  BY <1>1, <1>3 DEF Socket, Places
<1>5. R.did = StartNumber(w, did) /\ R.tenant = Obj(w).tenant /\ R.ws = Obj(w).ws
      /\ R.cancelled = Obj(w).cancelled /\ R \in Session
  BY <1>1, <1>2 DEF Session
<1>6. /\ stream' = [stream EXCEPT ![w] = T]
      /\ object' = [object EXCEPT ![stream[w].object] = R]
  BY <1>1 DEF Start, Inv, Typed
<1> HIDE DEF T, R, at
<1>7. GoesOn(Obj(w), R)
  BY <1>1, <1>2, <1>5 DEF GoesOn
<1>8. T.engine => R.tenant \in Numbers
  BY <1>1, <1>4, <1>5 DEF Served
<1>9. QED BY <1>1, <1>2, <1>3, <1>4, <1>5, <1>6, <1>7, <1>8, MovesOn

LEMMA StartResolvedStep ==
    ASSUME Inv, NEW w \in Streams, NEW answer \in Answers, StartResolved(w, answer)
    PROVE  Inv'
<1> DEFINE T == [stream[w] EXCEPT !.at = EngineNext(w)]
           R == [object[stream[w].object] EXCEPT !.tenant = Obj(w).did]
<1>1. /\ stream[w] \in Socket /\ stream[w].object \in DOMAIN object
      /\ Obj(w) = object[stream[w].object] /\ Obj(w) \in Session /\ Served(w)
      /\ stream[w].at = "resolving" /\ UNCHANGED <<ask, table>>
  BY OfStream DEF StartResolved, OnlyStreams
<1>2. CASE answer # "assigned"
  BY <1>1, <1>2, FailsClosed DEF StartResolved
<1>3. CASE answer = "assigned"
  <2>1. EngineNext(w) \in {"streaming", "connecting"} /\ Obj(w).did \in Numbers
    BY <1>1 DEF EngineNext, Served
  <2>2. /\ T \in Socket /\ T.object = stream[w].object /\ T.at \in {"streaming", "connecting"}
    BY <1>1, <2>1 DEF Socket, Places
  <2>3. /\ R.tenant = Obj(w).did /\ R.did = Obj(w).did /\ R.ws = Obj(w).ws
        /\ R.cancelled = Obj(w).cancelled /\ R \in Session
    BY <1>1, <2>1 DEF Session
  <2>4. /\ stream' = [stream EXCEPT ![w] = T]
        /\ object' = [object EXCEPT ![stream[w].object] = R]
    BY <1>1, <1>3 DEF StartResolved, Inv, Typed
  <2> HIDE DEF T, R
  <2>5. GoesOn(Obj(w), R)
    BY <1>1, <2>1, <2>3 DEF GoesOn
  <2>6. QED BY <1>1, <2>1, <2>2, <2>3, <2>4, <2>5, MovesOn
<1>4. QED BY <1>2, <1>3

LEMMA StartConnectedStep ==
    ASSUME Inv, NEW w \in Streams, NEW ready \in BOOLEAN, StartConnected(w, ready)
    PROVE  Inv'
<1> DEFINE T == [stream[w] EXCEPT !.at = "streaming", !.engine = TRUE]
           R == [object[stream[w].object] EXCEPT !.client = TRUE]
<1>1. /\ stream[w] \in Socket /\ stream[w].object \in DOMAIN object
      /\ Obj(w) = object[stream[w].object] /\ Obj(w) \in Session
      /\ Obj(w).tenant \in Numbers => Obj(w).tenant = Obj(w).did
      /\ stream[w].at = "connecting" /\ UNCHANGED <<ask, table>>
  BY OfStream DEF StartConnected, OnlyStreams
<1>2. CASE ~ready
  BY <1>1, <1>2, FailsClosed DEF StartConnected
<1>3. CASE ready
  <2>1. Obj(w).tenant \in Numbers
    BY <1>3 DEF StartConnected, MayInitialize
  <2>2. /\ T \in Socket /\ T.object = stream[w].object /\ T.at = "streaming"
    BY <1>1 DEF Socket, Places
  <2>3. /\ R.ws = Obj(w).ws /\ R.cancelled = Obj(w).cancelled /\ R.tenant = Obj(w).tenant
        /\ GoesOn(Obj(w), R)
    BY <1>1 DEF Session, GoesOn
  <2>4. /\ stream' = [stream EXCEPT ![w] = T]
        /\ object' = [object EXCEPT ![stream[w].object] = R]
    BY <1>1, <1>3 DEF StartConnected, Inv, Typed
  <2> HIDE DEF T, R
  <2>5. QED BY <1>1, <2>1, <2>2, <2>3, <2>4, MovesOn
<1>4. QED BY <1>2, <1>3

LEMMA DropsStep ==
    ASSUME Inv, NEW w \in Streams, Drops(w) \/ LoopEnds(w)
    PROVE  Inv'
<1>1. stream \in [Streams -> Socket] /\ stream[w] \in Socket /\ Bound(w)
  BY DEF Inv, Typed
<1>2. CASE Drops(w)
  <2> DEFINE T == [stream[w] EXCEPT !.carrier = FALSE]
  <2>1. /\ T \in Socket /\ T.object = stream[w].object /\ T.at = stream[w].at
        /\ T.engine = stream[w].engine
    BY <1>1 DEF Socket
  <2>2. stream' = [stream EXCEPT ![w] = T] /\ UNCHANGED <<ask, object, table>>
    BY <1>1, <1>2 DEF Drops, OnlyStreams
  <2> HIDE DEF T
  <2>3. QED BY <1>1, <2>1, <2>2, SocketStep DEF Bound
<1>3. CASE LoopEnds(w)
  <2> DEFINE T == [stream[w] EXCEPT !.at = "closing"]
  <2>1. /\ T \in Socket /\ T.object = stream[w].object /\ T.at = "closing"
        /\ T.engine = stream[w].engine
    BY <1>1 DEF Socket, Places
  <2>2. stream' = [stream EXCEPT ![w] = T] /\ UNCHANGED <<ask, object, table>>
    BY <1>1, <1>3 DEF LoopEnds, Moves, OnlyStreams
  <2>3. stream[w].object # 0
    BY <1>1, <1>3 DEF LoopEnds, Bound, InTask
  <2> HIDE DEF T
  <2>4. QED BY <1>1, <2>1, <2>2, <2>3, SocketStep DEF Bound
<1>4. QED BY <1>2, <1>3

LEMMA StreamOverStep ==
    ASSUME Inv, NEW w \in Streams, StreamOver(w)
    PROVE  Inv'
<1> DEFINE o == stream[w].object
           R == [object[o] EXCEPT !.ws = None, !.closed = TRUE]
<1>1. /\ o # 0 /\ o \in DOMAIN object /\ object[o] \in Session /\ Obj(w) = object[o]
      /\ object[o].tenant \in Numbers => object[o].tenant = object[o].did
      /\ Held(w) /\ UNCHANGED <<ask, table>>
  BY OfStream DEF StreamOver, OnlyStreams
<1>2. /\ R \in Session /\ R.cancelled = object[o].cancelled /\ GoesOn(object[o], R)
  BY <1>1 DEF Session, GoesOn
<1>3. stream' = [stream EXCEPT ![w] = Idle("over")] /\ object' = [object EXCEPT ![o] = R]
  BY <1>1 DEF StreamOver, TurnsDown, Inv, Typed
<1>4. object[o].ws = w \/ R.cancelled
  BY <1>1, <1>2 DEF Held, Session
<1> HIDE DEF R, o
<1>5. QED BY <1>1, <1>2, <1>3, <1>4, IdleSocket, StreamStep

\* A session grows old: nothing else of it changes.
LEMMA ExpiresStep ==
    ASSUME Inv, NEW o \in DOMAIN object, Expires(o)
    PROVE  Inv'
<1> DEFINE R == [object[o] EXCEPT !.expired = TRUE]
<1>1. /\ object \in Seq(Session) /\ object[o] \in Session
      /\ object' = [object EXCEPT ![o] = R] /\ UNCHANGED <<ask, table, stream>>
  BY DEF Inv, Typed, Expires
<1>2. /\ R \in Session /\ R.ws = object[o].ws /\ R.cancelled = object[o].cancelled
      /\ R.tenant = object[o].tenant /\ R.did = object[o].did
  BY <1>1 DEF Session
<1> HIDE DEF R
<1>3. /\ object' \in Seq(Session) /\ DOMAIN object' = DOMAIN object
      /\ object'[o] = R /\ \A p \in DOMAIN object : p # o => object'[p] = object[p]
  BY <1>1, <1>2
<1>4. Typed' /\ InTable'
  BY <1>1, <1>3 DEF Inv, Typed, InTable
<1>5. \A p \in DOMAIN object' : Owned(p)'
  BY <1>2, <1>3 DEF Inv, Owned
<1>6. \A p \in DOMAIN object : GoesOn(object[p], object'[p]) /\ object'[p].ws = object[p].ws
  BY <1>1, <1>2, <1>3 DEF Inv, Owned, GoesOn
<1>7. ASSUME NEW x \in Streams PROVE Bound(x)' /\ Held(x)' /\ Served(x)'
  <2>1. Bound(x) /\ Held(x) /\ Served(x)
    BY DEF Inv
  <2>2. stream[x].object # 0 =>
          /\ GoesOn(object[stream[x].object], object'[stream[x].object])
          /\ object'[stream[x].object].ws = object[stream[x].object].ws
    BY <1>6, <2>1 DEF Bound
  <2>3. QED BY <1>1, <1>3, <2>1, <2>2, OtherStream
<1>8. QED BY <1>4, <1>5, <1>7 DEF Inv

LEMMA StreamTakesAStep ==
    ASSUME Inv, NEW w \in Streams, Setting(w) \/ Coming(w)
    PROVE  Inv'
<1>1. CASE Register(w)
  BY <1>1, RegisterStep
<1>2. CASE \E ready \in BOOLEAN : Initialized(w, ready)
  BY <1>2, InitializedStep
<1>3. CASE \E answer \in Answers : StartResolved(w, answer)
  BY <1>3, StartResolvedStep
<1>4. CASE \E ready \in BOOLEAN : StartConnected(w, ready)
  BY <1>4, StartConnectedStep
<1>5. CASE LoopEnds(w) \/ Drops(w)
  BY <1>5, DropsStep
<1>6. CASE StreamOver(w)
  BY <1>6, StreamOverStep
<1>7. CASE RateLimited(w)
  BY <1>7, TurnedDown DEF RateLimited, OnlyStreams
<1>8. CASE \E id \in Addresses : Connect(w, id)
  <2>1. PICK id : id \in Addresses /\ Connect(w, id)
    BY <1>8
  <2>2. id \in Nat
    BY <2>1 DEF Addresses, NewId, Inv, Typed
  <2>3. QED BY <2>1, <2>2, ConnectStep
<1>9. CASE StartUnidentified(w)
  BY <1>9, FailsClosed DEF StartUnidentified, Starts, OnlyStreams
<1>10. CASE \E did \in Numbers : Start(w, did)
  BY <1>10, StartStep
<1>11. QED BY <1>1, <1>2, <1>3, <1>4, <1>5, <1>6, <1>7, <1>8, <1>9, <1>10
          DEF Setting, Coming

-----------------------------------------------------------------------------
(* The theorems.                                                             *)

LEMMA InvInit == Init => Inv
<1> SUFFICES ASSUME Init PROVE Inv
  OBVIOUS
<1>1. Typed
  BY IdleSocket DEF Init, Typed
<1>2. InTable
  BY FS_EmptySet, Names DEF Init, InTable
<1>3. \A w \in Streams : Bound(w) /\ Held(w) /\ Served(w)
  BY IdleSocket DEF Init, Bound, Held, Served
<1>4. \A o \in DOMAIN object : Owned(o)
  BY DEF Init
<1>5. QED BY <1>1, <1>2, <1>3, <1>4 DEF Inv

LEMMA InvStep == Inv /\ [Next]_vars => Inv'
<1> SUFFICES ASSUME Inv, [Next]_vars PROVE Inv'
  OBVIOUS
<1>1. CASE \E a \in Asks : Asking(a)
  BY <1>1, AskStep
<1>2. CASE \E w \in Streams : Setting(w) \/ Coming(w)
  BY <1>2, StreamTakesAStep
<1>3. CASE Prune
  <2>1. Stale \in SUBSET table
    BY DEF Stale
  <2>2. QED BY <1>3, <2>1, RemovesStep DEF Prune
<1>4. CASE Shutdown
  <2>1. table \in SUBSET table
    OBVIOUS
  <2>2. QED BY <1>4, <2>1, RemovesStep DEF Shutdown
<1>5. CASE MinutePasses \/ UNCHANGED vars
  BY <1>5 DEF MinutePasses, vars, Inv, Typed, InTable, Bound, Held, Served, Owned, Obj
<1>6. CASE \E o \in DOMAIN object : Expires(o)
  BY <1>6, ExpiresStep
<1>7. QED BY <1>1, <1>2, <1>3, <1>4, <1>5, <1>6 DEF Next

\* Every reachable state satisfies the inductive invariant, whatever the carrier,
\* the backend and the pruner do and in whatever order handle_stream is resumed.
THEOREM SetupInvariant == Spec => []Inv
  BY InvInit, InvStep, PTL DEF Spec

\* A stream that is heard is the stream of its session.
LEMMA LiveIsHeld ==
    ASSUME Inv, NEW w \in Streams, Live(w)
    PROVE  Obj(w).ws = w /\ stream[w].object \in table
  BY DEF Inv, Live, Held

LEMMA LiveAreFew ==
    ASSUME Inv
    PROVE  Cardinality({w \in Streams : Live(w)}) <= MaxSessions
<1> DEFINE L == {w \in Streams : Live(w)}
           f == [w \in L |-> stream[w].object]
<1>1. f \in [L -> table]
  BY LiveIsHeld
<1>2. \A w, x \in L : f[w] = f[x] => w = x
  <2>1. SUFFICES ASSUME NEW w \in L, NEW x \in L, f[w] = f[x] PROVE w = x
    OBVIOUS
  <2>2. stream[w].object = stream[x].object
    BY <2>1
  <2>3. Obj(w).ws = w /\ Obj(x).ws = x
    BY LiveIsHeld
  <2>4. QED BY <2>2, <2>3 DEF Obj
<1> HIDE DEF f, L
<1>3. f \in Injection(L, table)
  BY <1>1, <1>2 DEF Injection, IsInjective
<1>4. IsFiniteSet(table)
  <2>1. DOMAIN object = 1 .. Len(object) /\ Len(object) \in Int
    BY DEF Inv, Typed
  <2>2. QED BY <2>1, FS_Interval, FS_Subset DEF Inv, InTable
<1>5. IsFiniteSet(L) /\ Cardinality(L) <= Cardinality(table)
  BY <1>3, <1>4, FS_Injection
<1>6. Cardinality(L) \in Nat /\ Cardinality(table) \in Nat
  BY <1>4, <1>5, FS_CardinalityType
<1>7. QED BY <1>5, <1>6, Names DEF Inv, InTable, L

\* No two streams work on one session, the manager knows the session of every
\* stream that is heard, and there are no more of them than it admits.
THEOREM OneStreamPerSession == Spec => []OneStream
<1>1. Inv => OneStream
  <2> SUFFICES ASSUME Inv PROVE OneStream
    OBVIOUS
  <2>1. ASSUME NEW w \in Streams, Live(w), NEW x \in Streams \ {w}, Live(x)
        PROVE  stream[x].object # stream[w].object
    BY <2>1, LiveIsHeld DEF Obj
  <2>2. QED BY <2>1, LiveIsHeld, LiveAreFew DEF OneStream
<1>2. QED BY <1>1, SetupInvariant, PTL

\* The engine serves the tenant that owns the session's number, whatever number
\* a start event names and however often the session is reused.
THEOREM OwnersAreServed == Spec => []EngineServesOwner
<1>1. Inv => EngineServesOwner
  <2> SUFFICES ASSUME Inv, NEW w \in Streams, stream[w].engine
               PROVE  Obj(w).tenant \in Numbers /\ Obj(w).tenant = Obj(w).did
    BY DEF EngineServesOwner
  <2>1. Bound(w) /\ Served(w)
    BY DEF Inv
  <2>2. stream[w].object \in DOMAIN object
    BY <2>1 DEF Bound
  <2>3. QED BY <2>1, <2>2 DEF Inv, Served, Owned, Obj
<1>2. QED BY <1>1, SetupInvariant, PTL
=============================================================================
