------------------------- MODULE TenantRecordsProofs --------------------------
(***************************************************************************)
(* Theorems about TenantRecords for any number of requests, users, slugs   *)
(* and CallSids, and so for any number of organizations and rows: tenants  *)
(* are apart, organizations are whole, answers are true, and a row changes *)
(* only as somebody who may has asked for.  They rest on one inductive     *)
(* invariant, Inv.                                                         *)
(***************************************************************************)
EXTENDS TenantRecords, TLAPS

-----------------------------------------------------------------------------
(* The shape of rows and requests.                                           *)

\* The kinds of rows that belong to another one, and of those that do not.
Parts  == {"config", "followup", "transcript", "summary"}
Wholes == {"organization", "agent", "call", "lead", "document"}
Kinds  == Parts \cup Wholes

Keys == Slugs \cup Sids \cup {None, 0, 1, "first", "second"}

Rows == [kind : Kinds, org : Nat, in : Nat, of : Nat, key : Keys, status : {0, 1},
         notes : {0, 1}, by : Requests \cup {None}]

\* What a PATCH names; <<>> names nothing.
Sets == UNION {[D -> {1}] : D \in SUBSET Fields}

Wishes == [verb : {"none", "make", "done", "insert", "update", "delete", "save", "found"},
           kind : Kinds \cup {"none"}, user : Users \cup {None}, org : Nat,
           looks : Nat, of : Nat, key : Keys, set : Sets]

States == [at : {"idle", "look", "write", "refresh", "profile", "newProfile", "slug",
                 "owner", "answered"},
           p : Wishes, loaded : Rows \cup {<<>>}, made : Nat,
           held : SUBSET (Users \cup Keys), shown : SUBSET Nat, reply : Nat]

\* Ids are given out in order and never again: a request that still names one
\* means the row it was given for, or none.
Typed ==
    /\ last \in Nat /\ DOMAIN row \subseteq 1 .. last
    /\ \A i \in DOMAIN row : row[i] \in Rows
    /\ req \in [Requests -> States]

-----------------------------------------------------------------------------
(* The inductive invariant.                                                  *)

\* What can be deleted, a lead or a document, is what no other row mentions and
\* what no row belongs to whose own parts would be left behind.
Placed(i) ==
    /\ ForeignKey(row[i].in, row[i].org) /\ ForeignKey(row[i].of, row[i].org)
    /\ row[i].of # 0 => row[row[i].of].kind \in {"call", "agent"}
    /\ row[i].in # 0 => row[i].kind \in Parts /\ row[row[i].in].kind \in Wholes

\* A row was made by a request that may and was not refused.
Credited(i) ==
    \A r \in Requests : row[i].by = r =>
        /\ req[r].at \in {"refresh", "answered"} /\ req[r].reply \notin {403, 404, 409}
        /\ Holds(req[r].p.user, row[i].org, Staff)

\* The rows that a request names, as far as they are there, are what its handler
\* takes them for.
Meant(p) ==
    /\ p.looks <= last /\ p.of <= last
    /\ p.of \in DOMAIN row => row[p.of].kind \in {"call", "agent"}
    /\ p.verb \in {"insert", "update", "delete", "save"}
    /\ p.looks \in DOMAIN row /\ p.verb # "update" => row[p.looks].kind = Selected(p)
    /\ p.verb = "insert" => p.kind \in Kinds \ {"organization", "config"}
    /\ p.verb = "save" => p.kind = "summary"
    /\ p.verb = "delete" => p.kind \in {"lead", "document"} /\ p.looks # 0

\* And who sent it may ask for that.
Sound(p) ==
    /\ Meant(p) /\ Holds(p.user, p.org, Staff)
    /\ p.verb = "delete" => Holds(p.user, p.org, Admin)

\* Where a request is and what it may rely on there, although others have
\* committed since it looked.
Fine(q) ==
    /\ q.at # "answered" => q.shown = {} /\ q.reply = 0
    /\ q.shown \subseteq {q.p.org}
    /\ q.made # 0 => q.made \in DOMAIN row \cup removed
    /\ q.reply = 200 /\ q.p.verb = "make" => q.made # 0
    /\ q.at \in {"look", "write"} => Sound(q.p)
    /\ q.at = "write" /\ q.p.verb \in {"update", "delete"} /\ q.p.looks \in DOMAIN row =>
         row[q.p.looks].org = q.p.org
    /\ q.at = "refresh" /\ q.p.verb \in {"insert", "found"} => q.made # 0
    /\ q.at = "owner" =>
         q.p.key \in q.held /\ \A i \in Organizations : row[i].key # q.p.key

\* No two transactions have inserted the same unique key.
KeysAreApart == \A r, q \in Requests : r # q => req[r].held \cap req[q].held = {}

Inv == /\ Typed /\ KeysAreApart /\ OrganizationsAreWhole
       /\ \A i \in DOMAIN row : Placed(i) /\ Credited(i)
       /\ \A r \in Requests : Fine(req[r])

-----------------------------------------------------------------------------
(* Records.                                                                  *)

LEMMA SetsOfFields ==
    /\ <<>> \in Sets /\ [f \in Fields |-> 1] \in Sets /\ Patches \subseteq Sets
    /\ \A s \in Sets : DOMAIN s \subseteq Fields /\ \A f \in DOMAIN s : s[f] = 1
<1>1. <<>> \in Sets
  <2>1. <<>> \in [{} -> {1}]
    OBVIOUS
  <2>2. QED BY <2>1 DEF Sets
<1>2. [f \in Fields |-> 1] \in Sets
  <2>1. [f \in Fields |-> 1] \in [Fields -> {1}]
    OBVIOUS
  <2>2. QED BY <2>1 DEF Sets
<1>3. Patches \subseteq Sets
  BY Zenon DEF Patches, Sets
<1>4. ASSUME NEW s \in Sets PROVE DOMAIN s \subseteq Fields /\ \A f \in DOMAIN s : s[f] = 1
  <2>1. PICK D \in SUBSET Fields : s \in [D -> {1}]
    BY DEF Sets
  <2>2. QED BY <2>1
<1>5. QED BY <1>1, <1>2, <1>3, <1>4

LEMMA Unasked ==
    /\ Nothing \in Wishes /\ Nothing.verb = "none" /\ Nothing.user = None
    /\ Unserved \in States /\ Unserved.at = "idle" /\ Unserved.p = Nothing
    /\ Unserved.made = 0 /\ Unserved.held = {} /\ Unserved.shown = {} /\ Unserved.reply = 0
<1>1. Nothing \in Wishes /\ Nothing.verb = "none" /\ Nothing.user = None
  BY SetsOfFields DEF Nothing, Wishes, Keys
<1>2. QED BY <1>1 DEF Unserved, States

\* A wish that names no row yet.
NamesNone(w, verb, kind) ==
    w \in Wishes /\ w.verb = verb /\ w.kind = kind /\ w.looks = 0 /\ w.of = 0

LEMMA Wanted ==
    ASSUME NEW verb \in {"insert", "update", "delete", "save"}, NEW kind \in Kinds,
           NEW u \in Users, NEW o \in Nat
    PROVE  NamesNone(Wants(verb, kind, u, o), verb, kind)
  BY Unasked DEF NamesNone, Wants, Nothing, Wishes

\* The state a request is answered in.
LEMMA Answering ==
    ASSUME Inv, NEW r \in Requests, NEW code \in Nat, Answer(r, code)
    PROVE  \E T \in States :
             /\ req' = [req EXCEPT ![r] = T]
             /\ T.at = "answered" /\ T.reply = code /\ T.made = req[r].made
             /\ T.held = {} /\ T.shown = {}
             /\ T.p.user = req[r].p.user /\ T.p.org = req[r].p.org
             /\ T.p.verb = "make" => req[r].p.verb \in {"insert", "found"}
<1> DEFINE p == req[r].p
           makes == IF p.verb \in {"insert", "found"} THEN "make" ELSE "done"
           w == Wants(makes, "none", p.user, p.org)
           T == [Unserved EXCEPT !.at = "answered", !.reply = code, !.made = req[r].made,
                                 !.p = w]
<1>1. req[r] \in States /\ p \in Wishes
  BY DEF Inv, Typed, States
<1>2. p.user \in Users \cup {None} /\ p.org \in Nat /\ req[r].made \in Nat
  BY <1>1 DEF Wishes, States
<1>3. /\ w \in Wishes /\ w.user = p.user /\ w.org = p.org
      /\ w.verb = "make" => p.verb \in {"insert", "found"}
  BY <1>2, Unasked DEF Wants, Wishes
<1> HIDE DEF w
<1>4. /\ T \in States /\ T.at = "answered" /\ T.reply = code /\ T.made = req[r].made
      /\ T.held = {} /\ T.shown = {} /\ T.p = w
  BY <1>2, <1>3, Unasked DEF States
<1>5. req' = [req EXCEPT ![r] = T]
  BY DEF Answer, w
<1>6. QED BY <1>3, <1>4, <1>5

-----------------------------------------------------------------------------
(* The life of a request, with the rows left alone.                          *)

\* Nothing of it is in the database before it has written.
LEMMA Unwritten ==
    ASSUME Inv, NEW r \in Requests, req[r].at \notin {"refresh", "answered"}
    PROVE  \A i \in DOMAIN row : row[i].by # r
  BY DEF Inv, Credited

LEMMA RequestStep ==
    ASSUME Inv, NEW r \in Requests, NEW T \in States, req' = [req EXCEPT ![r] = T],
           OnlyRequests, Fine(T),
           \A q \in Requests : q # r => T.held \cap req[q].held = {},
           req[r].at \in {"refresh", "answered"} =>
             /\ T.at \in {"refresh", "answered"} /\ T.reply \notin {403, 404, 409}
             /\ T.p.user = req[r].p.user
    PROVE  Inv'
<1>1. /\ req' \in [Requests -> States] /\ req'[r] = T
      /\ \A q \in Requests : q # r => req'[q] = req[q]
  BY DEF Inv, Typed
<1>2. Typed' /\ OrganizationsAreWhole'
  BY <1>1 DEF Inv, Typed, OrganizationsAreWhole, Organizations, OnlyRequests
<1>3. KeysAreApart'
  BY <1>1 DEF Inv, KeysAreApart
<1>4. ASSUME NEW i \in DOMAIN row PROVE Placed(i)' /\ Credited(i)'
  <2>1. Placed(i)'
    BY DEF Inv, Placed, ForeignKey, OnlyRequests
  <2>2. Credited(i)'
    BY <1>1 DEF Inv, Credited, Holds, OnlyRequests
  <2>3. QED BY <2>1, <2>2
<1>5. \A q \in States : Fine(q) => Fine(q)'
  BY DEF Fine, Sound, Meant, Selected, Holds, Organizations, OnlyRequests
<1>6. ASSUME NEW q \in Requests PROVE Fine(req[q])'
  <2>1. PICK c : c = req'[q] /\ c \in States
    BY <1>1
  <2>2. Fine(c)
    BY <1>1, <2>1 DEF Inv
  <2>3. Fine(c)'
    BY <1>5, <2>1, <2>2
  <2>4. QED BY <2>1, <2>3 DEF Fine, Sound, Meant, Selected, Holds, Organizations
<1>7. QED BY <1>2, <1>3, <1>4, <1>6 DEF Inv, OnlyRequests

LEMMA AnswerStep ==
    ASSUME Inv, NEW r \in Requests, NEW code \in Nat, Answer(r, code), OnlyRequests,
           code = 200 /\ req[r].p.verb \in {"insert", "found"} => req[r].made # 0,
           code \in {403, 404, 409} => req[r].at \notin {"refresh", "answered"}
    PROVE  Inv'
<1>1. PICK T \in States :
        /\ req' = [req EXCEPT ![r] = T]
        /\ T.at = "answered" /\ T.reply = code /\ T.made = req[r].made
        /\ T.held = {} /\ T.shown = {}
        /\ T.p.user = req[r].p.user /\ T.p.org = req[r].p.org
        /\ T.p.verb = "make" => req[r].p.verb \in {"insert", "found"}
  BY Answering
<1>2. Fine(T)
  BY <1>1 DEF Inv, Fine
<1>3. \A q \in Requests : q # r => T.held \cap req[q].held = {}
  BY <1>1
<1>4. req[r].at \in {"refresh", "answered"} =>
        /\ T.at \in {"refresh", "answered"} /\ T.reply \notin {403, 404, 409}
        /\ T.p.user = req[r].p.user
  BY <1>1
<1>5. req' = [req EXCEPT ![r] = T]
  BY <1>1
<1>6. QED BY <1>2, <1>3, <1>4, <1>5, RequestStep

LEMMA RequestTyped ==
    ASSUME Inv, NEW r \in Requests
    PROVE  /\ req[r] \in States /\ req[r].p \in Wishes /\ Fine(req[r]) /\ last \in Nat
           /\ \A i \in DOMAIN row : i \in Nat /\ i # 0 /\ i <= last /\ row[i] \in Rows
           /\ \A q \in Requests : q # r => req[r].held \cap req[q].held = {}
<1>1. req[r] \in States /\ Fine(req[r]) /\ last \in Nat
  BY DEF Inv, Typed
<1>2. req[r].p \in Wishes
  BY <1>1 DEF States
<1>3. QED BY <1>1, <1>2 DEF Inv, Typed, KeysAreApart

\* Who may ask is let through, with a request that names rows it has seen.
LEMMA AcceptsStep ==
    ASSUME Inv, NEW r \in Requests, NEW p \in Wishes, Meant(p),
           NEW roles \in {Staff, Admin}, p.verb = "delete" => roles = Admin,
           Accepts(r, roles, p)
    PROVE  Inv'
<1>1. /\ req[r] \in States /\ Fine(req[r]) /\ req[r].at = "idle" /\ OnlyRequests
      /\ \A q \in Requests : q # r => req[r].held \cap req[q].held = {}
      /\ req \in [Requests -> States]
  BY RequestTyped DEF Accepts, Inv, Typed
<1>2. CASE ~Holds(p.user, p.org, roles)
  BY <1>1, <1>2, AnswerStep DEF Accepts
<1>3. CASE Holds(p.user, p.org, roles)
  <2> DEFINE at == IF p.looks = 0 THEN "write" ELSE "look"
             T  == [req[r] EXCEPT !.p = p, !.at = at]
  <2>1. /\ T \in States /\ T.p = p /\ T.at = at /\ T.shown = req[r].shown
        /\ T.reply = req[r].reply /\ T.made = req[r].made /\ T.held = req[r].held
    BY <1>1 DEF States
  <2>2. req' = [req EXCEPT ![r] = T]
    BY <1>1, <1>3 DEF Accepts
  <2>3. Sound(p)
    <3>1. Holds(p.user, p.org, Staff)
      BY <1>3 DEF Holds, Staff, Admin
    <3>2. QED BY <1>3, <3>1 DEF Sound
  <2>4. at \in {"look", "write"} /\ (at = "write" => p.looks = 0)
    OBVIOUS
  <2> HIDE DEF T, at
  <2>5. Fine(T)
    <3>1. 0 \notin DOMAIN row
      BY RequestTyped
    <3>2. QED BY <1>1, <2>1, <2>3, <2>4, <3>1 DEF Fine
  <2>6. QED BY <1>1, <2>1, <2>2, <2>5, RequestStep
<1>4. QED BY <1>2, <1>3

\* What was selected is of the organization that was asked for.
LEMMA LookStep ==
    ASSUME Inv, NEW r \in Requests, Look(r)
    PROVE  Inv'
<1> DEFINE p == req[r].p
<1>1. /\ req[r] \in States /\ p \in Wishes /\ Fine(req[r]) /\ req[r].at = "look"
      /\ OnlyRequests /\ req \in [Requests -> States] /\ last \in Nat
      /\ \A i \in DOMAIN row : i \in Nat /\ i # 0 /\ i <= last /\ row[i] \in Rows
      /\ \A q \in Requests : q # r => req[r].held \cap req[q].held = {}
  BY RequestTyped DEF Look, Inv, Typed
<1>2. Sound(p)
  BY <1>1 DEF Fine
<1>3. ASSUME NEW id \in DOMAIN row, row[id].org = p.org,
             NEW verb \in {"insert", "update", "delete"},
             verb = "update" \/ (verb = p.verb /\ id = p.looks)
               \/ (verb = "insert" /\ p.verb = "save" /\ id = p.looks),
             NEW T \in States, req' = [req EXCEPT ![r] = T],
             T.at = "write", T.p.verb = verb, T.p.looks = id,
             T.p.kind = p.kind, T.p.user = p.user, T.p.org = p.org, T.p.of = p.of,
             T.held = req[r].held, T.shown = req[r].shown, T.reply = req[r].reply,
             T.made = req[r].made
      PROVE  Inv'
  <2>1. Meant(T.p)
    BY <1>1, <1>2, <1>3 DEF Sound, Meant, Selected, Kinds, Parts
  <2>2. Sound(T.p)
    BY <1>2, <1>3, <2>1 DEF Sound, Meant
  <2>3. Fine(T)
    BY <1>1, <1>3, <2>2 DEF Fine
  <2>4. QED BY <1>1, <1>3, <2>3, RequestStep
<1>4. CASE ~Found(p)
  BY <1>1, <1>4, AnswerStep DEF Look
<1>5. CASE Found(p) /\ p.verb = "save" /\ SummaryOf(p) # {}
  <2>1. PICK s \in SummaryOf(p) :
          req' = [req EXCEPT ![r].at = "write", ![r].loaded = row[s],
                             ![r].p.verb = "update", ![r].p.looks = s]
    BY <1>5 DEF Look
  <2>2. s \in DOMAIN row /\ row[s].org = p.org
    BY DEF SummaryOf, Ids
  <2> DEFINE w == [p EXCEPT !.verb = "update", !.looks = s]
             T == [req[r] EXCEPT !.at = "write", !.loaded = row[s], !.p = w]
  <2>3. /\ w \in Wishes /\ w.verb = "update" /\ w.looks = s /\ w.kind = p.kind
        /\ w.user = p.user /\ w.org = p.org /\ w.of = p.of
    BY <1>1, <2>2 DEF Wishes
  <2>4. /\ T \in States /\ T.at = "write" /\ T.p = w /\ T.held = req[r].held
        /\ T.shown = req[r].shown /\ T.reply = req[r].reply /\ T.made = req[r].made
    BY <1>1, <2>2, <2>3 DEF States
  <2>5. req' = [req EXCEPT ![r] = T]
    BY <1>1, <2>1 DEF States, Wishes
  <2> HIDE DEF T, w
  <2>6. QED BY <1>3, <2>2, <2>3, <2>4, <2>5
<1>6. CASE Found(p) /\ ~(p.verb = "save" /\ SummaryOf(p) # {})
  <2>1. req' = [req EXCEPT ![r].at = "write", ![r].loaded = row[p.looks],
                           ![r].p.verb = IF @ = "save" THEN "insert" ELSE @]
    BY <1>6 DEF Look
  <2>2. p.looks \in DOMAIN row /\ row[p.looks].org = p.org
    BY <1>6 DEF Found, Ids
  <2> DEFINE verb == IF p.verb = "save" THEN "insert" ELSE p.verb
             w == [p EXCEPT !.verb = verb]
             T == [req[r] EXCEPT !.at = "write", !.loaded = row[p.looks], !.p = w]
  <2>3. /\ verb \in {"insert", "update", "delete"}
        /\ verb = "update" \/ (verb = p.verb /\ p.looks = p.looks)
             \/ (verb = "insert" /\ p.verb = "save" /\ p.looks = p.looks)
    BY <1>2 DEF Sound, Meant
  <2>4. /\ w \in Wishes /\ w.verb = verb /\ w.looks = p.looks /\ w.kind = p.kind
        /\ w.user = p.user /\ w.org = p.org /\ w.of = p.of
    BY <1>1, <2>3 DEF Wishes
  <2>5. /\ T \in States /\ T.at = "write" /\ T.p = w /\ T.held = req[r].held
        /\ T.shown = req[r].shown /\ T.reply = req[r].reply /\ T.made = req[r].made
    BY <1>1, <2>2, <2>4 DEF States
  <2>6. req' = [req EXCEPT ![r] = T]
    BY <1>1, <2>1 DEF States, Wishes
  <2> HIDE DEF T, w, verb
  <2>7. QED BY <1>3, <2>2, <2>3, <2>4, <2>5, <2>6
<1>7. QED BY <1>4, <1>5, <1>6

\* A 200 to a request that made something names what it has made.
LEMMA RefreshStep ==
    ASSUME Inv, NEW r \in Requests, Refresh(r) \/ Lost(r)
    PROVE  Inv'
<1>1. Fine(req[r]) /\ OnlyRequests
  BY RequestTyped DEF Refresh, Lost
<1>2. CASE Answer(r, 500)
  BY <1>1, <1>2, AnswerStep
<1>3. CASE Refresh(r) /\ Answer(r, 200)
  <2>1. req[r].p.verb \in {"insert", "found"} => req[r].made # 0
    BY <1>1, <1>3 DEF Refresh, Fine
  <2>2. QED BY <1>1, <1>3, <2>1, AnswerStep
<1>4. QED BY <1>2, <1>3 DEF Refresh, Lost, Abandon

\* What is shown is of the organization that was asked for.
LEMMA ShowsStep ==
    ASSUME Inv, NEW r \in Requests, NEW u \in Users, NEW o \in Nat, NEW found \in BOOLEAN,
           NEW S \in SUBSET DOMAIN row, \A i \in S : row[i].org = o,
           Shows(r, u, o, found, S)
    PROVE  Inv'
<1> DEFINE p == Wants("done", "none", u, o)
           reply == IF ~Holds(u, o, Viewing) THEN 403 ELSE IF found THEN 200 ELSE 404
           shown == IF Holds(u, o, Viewing) THEN {row[i].org : i \in S} ELSE {}
           T == [req[r] EXCEPT !.at = "answered", !.p = p, !.reply = reply, !.shown = shown]
<1>1. /\ req[r] \in States /\ Fine(req[r]) /\ req[r].at = "idle" /\ OnlyRequests
      /\ \A q \in Requests : q # r => req[r].held \cap req[q].held = {}
      /\ req \in [Requests -> States]
  BY RequestTyped DEF Shows, Inv, Typed
<1>2. p \in Wishes /\ p.verb = "done" /\ p.org = o
  BY Unasked DEF Wants, Wishes
<1>3. shown \subseteq {o} /\ reply \in Nat
  OBVIOUS
<1>4. req' = [req EXCEPT ![r].at = "answered", ![r].p = p, ![r].reply = reply,
                         ![r].shown = shown]
  BY DEF Shows
<1> HIDE DEF p, reply, shown
<1>5. /\ T \in States /\ T.at = "answered" /\ T.p = p /\ T.reply = reply
      /\ T.shown = shown /\ T.held = req[r].held /\ T.made = req[r].made
  BY <1>1, <1>2, <1>3 DEF States
<1>6. req' = [req EXCEPT ![r] = T]
  BY <1>1, <1>4
<1> HIDE DEF T
<1>7. Fine(T)
  BY <1>1, <1>2, <1>3, <1>5 DEF Fine
<1>8. QED BY <1>1, <1>5, <1>6, <1>7, RequestStep

LEMMA ReadStep ==
    ASSUME Inv, NEW r \in Requests, NEW u \in Users, NEW o \in Nat, NEW kind,
           Lists(r, u, o, kind) \/ Gets(r, u, o, kind)
    PROVE  Inv'
<1>1. CASE Lists(r, u, o, kind)
  <2> DEFINE S == {i \in Ids(kind) : row[i].org = o}
  <2>1. S \in SUBSET DOMAIN row /\ \A i \in S : row[i].org = o
    BY DEF Ids
  <2>2. Shows(r, u, o, TRUE, S)
    BY <1>1 DEF Lists
  <2> HIDE DEF S
  <2>3. QED BY <2>1, <2>2, ShowsStep
<1>2. CASE Gets(r, u, o, kind)
  <2>1. PICK id \in Ids(kind) :
          Shows(r, u, o, row[id].org = o, IF row[id].org = o THEN Cascade(id) ELSE {})
    BY <1>2 DEF Gets
  <2> DEFINE S == IF row[id].org = o THEN Cascade(id) ELSE {}
  <2>2. id \in DOMAIN row /\ id # 0
    BY RequestTyped DEF Ids
  <2>3. S \in SUBSET DOMAIN row
    BY DEF Cascade
  <2>4. ASSUME NEW i \in S PROVE row[i].org = o
    <3>1. row[id].org = o /\ i \in DOMAIN row /\ (i = id \/ row[i].in = id)
      BY <2>4 DEF Cascade
    <3>2. row[i].in = id => row[id].org = row[i].org
      BY <2>2, <3>1 DEF Inv, Placed, ForeignKey
    <3>3. QED BY <3>1, <3>2
  <2>5. Shows(r, u, o, row[id].org = o, S) /\ (row[id].org = o) \in BOOLEAN
    BY <2>1
  <2> HIDE DEF S
  <2>6. QED BY <2>3, <2>4, <2>5, ShowsStep
<1>3. QED BY <1>1, <1>2

-----------------------------------------------------------------------------
(* Founding an organization, up to its commit.                               *)

\* A transaction that has inserted a key has it to itself, and whoever is about to
\* commit an organization has its slug.
LEMMA KeyStep ==
    ASSUME Inv, NEW r \in Requests, NEW key \in Users \cup Keys, NEW exists \in BOOLEAN,
           NEW next \in {"slug", "owner"}, FlushKey(r, key, exists, next), OnlyRequests,
           req[r].at \in {"newProfile", "slug"},
           next = "owner" =>
             key = req[r].p.key /\ (~exists => \A i \in Organizations : row[i].key # key)
    PROVE  Inv'
<1>1. /\ req[r] \in States /\ Fine(req[r]) /\ req \in [Requests -> States]
      /\ \A q \in Requests : q # r => req[r].held \cap req[q].held = {}
  BY RequestTyped DEF Inv, Typed
<1>2. CASE exists
  BY <1>1, <1>2, AnswerStep DEF FlushKey, Abandon
<1>3. CASE ~exists
  <2> DEFINE held == req[r].held \cup {key}
             T == [req[r] EXCEPT !.held = held, !.at = next]
  <2>1. /\ T \in States /\ T.p = req[r].p /\ T.at = next /\ T.held = held
        /\ T.shown = req[r].shown /\ T.reply = req[r].reply /\ T.made = req[r].made
    BY <1>1 DEF States
  <2>2. req' = [req EXCEPT ![r] = T]
    BY <1>1, <1>3 DEF FlushKey
  <2>3. \A q \in Requests : q # r => held \cap req[q].held = {}
    <3>1. \A q \in Requests : key \notin req[q].held
      BY DEF FlushKey, Holder
    <3>2. QED BY <1>1, <3>1
  <2>4. next = "owner" => req[r].p.key \in held /\ \A i \in Organizations : row[i].key # req[r].p.key
    BY <1>3
  <2> HIDE DEF T, held
  <2>5. Fine(T)
    BY <1>1, <2>1, <2>4 DEF Fine
  <2>6. QED BY <1>1, <2>1, <2>2, <2>3, <2>5, RequestStep
<1>4. QED BY <1>2, <1>3

LEMMA FoundingStep ==
    ASSUME Inv, NEW r \in Requests,
           \/ \E u \in Users : \E slug \in Slugs : FoundOrganization(r, u, slug)
           \/ LookForProfile(r) \/ FlushProfile(r) \/ FlushOrganization(r)
    PROVE  Inv'
<1>1. /\ req[r] \in States /\ req[r].p \in Wishes /\ Fine(req[r])
      /\ req \in [Requests -> States]
      /\ \A q \in Requests : q # r => req[r].held \cap req[q].held = {}
  BY RequestTyped DEF Inv, Typed
<1>2. ASSUME NEW u \in Users, NEW slug \in Slugs, FoundOrganization(r, u, slug) PROVE Inv'
  <2> DEFINE p == [Wants("found", "organization", u, 0) EXCEPT !.key = slug]
             T == [req[r] EXCEPT !.p = p, !.at = "profile"]
  <2>1. req[r].at = "idle" /\ OnlyRequests
    BY <1>2 DEF FoundOrganization
  <2>2. CASE Answer(r, 409)
    BY <1>1, <2>1, <2>2, AnswerStep
  <2>3. CASE req' = [req EXCEPT ![r].p = p, ![r].at = "profile"]
    <3>1. p \in Wishes /\ p.org = 0
      BY Unasked DEF Wants, Wishes, Keys, Kinds, Wholes
    <3> HIDE DEF p
    <3>2. /\ T \in States /\ T.at = "profile" /\ T.p = p /\ T.held = req[r].held
          /\ T.shown = req[r].shown /\ T.reply = req[r].reply /\ T.made = req[r].made
      BY <1>1, <3>1 DEF States
    <3>3. req' = [req EXCEPT ![r] = T]
      BY <1>1, <2>3
    <3> HIDE DEF T
    <3>4. Fine(T)
      BY <1>1, <2>1, <3>2 DEF Fine
    <3>5. QED BY <1>1, <2>1, <3>2, <3>3, <3>4, RequestStep
  <2>4. QED BY <1>2, <2>2, <2>3 DEF FoundOrganization
<1>3. CASE LookForProfile(r)
  <2> DEFINE at == IF req[r].p.user \in profile THEN "slug" ELSE "newProfile"
             T == [req[r] EXCEPT !.at = at]
  <2>1. req[r].at = "profile" /\ OnlyRequests /\ req' = [req EXCEPT ![r] = T]
    BY <1>1, <1>3 DEF LookForProfile, Goes
  <2>2. /\ T \in States /\ T.at \in {"slug", "newProfile"} /\ T.p = req[r].p
        /\ T.held = req[r].held /\ T.shown = req[r].shown /\ T.reply = req[r].reply
        /\ T.made = req[r].made
    BY <1>1 DEF States
  <2> HIDE DEF T
  <2>3. Fine(T)
    BY <1>1, <2>1, <2>2 DEF Fine
  <2>4. QED BY <1>1, <2>1, <2>2, <2>3, RequestStep
<1>4. CASE FlushProfile(r)
  <2>1. req[r].p.user \in Users \cup Keys
    BY <1>1 DEF Wishes, Keys
  <2>2. /\ req[r].at = "newProfile" /\ OnlyRequests
        /\ FlushKey(r, req[r].p.user, req[r].p.user \in profile, "slug")
    BY <1>4 DEF FlushProfile
  <2> DEFINE exists == req[r].p.user \in profile
  <2>3. exists \in BOOLEAN /\ FlushKey(r, req[r].p.user, exists, "slug")
    BY <2>2
  <2> HIDE DEF exists
  <2>4. QED BY <2>1, <2>2, <2>3, KeyStep
<1>5. CASE FlushOrganization(r)
  <2> DEFINE taken == \E i \in Organizations : row[i].key = req[r].p.key
  <2>1. req[r].p.key \in Users \cup Keys /\ taken \in BOOLEAN
    BY <1>1 DEF Wishes
  <2>2. /\ req[r].at = "slug" /\ OnlyRequests /\ FlushKey(r, req[r].p.key, taken, "owner")
    BY <1>5 DEF FlushOrganization
  <2>3. ~taken => \A i \in Organizations : row[i].key # req[r].p.key
    OBVIOUS
  <2> HIDE DEF taken
  <2>4. QED BY <2>1, <2>2, <2>3, KeyStep
<1>6. QED BY <1>2, <1>3, <1>4, <1>5

-----------------------------------------------------------------------------
(* Commits: what becomes of the rows, and of the other requests.             *)

\* Rows stay what they are, and new ones get new ids.
Succeeds ==
    /\ last' \in Nat /\ last <= last' /\ member \subseteq member'
    /\ DOMAIN row' \subseteq 1 .. last'
    /\ \A i \in DOMAIN row' :
         /\ row'[i] \in Rows
         /\ i <= last =>
              /\ i \in DOMAIN row /\ row'[i].kind = row[i].kind /\ row'[i].org = row[i].org
              /\ row'[i].key = row[i].key /\ row'[i].by = row[i].by
              /\ row'[i].in = row[i].in /\ row'[i].of = row[i].of
    /\ DOMAIN row \cup removed \subseteq DOMAIN row' \cup removed'

\* What another request relies on is not disturbed by a commit.
LEMMA OthersStayFine ==
    ASSUME Inv, Succeeds, NEW q \in States, Fine(q),
           q.at = "owner" => \A i \in DOMAIN row' :
             i > last /\ row'[i].kind = "organization" => row'[i].key # q.p.key
    PROVE  Fine(q)'
<1>1. q.p \in Wishes /\ last \in Nat /\ q.p.looks \in Nat /\ q.p.of \in Nat
  BY DEF States, Wishes, Inv, Typed
<1>2. \A i \in DOMAIN row' : i \in Nat /\ (i > last \/ i <= last)
  BY <1>1 DEF Succeeds
<1>3. \A u, o, S : Holds(u, o, S) => Holds(u, o, S)'
  BY DEF Holds, Succeeds
<1>4. Sound(q.p) => Sound(q.p)'
  <2>1. Meant(q.p) => Meant(q.p)'
    BY <1>1, <1>2 DEF Meant, Succeeds, Selected
  <2>2. QED BY <1>3, <2>1 DEF Sound
<1>5. q.at = "write" /\ q.p.looks \in DOMAIN row' => q.p.looks <= last
  BY DEF Fine, Sound, Meant
<1>6. q.at = "owner" => \A i \in Organizations' : row'[i].key # q.p.key
  BY <1>2 DEF Fine, Organizations, Succeeds
<1>7. q.made # 0 => q.made \in DOMAIN row' \cup removed'
  BY DEF Fine, Succeeds
<1>8. q.at \in {"look", "write"} => Sound(q.p)'
  BY <1>4 DEF Fine
<1>9. q.at = "write" /\ q.p.verb \in {"update", "delete"} /\ q.p.looks \in DOMAIN row' =>
         row'[q.p.looks].org = q.p.org
  BY <1>5 DEF Fine, Succeeds
<1>10. QED BY <1>6, <1>7, <1>8, <1>9 DEF Fine

\* Among these members the user may write for the organization.
Has(M, user, org) == \E m \in M : m.user = user /\ m.org = org /\ m.role \in Staff

\* The new rows are the request's, and of an organization it may write for.
NewRowsAreOf(r) ==
    \A i \in DOMAIN row' : i > last =>
        row'[i].by = r /\ Has(member', req[r].p.user, row'[i].org)

\* And none of them takes a slug that another transaction has.
NewSlugsAreFree(r) ==
    \A q \in Requests : q # r /\ req[q].at = "owner" =>
        \A i \in DOMAIN row' :
            i > last /\ row'[i].kind = "organization" => row'[i].key # req[q].p.key

AllArePlaced == \A i \in DOMAIN row : Placed(i)

\* A commit of one request: what is left to show is about its own rows.
LEMMA CommitStep ==
    ASSUME Inv, NEW r \in Requests, NEW T \in States, req' = [req EXCEPT ![r] = T],
           Succeeds, T.at \in {"refresh", "answered"}, T.reply \notin {403, 404, 409},
           T.held \subseteq req[r].held, T.p.user = req[r].p.user, Fine(T)', OrganizationsAreWhole',
           AllArePlaced', NewRowsAreOf(r), NewSlugsAreFree(r)
    PROVE  Inv'
<1>1. /\ req \in [Requests -> States] /\ req' \in [Requests -> States] /\ req'[r] = T
      /\ \A q \in Requests : q # r => req'[q] = req[q]
      /\ last \in Nat
  BY DEF Inv, Typed
<1>2. Typed'
  BY <1>1 DEF Typed, Succeeds
<1>3. KeysAreApart'
  BY <1>1 DEF Inv, KeysAreApart
<1>4. ASSUME NEW i \in DOMAIN row' PROVE Credited(i)'
  <2>1. \A u, o : Has(member, u, o) => Has(member', u, o)
    BY DEF Has, Succeeds
  <2>2. i \in Nat
    BY DEF Succeeds
  <2>3. SUFFICES ASSUME NEW q \in Requests, row'[i].by = q
                 PROVE  /\ req'[q].at \in {"refresh", "answered"}
                        /\ req'[q].reply \notin {403, 404, 409}
                        /\ Has(member', req'[q].p.user, row'[i].org)
    BY DEF Credited, Has, Holds
  <2>4. CASE i <= last
    <3>1. /\ i \in DOMAIN row /\ row[i].by = q /\ row'[i].org = row[i].org
      BY <2>3, <2>4 DEF Succeeds
    <3>2. /\ req[q].at \in {"refresh", "answered"} /\ req[q].reply \notin {403, 404, 409}
          /\ Has(member, req[q].p.user, row[i].org)
      BY <3>1 DEF Inv, Credited, Has, Holds
    <3>3. req'[q].p.user = req[q].p.user
      BY <1>1
    <3>4. QED BY <1>1, <2>1, <3>1, <3>2, <3>3
  <2>5. CASE i > last
    <3>1. q = r /\ Has(member', req[r].p.user, row'[i].org)
      BY <2>3, <2>5 DEF NewRowsAreOf
    <3>2. QED BY <1>1, <3>1
  <2>6. QED BY <1>1, <2>2, <2>4, <2>5
<1>5. ASSUME NEW q \in Requests PROVE Fine(req[q])'
  <2>1. PICK c : c = req'[q] /\ c \in States
    BY <1>1
  <2>2. Fine(c)'
    <3>1. CASE q = r
      <4>1. c = T
        BY <1>1, <2>1, <3>1
      <4>2. QED BY <4>1 DEF Fine, Sound, Meant, Selected, Holds, Organizations
    <3>2. CASE q # r
      <4>1. c = req[q]
        BY <1>1, <2>1, <3>2
      <4>2. Fine(c)
        BY <4>1 DEF Inv
      <4>3. QED BY <2>1, <3>2, <4>1, <4>2, OthersStayFine DEF NewSlugsAreFree
    <3>3. QED BY <3>1, <3>2
  <2>3. QED BY <2>1, <2>2 DEF Fine, Sound, Meant, Selected, Holds, Organizations
<1>6. QED BY <1>2, <1>3, <1>4, <1>5 DEF Inv, AllArePlaced

\* Organizations that no commit touched are as whole as they were.
LEMMA OrganizationsStay ==
    ASSUME OrganizationsAreWhole, Organizations' = Organizations,
           \A i \in Organizations : row'[i].key = row[i].key,
           UNCHANGED <<member, subscription>>
    PROVE  OrganizationsAreWhole'
  BY DEF OrganizationsAreWhole

\* A row that the database accepts is well placed, and so are the others: no
\* organization and no lead is mentioned by what handlers insert.
LEMMA InsertStep ==
    ASSUME Inv, NEW r \in Requests, Insert(r)
    PROVE  Inv'
<1> DEFINE p == req[r].p
           in == IF p.kind \in {"followup", "transcript", "summary"} THEN p.looks ELSE 0
           new == Row(p.kind, p.org, in, p.of, p.key, r)
           config == Row("config", p.org, last + 1, 0, None, r)
           count == IF p.kind = "agent" THEN 2 ELSE 1
<1>1. /\ req[r] \in States /\ p \in Wishes /\ Fine(req[r]) /\ req \in [Requests -> States]
      /\ req[r].at = "write" /\ p.verb = "insert" /\ last \in Nat
      /\ \A i \in DOMAIN row : i \in Nat /\ i # 0 /\ i <= last /\ row[i] \in Rows
  BY RequestTyped DEF Insert, Inv, Typed
<1>2. Sound(p) /\ Meant(p) /\ p.kind \in Kinds \ {"organization", "config"}
  BY <1>1 DEF Fine, Sound, Meant
<1>3. CASE ~Acceptable(new)
  <2>1. Answer(r, 500) /\ OnlyRequests
    BY <1>3 DEF Insert, Abandon, OnlyRequests
  <2>2. QED BY <1>1, <2>1, AnswerStep
<1>4. CASE Acceptable(new)
  <2>1. /\ last' = last + count
        /\ row' = [i \in DOMAIN row \cup (last + 1 .. last + count) |->
                     IF i \in DOMAIN row THEN row[i]
                     ELSE IF i = last + 1 THEN new ELSE config]
        /\ req' = [req EXCEPT ![r].at = "refresh", ![r].made = last + 1]
        /\ UNCHANGED <<member, profile, subscription, removed>>
    BY <1>4 DEF Insert
  <2>2. /\ new \in Rows /\ new.kind = p.kind /\ new.org = p.org /\ new.in = in
        /\ new.of = p.of /\ new.by = r
        /\ config \in Rows /\ config.kind = "config" /\ config.org = p.org
        /\ config.in = last + 1 /\ config.of = 0 /\ config.by = r
    BY <1>1, <1>2 DEF Row, Rows, Wishes, Kinds, Parts, Keys
  <2>3. ForeignKey(in, p.org) /\ ForeignKey(p.of, p.org)
    BY <1>4, <2>2 DEF Acceptable
  <2>4. in # 0 => p.kind \in Parts /\ row[in].kind \in Wholes /\ in \in DOMAIN row
    BY <1>1, <1>2, <2>3 DEF Meant, Selected, Parts, Wholes, ForeignKey
  <2>5. p.of # 0 => row[p.of].kind \in {"call", "agent"} /\ p.of \in DOMAIN row
    BY <1>1, <1>2, <2>3 DEF Meant, ForeignKey
  <2>6. /\ count \in {1, 2} /\ (count = 2 => p.kind = "agent")
        /\ last + 1 \in last + 1 .. last + count
        /\ \A i \in last + 1 .. last + count : i = last + 1 \/ (i = last + 2 /\ count = 2)
    BY <1>1
  <2>7. PICK T : T = [req[r] EXCEPT !.at = "refresh", !.made = last + 1]
    OBVIOUS
  <2>8. /\ T \in States /\ T.at = "refresh" /\ T.made = last + 1 /\ T.p = p
        /\ T.held = req[r].held /\ T.shown = req[r].shown /\ T.reply = req[r].reply
        /\ req' = [req EXCEPT ![r] = T]
    <3>1. req[r] \in States /\ last + 1 \in Nat
      BY <1>1
    <3>2. req' = [req EXCEPT ![r] = T]
      BY <1>1, <2>1, <2>7
    <3>3. QED BY <2>7, <3>1, <3>2 DEF States
  <2> HIDE DEF in, new, config, count
  <2>9. /\ DOMAIN row' = DOMAIN row \cup (last + 1 .. last + count)
        /\ \A i \in DOMAIN row : row'[i] = row[i]
        /\ row'[last + 1] = new
        /\ \A i \in DOMAIN row' : i \in DOMAIN row \/ i = last + 1
                                    \/ (i = last + 2 /\ count = 2 /\ row'[i] = config)
    BY <1>1, <2>1, <2>6
  <2>10. Succeeds
    <3>1. \A i \in DOMAIN row' : i \in 1 .. last + count
      BY <1>1, <2>6, <2>9
    <3>2. \A i \in DOMAIN row' : row'[i] \in Rows /\ (i <= last => i \in DOMAIN row)
      BY <1>1, <2>2, <2>6, <2>9
    <3>3. last' = last + count /\ last + count \in Nat /\ last <= last + count
      BY <1>1, <2>1, <2>6
    <3>4. QED BY <2>1, <2>9, <3>1, <3>2, <3>3 DEF Succeeds
  <2>11. \A i \in DOMAIN row' : i > last =>
           /\ row'[i] \in {new, config}
           /\ row'[i].by = r /\ row'[i].org = p.org /\ row'[i].kind # "organization"
    BY <1>1, <1>2, <2>2, <2>6, <2>9
  <2>12. \A i \in DOMAIN row' : Placed(i)'
    <3>1. ASSUME NEW i \in DOMAIN row PROVE Placed(i)'
      BY <2>9, <3>1 DEF Inv, Placed, ForeignKey
    <3>2. ASSUME NEW n, n = last + 1 PROVE Placed(n)'
      <4>1. /\ row'[last + 1].in = in /\ row'[last + 1].of = p.of
            /\ row'[last + 1].org = p.org /\ row'[last + 1].kind = p.kind
        BY <2>2, <2>9
      <4>2. QED BY <2>3, <2>4, <2>5, <2>9, <3>2, <4>1 DEF Placed, ForeignKey
    <3>3. ASSUME NEW i \in DOMAIN row', i = last + 2, count = 2, row'[i] = config
          PROVE  Placed(i)'
      <4>1. /\ row'[last + 1].org = p.org /\ row'[last + 1].kind = "agent"
            /\ last + 1 \in DOMAIN row'
        BY <2>2, <2>6, <2>9, <3>3
      <4>2. QED BY <2>2, <3>3, <4>1 DEF Placed, ForeignKey, Parts, Wholes
    <3>4. QED BY <2>9, <3>1, <3>2, <3>3
  <2>13. Has(member', p.user, p.org)
    BY <1>2, <2>1 DEF Sound, Holds, Has
  <2>14. Fine(T)'
    <3>1. last + 1 \in DOMAIN row'
      BY <2>6, <2>9
    <3>2. QED BY <1>1, <2>8, <3>1 DEF Fine
  <2>15. OrganizationsAreWhole'
    <3>1. \A i \in DOMAIN row' : i \in DOMAIN row \/ row'[i].kind # "organization"
      BY <1>1, <2>9, <2>11
    <3>2. Organizations' = Organizations
      BY <2>9, <3>1 DEF Organizations
    <3>3. \A i \in Organizations : row'[i].key = row[i].key
      BY <2>9 DEF Organizations
    <3>4. QED BY <2>1, <3>2, <3>3, OrganizationsStay DEF Inv
  <2>16. T.reply \notin {403, 404, 409}
    BY <1>1, <2>8 DEF Fine
  <2>17. NewRowsAreOf(r) /\ NewSlugsAreFree(r)
    BY <2>11, <2>13 DEF NewRowsAreOf, NewSlugsAreFree
  <2>18. AllArePlaced'
    BY <2>12 DEF AllArePlaced
  <2>19. /\ T \in States /\ T.at \in {"refresh", "answered"} /\ T.p.user = req[r].p.user
         /\ T.held \subseteq req[r].held /\ req' = [req EXCEPT ![r] = T]
    BY <2>8
  <2>20. QED BY <2>10, <2>14, <2>15, <2>16, <2>17, <2>18, <2>19, CommitStep
<1>5. QED BY <1>3, <1>4

\* An update changes the fields it names of the row it names, and of nothing else.
LEMMA UpdatedRows ==
    ASSUME Inv, NEW r \in Requests, Update(r), row' # row
    PROVE  /\ req[r].at = "write" /\ req[r].p.verb = "update" /\ DOMAIN row' = DOMAIN row
           /\ \A i \in DOMAIN row : i # req[r].p.looks => row'[i] = row[i]
           /\ req[r].p.looks \in DOMAIN row =>
                row'[req[r].p.looks] =
                  [f \in DOMAIN row[req[r].p.looks] |->
                     IF f \in Written(r) THEN req[r].p.set[f] ELSE row[req[r].p.looks][f]]
  BY DEF Update, Value, Written

LEMMA UpdateStep ==
    ASSUME Inv, NEW r \in Requests, Update(r)
    PROVE  Inv'
<1> DEFINE p == req[r].p
           id == p.looks
<1>1. /\ req[r] \in States /\ p \in Wishes /\ Fine(req[r]) /\ req \in [Requests -> States]
      /\ req[r].at = "write" /\ p.verb = "update" /\ last \in Nat
      /\ \A i \in DOMAIN row : i \in Nat /\ i # 0 /\ i <= last /\ row[i] \in Rows
      /\ UNCHANGED <<last, member, profile, subscription, removed>>
  BY RequestTyped DEF Update, Keeps, Inv, Typed
<1>2. CASE Answer(r, 500) /\ row' = row
  BY <1>1, <1>2, AnswerStep DEF OnlyRequests
<1>3. CASE ~(Answer(r, 500) /\ row' = row)
  <2>1. /\ Goes(r, "refresh")
        /\ row' = [i \in DOMAIN row |->
                     IF i # id THEN row[i]
                     ELSE [f \in DOMAIN row[i] |-> IF f \in Written(r) THEN Value(r, f)
                                                   ELSE row[i][f]]]
    BY <1>3 DEF Update, Abandon
  <2>2. Written(r) \subseteq Fields /\ \A f \in Written(r) : Value(r, f) = 1
    <3>1. p.set \in Sets
      BY <1>1 DEF Wishes
    <3>2. QED BY <3>1, SetsOfFields DEF Written, Value
  <2>3. ASSUME NEW i \in DOMAIN row
        PROVE  /\ row'[i] \in Rows /\ row'[i].kind = row[i].kind /\ row'[i].org = row[i].org
               /\ row'[i].key = row[i].key /\ row'[i].by = row[i].by
               /\ row'[i].in = row[i].in /\ row'[i].of = row[i].of
    <3>1. CASE i # id
      BY <1>1, <2>1, <3>1
    <3>2. CASE i = id
      <4>1. row'[i] = [f \in DOMAIN row[i] |-> IF f \in Written(r) THEN Value(r, f) ELSE row[i][f]]
        BY <2>1, <3>2
      <4>2. row'[i] = [f \in DOMAIN row[i] |-> IF f \in Written(r) THEN 1 ELSE row[i][f]]
        BY <2>2, <4>1
      <4>3. row[i] \in Rows
        BY <1>1
      <4>4. PICK S : S = Written(r)
        OBVIOUS
      <4>5. QED BY <2>2, <4>2, <4>3, <4>4 DEF Rows, Fields
    <3>3. QED BY <3>1, <3>2
  <2>4. DOMAIN row' = DOMAIN row
    BY <2>1
  <2>5. PICK T : T = [req[r] EXCEPT !.at = "refresh"]
    OBVIOUS
  <2>6. /\ T \in States /\ T.at = "refresh" /\ T.p = p /\ T.held = req[r].held
        /\ T.shown = req[r].shown /\ T.reply = req[r].reply /\ T.made = req[r].made
        /\ req' = [req EXCEPT ![r] = T]
    BY <1>1, <2>1, <2>5 DEF States, Goes
  <2>7. Succeeds
    BY <1>1, <2>3, <2>4 DEF Succeeds, Inv, Typed
  <2>8. AllArePlaced'
    BY <2>3, <2>4 DEF AllArePlaced, Inv, Placed, ForeignKey
  <2>9. NewRowsAreOf(r) /\ NewSlugsAreFree(r)
    BY <1>1, <2>4 DEF NewRowsAreOf, NewSlugsAreFree
  <2>10. OrganizationsAreWhole'
    <3>1. Organizations' = Organizations /\ \A i \in Organizations : row'[i].key = row[i].key
      BY <2>3, <2>4 DEF Organizations
    <3>2. QED BY <1>1, <3>1, OrganizationsStay DEF Inv
  <2>11. Fine(T)'
    BY <1>1, <2>4, <2>6 DEF Fine
  <2>12. T.reply \notin {403, 404, 409}
    BY <1>1, <2>6 DEF Fine
  <2>13. /\ T \in States /\ T.at \in {"refresh", "answered"} /\ T.p.user = req[r].p.user
         /\ T.held \subseteq req[r].held /\ req' = [req EXCEPT ![r] = T]
    BY <2>6
  <2>14. QED BY <2>7, <2>8, <2>9, <2>10, <2>11, <2>12, <2>13, CommitStep
<1>4. QED BY <1>2, <1>3

\* What is deleted leaves nothing behind that belonged to it or mentioned it.
LEMMA DeletedRows ==
    ASSUME Inv, NEW r \in Requests, req[r].at = "write", req[r].p.verb = "delete",
           NEW j \in Cascade(req[r].p.looks)
    PROVE  /\ req[r].p.looks \in DOMAIN row /\ j \in DOMAIN row
           /\ row[j].org = req[r].p.org
           /\ \/ j = req[r].p.looks /\ row[j].kind \in {"lead", "document"}
              \/ row[j].in = req[r].p.looks /\ row[j].kind \in Parts
<1> DEFINE p == req[r].p
<1>1. Fine(req[r]) /\ Sound(p) /\ Meant(p)
  BY RequestTyped DEF Fine, Sound
<1>2. p.kind \in {"lead", "document"} /\ p.looks # 0
  BY <1>1 DEF Meant
<1>3. j \in DOMAIN row /\ (j = p.looks \/ row[j].in = p.looks)
  BY DEF Cascade
<1>4. /\ row[j].in = p.looks => p.looks \in DOMAIN row /\ row[p.looks].org = row[j].org
      /\ row[j].in = p.looks => row[j].kind \in Parts
  BY <1>2, <1>3 DEF Inv, Placed, ForeignKey
<1>5. p.looks \in DOMAIN row /\ row[p.looks].org = p.org
  BY <1>1, <1>3, <1>4 DEF Fine
<1>6. row[p.looks].kind = p.kind
  BY <1>1, <1>2, <1>5 DEF Meant, Selected
<1>7. QED BY <1>2, <1>3, <1>4, <1>5, <1>6

LEMMA DeleteStep ==
    ASSUME Inv, NEW r \in Requests, Delete(r)
    PROVE  Inv'
<1> DEFINE gone == Cascade(req[r].p.looks)
<1>1. /\ req[r] \in States /\ Fine(req[r]) /\ req \in [Requests -> States]
      /\ req[r].at = "write" /\ req[r].p.verb = "delete" /\ last \in Nat
      /\ \A i \in DOMAIN row : i \in Nat /\ i # 0 /\ i <= last /\ row[i] \in Rows
      /\ row' = [i \in DOMAIN row \ gone |-> row[i]] /\ removed' = removed \cup gone
      /\ Answer(r, 204) /\ UNCHANGED <<last, member, profile, subscription>>
  BY RequestTyped DEF Delete, Inv, Typed
<1>2. \A j \in gone : j \in DOMAIN row /\ row[j].kind \in {"lead", "document"} \cup Parts
  BY <1>1, DeletedRows
<1>3. \A j \in DOMAIN row : row[j].kind \in {"call", "agent", "organization"} => j \notin gone
  BY <1>2 DEF Parts
<1> HIDE DEF gone
<1>4. /\ DOMAIN row' = DOMAIN row \ gone
      /\ \A i \in DOMAIN row' : i \in DOMAIN row /\ i \notin gone /\ row'[i] = row[i]
  BY <1>1
<1>5. AllArePlaced'
  <2>1. ASSUME NEW i \in DOMAIN row' PROVE Placed(i)'
    <3>1. /\ i \in DOMAIN row /\ i \notin gone /\ row'[i] = row[i] /\ Placed(i)
      BY <1>4 DEF Inv
    <3>2. ASSUME row[i].of # 0 PROVE row[i].of \in DOMAIN row' /\ row'[row[i].of] = row[row[i].of]
      BY <1>3, <1>4, <1>1, <3>1, <3>2 DEF Placed, ForeignKey
    <3>3. ASSUME row[i].in # 0 PROVE row[i].in \in DOMAIN row' /\ row'[row[i].in] = row[row[i].in]
      <4>1. row[i].in \in DOMAIN row /\ row[row[i].in].kind \in Wholes
        BY <3>1, <3>3 DEF Placed, ForeignKey
      <4>2. row[i].in \notin gone
        <5>1. SUFFICES ASSUME row[i].in \in gone PROVE FALSE
          OBVIOUS
        <5>2. row[i].in = req[r].p.looks
          BY <1>1, <4>1, <5>1, DeletedRows DEF gone, Parts, Wholes
        <5>3. i \in gone
          BY <3>1, <5>2 DEF gone, Cascade
        <5>4. QED BY <3>1, <5>3
      <4>3. QED BY <1>1, <4>1, <4>2
    <3>4. QED BY <3>1, <3>2, <3>3 DEF Placed, ForeignKey
  <2>2. QED BY <2>1 DEF AllArePlaced
<1>6. OrganizationsAreWhole'
  <2>1. Organizations' = Organizations /\ \A i \in Organizations : row'[i].key = row[i].key
    BY <1>3, <1>4 DEF Organizations
  <2>2. QED BY <1>1, <2>1, OrganizationsStay DEF Inv
<1>7. Succeeds
  BY <1>1, <1>2, <1>4 DEF Succeeds, Inv, Typed
<1>8. NewRowsAreOf(r) /\ NewSlugsAreFree(r)
  BY <1>1, <1>4 DEF NewRowsAreOf, NewSlugsAreFree
<1>9. PICK T \in States :
        /\ req' = [req EXCEPT ![r] = T]
        /\ T.at = "answered" /\ T.reply = 204 /\ T.made = req[r].made
        /\ T.held = {} /\ T.shown = {}
        /\ T.p.user = req[r].p.user /\ T.p.org = req[r].p.org
        /\ T.p.verb = "make" => req[r].p.verb \in {"insert", "found"}
  BY <1>1, Answering
<1>10. Fine(T)'
  BY <1>1, <1>4, <1>9 DEF Fine
<1>11. /\ T \in States /\ T.at \in {"refresh", "answered"} /\ T.p.user = req[r].p.user
       /\ T.held \subseteq req[r].held /\ req' = [req EXCEPT ![r] = T]
  BY <1>9
<1>12. T.reply \notin {403, 404, 409}
  BY <1>9
<1>13. QED BY <1>5, <1>6, <1>7, <1>8, <1>10, <1>11, <1>12, CommitStep

\* An organization is committed with its owner and its subscription, and its slug
\* is nobody else's.
LEMMA FoundedStep ==
    ASSUME Inv, NEW r \in Requests, CommitOrganization(r)
    PROVE  Inv'
<1>1. PICK id : id = last + 1
  OBVIOUS
<1> DEFINE p == req[r].p
           new == Row("organization", id, 0, 0, p.key, r)
<1>2. /\ req[r] \in States /\ p \in Wishes /\ Fine(req[r]) /\ req \in [Requests -> States]
      /\ req[r].at = "owner" /\ last \in Nat /\ id \in Nat /\ id # 0 /\ id > last
      /\ \A i \in DOMAIN row : i \in Nat /\ i # 0 /\ i <= last /\ row[i] \in Rows
      /\ \A q \in Requests : q # r => req[r].held \cap req[q].held = {}
  BY <1>1, RequestTyped DEF CommitOrganization, Inv, Typed
<1>3. /\ last' = id /\ removed' = removed
      /\ row' = [i \in DOMAIN row \cup {id} |-> IF i \in DOMAIN row THEN row[i] ELSE new]
      /\ member' = member \cup {[org |-> id, user |-> p.user, role |-> "owner"]}
      /\ subscription' = subscription \cup {id}
      /\ req' = [req EXCEPT ![r].at = "refresh", ![r].made = id, ![r].held = {}]
  BY <1>1 DEF CommitOrganization
<1>4. /\ new \in Rows /\ new.kind = "organization" /\ new.org = id /\ new.in = 0 /\ new.of = 0
      /\ new.key = p.key /\ new.by = r
  BY <1>2 DEF Row, Rows, Wishes, Kinds, Wholes
<1>5. PICK T : T = [req[r] EXCEPT !.at = "refresh", !.made = id, !.held = {}]
  OBVIOUS
<1>6. /\ T \in States /\ T.at = "refresh" /\ T.p = p /\ T.held = {}
      /\ T.shown = req[r].shown /\ T.reply = req[r].reply /\ T.made = id
      /\ req' = [req EXCEPT ![r] = T]
  <2>1. /\ T \in States /\ T.at = "refresh" /\ T.p = p /\ T.held = {}
        /\ T.shown = req[r].shown /\ T.reply = req[r].reply /\ T.made = id
    BY <1>2, <1>5 DEF States
  <2>2. req' = [req EXCEPT ![r] = T]
    BY <1>2, <1>3, <1>5
  <2>3. QED BY <2>1, <2>2
<1> HIDE DEF new
<1>7. /\ DOMAIN row' = DOMAIN row \cup {id} /\ row'[id] = new /\ id \notin DOMAIN row
      /\ \A i \in DOMAIN row : row'[i] = row[i]
  BY <1>2, <1>3
<1>8. Succeeds
  <2>1. \A i \in DOMAIN row' : i \in 1 .. id /\ row'[i] \in Rows /\ (i <= last => i \in DOMAIN row)
    BY <1>1, <1>2, <1>4, <1>7
  <2>2. last' \in Nat /\ last <= last' /\ DOMAIN row' \subseteq 1 .. last'
    BY <1>1, <1>2, <1>3, <2>1
  <2>3. member \subseteq member' /\ DOMAIN row \cup removed \subseteq DOMAIN row' \cup removed'
    BY <1>3, <1>7
  <2>4. QED BY <1>7, <2>1, <2>2, <2>3 DEF Succeeds
<1>9. AllArePlaced'
  <2>1. ASSUME NEW i \in DOMAIN row PROVE Placed(i)'
    BY <1>7, <2>1 DEF Inv, Placed, ForeignKey
  <2>2. Placed(id)'
    BY <1>4, <1>7 DEF Placed, ForeignKey
  <2>3. QED BY <1>7, <2>1, <2>2 DEF AllArePlaced
<1>10. p.key \in req[r].held /\ \A i \in Organizations : row[i].key # p.key
  BY <1>2 DEF Fine
<1>11. NewRowsAreOf(r) /\ NewSlugsAreFree(r)
  <2>1. \A i \in DOMAIN row' : i > last => i = id
    BY <1>2, <1>7
  <2>2. Has(member', p.user, id)
    <3>1. [org |-> id, user |-> p.user, role |-> "owner"] \in member'
      BY <1>3
    <3>2. QED BY <3>1 DEF Has, Staff
  <2>3. NewRowsAreOf(r)
    BY <1>4, <1>7, <2>1, <2>2 DEF NewRowsAreOf
  <2>4. ASSUME NEW q \in Requests, q # r, req[q].at = "owner" PROVE p.key # req[q].p.key
    <3>1. req[q].p.key \in req[q].held
      BY <2>4 DEF Inv, Fine
    <3>2. QED BY <1>2, <1>10, <2>4, <3>1
  <2>5. NewSlugsAreFree(r)
    BY <1>4, <1>7, <2>1, <2>4 DEF NewSlugsAreFree
  <2>6. QED BY <2>3, <2>5
<1>12. OrganizationsAreWhole'
  <2>1. Organizations' = Organizations \cup {id}
    BY <1>4, <1>7 DEF Organizations
  <2>2. \A i \in Organizations : row'[i].key = row[i].key /\ row[i].key # p.key
    BY <1>7, <1>10 DEF Organizations
  <2>3. row'[id].key = p.key
    BY <1>4, <1>7
  <2>4. \A i, j \in Organizations' : row'[i].key = row'[j].key => i = j
    BY <2>1, <2>2, <2>3 DEF Inv, OrganizationsAreWhole
  <2>5. \A m \in member' : m \in member \/ (m.org = id /\ m.role = "owner")
    BY <1>3
  <2>6. [org |-> id, user |-> p.user, role |-> "owner"] \in member'
    BY <1>3
  <2>7. ASSUME NEW i \in Organizations'
        PROVE  i \in subscription' /\ \E m \in member' : m.org = i /\ m.role = "owner"
    <3>1. CASE i = id
      BY <1>3, <2>6, <3>1
    <3>2. CASE i # id
      BY <1>3, <2>1, <3>2 DEF Inv, OrganizationsAreWhole
    <3>3. QED BY <3>1, <3>2
  <2>8. (\A m \in member' : m.org \in Organizations') /\ subscription' \subseteq Organizations'
    BY <1>3, <2>1, <2>5 DEF Inv, OrganizationsAreWhole
  <2>9. QED BY <2>4, <2>7, <2>8 DEF OrganizationsAreWhole
<1>13. Fine(T)'
  BY <1>2, <1>6, <1>7 DEF Fine
<1>14. T.reply \notin {403, 404, 409}
  BY <1>2, <1>6 DEF Fine
<1>15. /\ T \in States /\ T.at \in {"refresh", "answered"} /\ T.p.user = req[r].p.user
       /\ T.held \subseteq req[r].held /\ req' = [req EXCEPT ![r] = T]
  BY <1>6
<1>16. QED BY <1>8, <1>9, <1>11, <1>12, <1>13, <1>14, <1>15, CommitStep

-----------------------------------------------------------------------------
(* The handlers.                                                             *)

LEMMA Listed ==
    ASSUME Inv
    PROVE  /\ 0 \in Nat /\ last \in Nat /\ 0 <= last /\ 0 \notin DOMAIN row
           /\ \A k : \A i \in Ids(k) :
                i \in DOMAIN row /\ i \in Nat /\ i <= last /\ i # 0 /\ row[i].kind = k
           /\ \A o \in Organizations : o \in Nat /\ o <= last
  BY DEF Inv, Typed, Ids, Organizations

LEMMA InsertsStep ==
    ASSUME Inv, NEW r \in Requests, NEW u \in Users, NEW o \in Nat,
           \/ CreateAgent(r, u, o) \/ CreateCall(r, u, o) \/ AddCallTranscript(r, u, o)
           \/ CreateCallSummary(r, u, o) \/ CreateLead(r, u, o) \/ CreateFollowup(r, u, o)
           \/ CreateKnowledgeDocument(r, u, o)
    PROVE  Inv'
<1>1. /\ [f \in Fields |-> 1] \in Sets
      /\ \A k \in {None} \cup Sids \cup {0, 1} : k \in Keys
      /\ {"agent", "document", "call", "lead", "followup", "transcript", "summary"} \subseteq Kinds
  BY SetsOfFields DEF Keys, Kinds, Parts, Wholes
<1>2. ASSUME NEW p \in Wishes, NEW roles \in {Staff, Admin}, Accepts(r, roles, p),
             Meant(p), p.verb # "delete"
      PROVE  Inv'
  BY <1>2, AcceptsStep
<1>3. ASSUME NEW kind \in {"agent", "document"}, NEW roles \in {Staff, Admin},
             Accepts(r, roles, Wants("insert", kind, u, o))
      PROVE  Inv'
  <2>1. PICK p : p = Wants("insert", kind, u, o)
    OBVIOUS
  <2>2. kind \in Kinds \ {"organization", "config"}
    BY <1>1
  <2>3. /\ p \in Wishes /\ p.verb = "insert" /\ p.kind = kind /\ p.looks = 0 /\ p.of = 0
    BY <2>1, <2>2, Wanted DEF NamesNone
  <2>4. Meant(p)
    BY <2>2, <2>3, Listed DEF Meant
  <2>5. QED BY <1>2, <1>3, <2>1, <2>3, <2>4
<1>4. CASE CreateAgent(r, u, o) \/ CreateKnowledgeDocument(r, u, o)
  BY <1>3, <1>4 DEF CreateAgent, CreateKnowledgeDocument
<1>5. CASE CreateCall(r, u, o)
  <2>1. PICK a \in {0} \cup Ids("agent"), sid \in {None} \cup Sids :
          \E w, p :
              /\ w = Wants("insert", "call", u, o)
              /\ p = [w EXCEPT !.of = a, !.key = sid]
              /\ Accepts(r, Staff, p)
    BY <1>5 DEF CreateCall
  <2>2. PICK w, p :
          /\ w = Wants("insert", "call", u, o)
          /\ p = [w EXCEPT !.of = a, !.key = sid]
          /\ Accepts(r, Staff, p)
    BY <2>1
  <2>3. a \in Nat /\ a <= last /\ (a \in DOMAIN row => row[a].kind = "agent") /\ sid \in Keys
    BY <1>1, Listed
  <2>4. /\ p \in Wishes /\ p.verb = "insert" /\ p.kind = "call" /\ p.looks = 0 /\ p.of = a
    <3>1. NamesNone(w, "insert", "call")
      BY <1>1, <2>2, Wanted
    <3>2. QED BY <2>2, <2>3, <3>1 DEF NamesNone, Wishes
  <2>5. Meant(p)
    BY <2>3, <2>4, Listed DEF Meant, Kinds, Wholes
  <2>6. QED BY <1>2, <2>2, <2>4, <2>5
<1>6. CASE AddCallTranscript(r, u, o)
  <2>1. PICK c \in Ids("call"), turn \in {0, 1} :
          \E w, p :
              /\ w = Wants("insert", "transcript", u, o)
              /\ p = [w EXCEPT !.looks = c, !.key = turn]
              /\ Accepts(r, Staff, p)
    BY <1>6 DEF AddCallTranscript
  <2>2. PICK w, p :
          /\ w = Wants("insert", "transcript", u, o)
          /\ p = [w EXCEPT !.looks = c, !.key = turn]
          /\ Accepts(r, Staff, p)
    BY <2>1
  <2>3. c \in Nat /\ c <= last /\ row[c].kind = "call" /\ turn \in Keys
    BY <1>1, Listed
  <2>4. /\ p \in Wishes /\ p.verb = "insert" /\ p.kind = "transcript" /\ p.looks = c /\ p.of = 0
    <3>1. NamesNone(w, "insert", "transcript")
      BY <1>1, <2>2, Wanted
    <3>2. QED BY <2>2, <2>3, <3>1 DEF NamesNone, Wishes
  <2>5. Selected(p) = "call"
    BY <2>4 DEF Selected
  <2>6. Meant(p)
    BY <2>3, <2>4, <2>5, Listed DEF Meant, Kinds, Parts
  <2>7. QED BY <1>2, <2>2, <2>4, <2>6
<1>7. CASE CreateCallSummary(r, u, o)
  <2>1. PICK c \in Ids("call") :
          \E w, p, s :
              /\ s = [f \in Fields |-> 1]
              /\ w = Wants("save", "summary", u, o)
              /\ p = [w EXCEPT !.looks = c, !.set = s]
              /\ Accepts(r, Staff, p)
    BY <1>7 DEF CreateCallSummary
  <2>2. PICK w, p, s :
          /\ s = [f \in Fields |-> 1]
          /\ w = Wants("save", "summary", u, o)
          /\ p = [w EXCEPT !.looks = c, !.set = s]
          /\ Accepts(r, Staff, p)
    BY <2>1
  <2>3. c \in Nat /\ c <= last /\ row[c].kind = "call" /\ s \in Sets
    BY <1>1, <2>2, Listed
  <2>4. /\ p \in Wishes /\ p.verb = "save" /\ p.kind = "summary" /\ p.looks = c /\ p.of = 0
    <3>1. NamesNone(w, "save", "summary") /\ p = [w EXCEPT !.looks = c, !.set = s]
      BY <1>1, <2>2, Wanted
    <3>2. QED BY <2>3, <3>1 DEF NamesNone, Wishes
  <2>5. Selected(p) = "call"
    BY <2>4 DEF Selected
  <2>6. Meant(p)
    BY <2>3, <2>4, <2>5, Listed DEF Meant, Kinds, Parts
  <2>7. QED BY <1>2, <2>2, <2>4, <2>6
<1>8. CASE CreateLead(r, u, o)
  <2>1. PICK c \in {0} \cup Ids("call") :
          \E w, p :
              /\ w = Wants("insert", "lead", u, o)
              /\ p = [w EXCEPT !.of = c]
              /\ Accepts(r, Staff, p)
    BY <1>8 DEF CreateLead
  <2>2. PICK w, p :
          /\ w = Wants("insert", "lead", u, o)
          /\ p = [w EXCEPT !.of = c]
          /\ Accepts(r, Staff, p)
    BY <2>1
  <2>3. c \in Nat /\ c <= last /\ (c \in DOMAIN row => row[c].kind = "call")
    BY Listed
  <2>4. /\ p \in Wishes /\ p.verb = "insert" /\ p.kind = "lead" /\ p.looks = 0 /\ p.of = c
    <3>1. NamesNone(w, "insert", "lead")
      BY <1>1, <2>2, Wanted
    <3>2. QED BY <2>2, <2>3, <3>1 DEF NamesNone, Wishes
  <2>5. Meant(p)
    BY <2>3, <2>4, Listed DEF Meant, Kinds, Wholes
  <2>6. QED BY <1>2, <2>2, <2>4, <2>5
<1>9. CASE CreateFollowup(r, u, o)
  <2>1. PICK l \in Ids("lead"), c \in {0} \cup Ids("call") :
          \E w, p :
              /\ w = Wants("insert", "followup", u, o)
              /\ p = [w EXCEPT !.looks = l, !.of = c]
              /\ Accepts(r, Staff, p)
    BY <1>9 DEF CreateFollowup
  <2>2. PICK w, p :
          /\ w = Wants("insert", "followup", u, o)
          /\ p = [w EXCEPT !.looks = l, !.of = c]
          /\ Accepts(r, Staff, p)
    BY <2>1
  <2>3. /\ c \in Nat /\ c <= last /\ (c \in DOMAIN row => row[c].kind = "call")
        /\ l \in Nat /\ l <= last /\ row[l].kind = "lead"
    BY Listed
  <2>4. /\ p \in Wishes /\ p.verb = "insert" /\ p.kind = "followup" /\ p.looks = l /\ p.of = c
    <3>1. NamesNone(w, "insert", "followup")
      BY <1>1, <2>2, Wanted
    <3>2. QED BY <2>2, <2>3, <3>1 DEF NamesNone, Wishes
  <2>5. Selected(p) = "lead"
    BY <2>4 DEF Selected
  <2>6. Meant(p)
    BY <2>3, <2>4, <2>5, Listed DEF Meant, Kinds, Parts
  <2>7. QED BY <1>2, <2>2, <2>4, <2>6
<1>10. QED BY <1>4, <1>5, <1>6, <1>7, <1>8, <1>9

LEMMA PatchStep ==
    ASSUME Inv, NEW r \in Requests, NEW u \in Users, NEW o \in Organizations,
           \/ UpdateAgentConfig(r, u, o) \/ UpdateCall(r, u, o) \/ UpdateLead(r, u, o)
           \/ UpdateFollowup(r, u, o) \/ UpdateKnowledgeDocument(r, u, o)
           \/ UpdateOrganization(r, u, o)
    PROVE  Inv'
<1>1. ASSUME NEW kind \in Kinds, NEW roles \in {Staff, Admin},
             NEW id \in Ids(kind) \cup {o}, NEW s \in Patches,
             Accepts(r, roles, [Wants("update", kind, u, o) EXCEPT !.looks = id, !.set = s])
      PROVE  Inv'
  <2>1. PICK p : p = [Wants("update", kind, u, o) EXCEPT !.looks = id, !.set = s]
    OBVIOUS
  <2>2. s \in Sets /\ id \in Nat /\ id <= last /\ o \in Nat
    BY SetsOfFields, Listed
  <2>3. p \in Wishes /\ p.verb = "update" /\ p.looks = id /\ p.of = 0
    <3>1. PICK w : w = Wants("update", kind, u, o)
      OBVIOUS
    <3>2. NamesNone(w, "update", kind) /\ p = [w EXCEPT !.looks = id, !.set = s]
      BY <2>1, <2>2, <3>1, Wanted
    <3>3. QED BY <2>2, <3>2 DEF NamesNone, Wishes
  <2>4. Meant(p)
    BY <2>2, <2>3, Listed DEF Meant
  <2>5. QED BY <1>1, <2>1, <2>3, <2>4, AcceptsStep
<1>2. {"config", "call", "lead", "followup", "document", "organization"} \subseteq Kinds
  BY DEF Kinds, Parts, Wholes
<1>3. CASE UpdateAgentConfig(r, u, o)
  BY <1>1, <1>2, <1>3 DEF UpdateAgentConfig
<1>4. CASE UpdateCall(r, u, o)
  BY <1>1, <1>2, <1>4 DEF UpdateCall
<1>5. CASE UpdateLead(r, u, o)
  BY <1>1, <1>2, <1>5 DEF UpdateLead
<1>6. CASE UpdateFollowup(r, u, o)
  BY <1>1, <1>2, <1>6 DEF UpdateFollowup
<1>7. CASE UpdateKnowledgeDocument(r, u, o)
  BY <1>1, <1>2, <1>7 DEF UpdateKnowledgeDocument
<1>8. CASE UpdateOrganization(r, u, o)
  BY <1>1, <1>2, <1>8 DEF UpdateOrganization
<1>9. QED BY <1>3, <1>4, <1>5, <1>6, <1>7, <1>8

LEMMA DeletesStep ==
    ASSUME Inv, NEW r \in Requests, NEW u \in Users, NEW o \in Nat,
           DeleteLead(r, u, o) \/ DeleteKnowledgeDocument(r, u, o)
    PROVE  Inv'
<1>1. PICK kind \in {"lead", "document"} : \E id \in Ids(kind) :
        Accepts(r, Admin, [Wants("delete", kind, u, o) EXCEPT !.looks = id])
  BY DEF DeleteLead, DeleteKnowledgeDocument
<1>2. PICK id \in Ids(kind) : Accepts(r, Admin, [Wants("delete", kind, u, o) EXCEPT !.looks = id])
  BY <1>1
<1>3. PICK p : p = [Wants("delete", kind, u, o) EXCEPT !.looks = id]
  OBVIOUS
<1>4. id \in Nat /\ id <= last /\ id # 0 /\ row[id].kind = kind /\ kind \in Kinds
  BY Listed DEF Kinds, Wholes
<1>5. p \in Wishes /\ p.verb = "delete" /\ p.kind = kind /\ p.looks = id /\ p.of = 0
  <2>1. PICK w : w = Wants("delete", kind, u, o)
    OBVIOUS
  <2>2. NamesNone(w, "delete", kind) /\ p = [w EXCEPT !.looks = id]
    BY <1>3, <1>4, <2>1, Wanted
  <2>3. QED BY <1>4, <2>2 DEF NamesNone, Wishes
<1>6. Selected(p) = kind
  BY <1>5 DEF Selected
<1>7. Meant(p)
  BY <1>4, <1>5, <1>6, Listed DEF Meant
<1>8. Accepts(r, Admin, p)
  BY <1>2, <1>3
<1>9. QED BY <1>5, <1>7, <1>8, AcceptsStep

-----------------------------------------------------------------------------
(* The theorems.                                                             *)

LEMMA InvNext ==
    ASSUME Inv, NEW r \in Requests, Asks(r) \/ Serves(r) \/ Lost(r)
    PROVE  Inv'
<1>1. CASE Asks(r)
  <2>1. PICK u \in Users :
        \/ \E slug \in Slugs : FoundOrganization(r, u, slug)
        \/ \E o \in Organizations :
             \/ CreateAgent(r, u, o) \/ UpdateAgentConfig(r, u, o)
             \/ CreateCall(r, u, o) \/ UpdateCall(r, u, o)
             \/ AddCallTranscript(r, u, o) \/ CreateCallSummary(r, u, o)
             \/ CreateLead(r, u, o) \/ UpdateLead(r, u, o) \/ DeleteLead(r, u, o)
             \/ CreateFollowup(r, u, o) \/ UpdateFollowup(r, u, o)
             \/ CreateKnowledgeDocument(r, u, o) \/ UpdateKnowledgeDocument(r, u, o)
             \/ DeleteKnowledgeDocument(r, u, o) \/ UpdateOrganization(r, u, o)
             \/ \E kind : Lists(r, u, o, kind) \/ Gets(r, u, o, kind)
    BY <1>1 DEF Asks, GetCall, GetAgent, GetLead, GetFollowup, GetKnowledgeDocument, ListCalls,
                ListAgents, ListLeads, ListFollowups, ListKnowledgeDocuments
  <2>2. CASE \E slug \in Slugs : FoundOrganization(r, u, slug)
    BY <2>2, FoundingStep
  <2>3. \A o \in Organizations : o \in Nat
    BY Listed
  <2>4. QED BY <2>1, <2>2, <2>3, InsertsStep, PatchStep, DeletesStep, ReadStep
<1>2. CASE Serves(r)
  BY <1>2, LookStep, InsertStep, UpdateStep, DeleteStep, RefreshStep, FoundingStep, FoundedStep
     DEF Serves
<1>3. CASE Lost(r)
  BY <1>3, RefreshStep
<1>4. QED BY <1>1, <1>2, <1>3

LEMMA InvStep == Inv /\ [Next]_vars => Inv'
<1> SUFFICES ASSUME Inv, [Next]_vars PROVE Inv'
  OBVIOUS
<1>1. CASE Next
  BY <1>1, InvNext DEF Next
<1>2. CASE UNCHANGED vars
  BY <1>2 DEF vars, Inv, Typed, KeysAreApart, OrganizationsAreWhole, Organizations, Placed,
              Credited, ForeignKey, Holds, Fine, Sound, Meant, Selected
<1>3. QED BY <1>1, <1>2

\* The two organizations that are there at first are whole and apart.
LEMMA SeedRows ==
    /\ Len(Seed) = 12 /\ DOMAIN Seed = 1 .. 12
    /\ \A i \in 1 .. 12 :
         /\ Seed[i] \in Rows /\ Seed[i].by = None
         /\ ~(Seed[i].in # 0 /\ ~(Seed[i].in \in 1 .. 12 /\ Seed[Seed[i].in].org = Seed[i].org
                 /\ Seed[i].kind \in Parts /\ Seed[Seed[i].in].kind \in Wholes))
         /\ ~(Seed[i].of # 0 /\ ~(Seed[i].of \in 1 .. 12 /\ Seed[Seed[i].of].org = Seed[i].org
                 /\ Seed[Seed[i].of].kind \in {"call", "agent"}))
         /\ Seed[i].kind = "organization" => i \in {1, 2}
    /\ Seed[1].kind = "organization" /\ Seed[2].kind = "organization"
    /\ Seed[1].key = "first" /\ Seed[2].key = "second"
<1>1. Len(Seed) = 12 /\ DOMAIN Seed = 1 .. 12
  BY DEF Seed
<1>2. /\ Seed[1] = Row("organization", 1, 0, 0, "first", None)
      /\ Seed[2] = Row("organization", 2, 0, 0, "second", None)
      /\ Seed[3] = Row("agent", 1, 0, 0, None, None)
      /\ Seed[4] = Row("config", 1, 3, 0, None, None)
      /\ Seed[5] = Row("call", 1, 0, 3, None, None)
      /\ Seed[6] = Row("lead", 1, 0, 5, None, None)
      /\ Seed[7] = Row("followup", 1, 6, 5, None, None)
      /\ Seed[8] = Row("document", 1, 0, 0, None, None)
      /\ Seed[9] = Row("agent", 2, 0, 0, None, None)
      /\ Seed[10] = Row("config", 2, 9, 0, None, None)
      /\ Seed[11] = Row("call", 2, 0, 9, None, None)
      /\ Seed[12] = Row("lead", 2, 0, 11, None, None)
  BY DEF Seed
<1>3. \A kind, org, in, of, key :
        LET x == Row(kind, org, in, of, key, None) IN
        /\ x.kind = kind /\ x.org = org /\ x.in = in /\ x.of = of /\ x.key = key /\ x.by = None
        /\ kind \in Kinds /\ org \in Nat /\ in \in Nat /\ of \in Nat /\ key \in Keys => x \in Rows
  BY DEF Row, Rows
<1>4. {"first", "second", None} \subseteq Keys
  BY DEF Keys
<1>5. \A i \in 1 .. 12 : i \in {1, 2, 3, 4, 5, 6, 7, 8, 9, 10, 11, 12}
  OBVIOUS
<1>6. /\ Seed[1].kind = "organization" /\ Seed[2].kind = "organization"
      /\ Seed[1].key = "first" /\ Seed[2].key = "second"
  BY <1>2, <1>3
<1>7. ASSUME NEW i \in 1 .. 12
      PROVE  /\ Seed[i] \in Rows /\ Seed[i].by = None
             /\ Seed[i].kind = "organization" => i \in {1, 2}
  BY <1>2, <1>3, <1>4, <1>5 DEF Kinds, Parts, Wholes
<1>8. ASSUME NEW i \in 1 .. 12
      PROVE  /\ ~(Seed[i].in # 0 /\ ~(Seed[i].in \in 1 .. 12 /\ Seed[Seed[i].in].org = Seed[i].org
                 /\ Seed[i].kind \in Parts /\ Seed[Seed[i].in].kind \in Wholes))
             /\ ~(Seed[i].of # 0 /\ ~(Seed[i].of \in 1 .. 12 /\ Seed[Seed[i].of].org = Seed[i].org
                 /\ Seed[Seed[i].of].kind \in {"call", "agent"}))
  BY <1>2, <1>3, <1>5 DEF Kinds, Parts, Wholes
<1>9. QED BY <1>1, <1>6, <1>7, <1>8

LEMMA InvInit == Init => Inv
<1> SUFFICES ASSUME Init PROVE Inv
  OBVIOUS
<1>1. /\ row = Seed /\ last = 12 /\ DOMAIN row = 1 .. 12
      /\ subscription = {1, 2} /\ req = [r \in Requests |-> Unserved]
  BY SeedRows DEF Init
<1>2. /\ [org |-> 1, user |-> Founder, role |-> "owner"] \in member
      /\ [org |-> 2, user |-> Rival, role |-> "owner"] \in member
      /\ \A m \in member : m.org \in {1, 2}
  BY DEF Init
<1>3. 0 \notin DOMAIN row /\ 1 \in DOMAIN row /\ 2 \in DOMAIN row
  BY <1>1
<1>4. Organizations = {1, 2} /\ row[1].key # row[2].key
  BY <1>1, <1>3, SeedRows DEF Organizations
<1>5. Typed
  <2>1. \A i \in DOMAIN row : row[i] \in Rows
    BY <1>1, SeedRows
  <2>2. req \in [Requests -> States]
    BY <1>1, Unasked
  <2>3. QED BY <1>1, <2>1, <2>2 DEF Typed
<1>6. KeysAreApart
  BY <1>1, Unasked DEF KeysAreApart
<1>7. OrganizationsAreWhole
  <2>1. ASSUME NEW i \in Organizations
        PROVE  i \in subscription /\ \E m \in member : m.org = i /\ m.role = "owner"
    BY <1>1, <1>2, <1>4
  <2>2. \A i, j \in Organizations : row[i].key = row[j].key => i = j
    BY <1>4
  <2>3. QED BY <1>1, <1>2, <1>4, <2>1, <2>2 DEF OrganizationsAreWhole
<1>8. ASSUME NEW i \in DOMAIN row PROVE Placed(i) /\ Credited(i)
  <2>1. i \in 1 .. 12 /\ row[i] = Seed[i] /\ \A j : row[j] = Seed[j]
    BY <1>1
  <2>2. Placed(i)
    BY <1>1, <2>1, SeedRows DEF Placed, ForeignKey
  <2>3. Credited(i)
    BY <2>1, SeedRows, RecordsAssumption DEF Credited
  <2>4. QED BY <2>2, <2>3
<1>9. ASSUME NEW r \in Requests PROVE Fine(req[r])
  BY <1>1, Unasked DEF Fine
<1>10. QED BY <1>5, <1>6, <1>7, <1>8, <1>9 DEF Inv

\* Inv holds in every state the handlers reach.
THEOREM RecordsInvariant == Spec => []Inv
BY InvInit, InvStep, PTL DEF Spec

\* Whatever ids payloads name and whoever deletes what between a look and a
\* commit, no row belongs to or mentions one of another organization, none was
\* made by somebody who may not, and nobody is shown another's.
THEOREM TenantsStayApart == Spec => []TenantsAreApart
<1>1. Inv => TenantsAreApart
  <2> SUFFICES ASSUME Inv PROVE TenantsAreApart
    OBVIOUS
  <2>1. \A i \in DOMAIN row : \A j \in {row[i].in, row[i].of} \ {0} :
          j \in DOMAIN row /\ row[j].org = row[i].org
    BY DEF Inv, Placed, ForeignKey
  <2>2. ASSUME NEW i \in DOMAIN row, row[i].by # None
        PROVE  Holds(req[row[i].by].p.user, row[i].org, Staff)
    <3>1. row[i].by \in Requests
      BY <2>2 DEF Inv, Typed, Rows
    <3>2. QED BY <3>1 DEF Inv, Credited
  <2>3. \A r \in Requests : req[r].shown \subseteq {req[r].p.org}
    BY DEF Inv, Fine
  <2>4. QED BY <2>1, <2>2, <2>3 DEF TenantsAreApart
<1>2. QED BY <1>1, RecordsInvariant, PTL

\* Two who found an organization under the same slug at once: one does, and the
\* other leaves nothing behind; and what is founded has its owner and its
\* subscription at once.
THEOREM OrganizationsStayWhole == Spec => []OrganizationsAreWhole
<1>1. Inv => OrganizationsAreWhole
  BY DEF Inv
<1>2. QED BY <1>1, RecordsInvariant, PTL

\* What was acknowledged is in the database until it is deleted, and a refusal
\* has left nothing there.
THEOREM AnswersStayTrue == Spec => []AnswersAreTrue
<1>1. Inv => AnswersAreTrue
  <2> SUFFICES ASSUME Inv, NEW r \in Requests
               PROVE  /\ req[r].reply = 200 /\ req[r].p.verb = "make" =>
                           req[r].made \in DOMAIN row \cup removed
                      /\ req[r].reply \in {403, 404, 409} => \A i \in DOMAIN row : row[i].by # r
    BY DEF AnswersAreTrue
  <2>1. req[r].reply = 200 /\ req[r].p.verb = "make" =>
          req[r].made \in DOMAIN row \cup removed
    BY DEF Inv, Fine
  <2>2. req[r].reply \in {403, 404, 409} => \A i \in DOMAIN row : row[i].by # r
    BY DEF Inv, Credited
  <2>3. QED BY <2>1, <2>2
<1>2. QED BY <1>1, RecordsInvariant, PTL

\* Rows change in three places only.
LEMMA Writers ==
    ASSUME Inv, NEW r \in Requests, Asks(r) \/ Serves(r) \/ Lost(r)
    PROVE  \/ \A i \in DOMAIN row : i \in DOMAIN row' /\ row'[i] = row[i]
           \/ row' # row /\ Update(r)
           \/ Delete(r)
<1>1. CASE OnlyRequests
  BY <1>1 DEF OnlyRequests
<1>2. CASE Asks(r)
  <2>1. /\ \A roles, p : Accepts(r, roles, p) => OnlyRequests
        /\ \A u, o, found, rows : Shows(r, u, o, found, rows) => OnlyRequests
        /\ \A u, slug : FoundOrganization(r, u, slug) => OnlyRequests
    BY DEF Accepts, Shows, FoundOrganization
  <2>2. ASSUME NEW u, NEW o
        PROVE  /\ CreateAgent(r, u, o) \/ CreateCall(r, u, o) \/ AddCallTranscript(r, u, o)
                    \/ CreateCallSummary(r, u, o) \/ CreateLead(r, u, o)
                    \/ CreateFollowup(r, u, o) \/ CreateKnowledgeDocument(r, u, o)
                  => OnlyRequests
               /\ UpdateAgentConfig(r, u, o) \/ UpdateCall(r, u, o) \/ UpdateLead(r, u, o)
                    \/ UpdateFollowup(r, u, o) \/ UpdateKnowledgeDocument(r, u, o)
                    \/ UpdateOrganization(r, u, o) => OnlyRequests
               /\ DeleteLead(r, u, o) \/ DeleteKnowledgeDocument(r, u, o) => OnlyRequests
    BY <2>1, Zenon DEF CreateAgent, CreateCall, AddCallTranscript, CreateCallSummary, CreateLead,
       CreateFollowup, CreateKnowledgeDocument, UpdateAgentConfig, UpdateCall, UpdateLead,
       UpdateFollowup, UpdateKnowledgeDocument, UpdateOrganization, DeleteLead,
       DeleteKnowledgeDocument
  <2>3. ASSUME NEW u, NEW o, NEW kind
        PROVE  Lists(r, u, o, kind) \/ Gets(r, u, o, kind) => OnlyRequests
    BY <2>1, Zenon DEF Lists, Gets
  <2>4. OnlyRequests
    BY <1>2, <2>1, <2>2, <2>3, Zenon DEF Asks, GetCall, GetAgent, GetLead, GetFollowup,
       GetKnowledgeDocument, ListCalls, ListAgents, ListLeads, ListFollowups, ListKnowledgeDocuments
  <2>5. QED BY <1>1, <2>4
<1>3. CASE Serves(r)
  <2>1. CASE Insert(r)
    BY <2>1 DEF Insert
  <2>2. CASE CommitOrganization(r)
    BY <2>2 DEF CommitOrganization
  <2>3. CASE \/ Look(r) \/ Refresh(r) \/ LookForProfile(r) \/ FlushProfile(r)
             \/ FlushOrganization(r)
    BY <1>1, <2>3 DEF Look, Refresh, LookForProfile, FlushProfile, FlushOrganization
  <2>4. QED BY <1>3, <2>1, <2>2, <2>3 DEF Serves
<1>4. CASE Lost(r)
  BY <1>1, <1>4 DEF Lost
<1>5. QED BY <1>2, <1>3, <1>4

\* A row is changed or deleted only as somebody who may has asked for.
LEMMA ChangesStep ==
    ASSUME Inv, NEW r \in Requests, Asks(r) \/ Serves(r) \/ Lost(r), NEW i \in DOMAIN row
    PROVE  ChangesAsNamed(i)
<1> DEFINE p == req[r].p
<1>1. SUFFICES ASSUME i \notin DOMAIN row' \/ row'[i] # row[i]
      PROVE  \E q \in Requests :
        /\ req[q].at = "write" /\ req'[q].at # "write"
        /\ req[q].p.org = row[i].org
        /\ Holds(req[q].p.user, row[i].org, Staff)
        /\ \/ req[q].p.verb = "delete" /\ Holds(req[q].p.user, row[i].org, Admin)
           \/ /\ i \in DOMAIN row'
              /\ \A f \in DOMAIN row[i] : row'[i][f] # row[i][f] =>
                   f \in DOMAIN req[q].p.set /\ row'[i][f] = req[q].p.set[f]
  BY DEF ChangesAsNamed
<1>2. req[r] \in States /\ Fine(req[r]) /\ req \in [Requests -> States]
  BY RequestTyped DEF Inv, Typed
<1>3. CASE row' # row /\ Update(r)
  <2>1. /\ req[r].at = "write" /\ p.verb = "update" /\ DOMAIN row' = DOMAIN row
        /\ \A j \in DOMAIN row : j # p.looks => row'[j] = row[j]
        /\ p.looks \in DOMAIN row =>
             row'[p.looks] = [f \in DOMAIN row[p.looks] |->
                                IF f \in Written(r) THEN p.set[f] ELSE row[p.looks][f]]
    BY <1>3, UpdatedRows
  <2>2. i = p.looks /\ i \in DOMAIN row'
    BY <1>1, <2>1
  <2>3. row[i].org = p.org /\ Holds(p.user, p.org, Staff)
    BY <1>2, <2>1, <2>2 DEF Fine, Sound
  <2>4. req'[r].at # "write"
    <3>1. Goes(r, "refresh")
      BY <1>3 DEF Update
    <3>2. QED BY <1>2, <3>1 DEF Goes, States
  <2>5. \A f \in DOMAIN row[i] : row'[i][f] # row[i][f] =>
          f \in DOMAIN p.set /\ row'[i][f] = p.set[f]
    BY <2>1, <2>2 DEF Written
  <2>6. QED BY <2>1, <2>2, <2>3, <2>4, <2>5
<1>4. CASE Delete(r)
  <2>1. req[r].at = "write" /\ p.verb = "delete" /\ Answer(r, 204)
    BY <1>4 DEF Delete
  <2>2. i \in Cascade(p.looks)
    BY <1>1, <1>4 DEF Delete
  <2>3. row[i].org = p.org
    BY <2>1, <2>2, DeletedRows
  <2>4. Holds(p.user, p.org, Staff) /\ Holds(p.user, p.org, Admin)
    BY <1>2, <2>1 DEF Fine, Sound
  <2>5. req'[r].at # "write"
    <3>1. PICK T \in States : req' = [req EXCEPT ![r] = T] /\ T.at = "answered"
      BY <2>1, Answering
    <3>2. QED BY <1>2, <3>1
  <2>6. QED BY <2>1, <2>3, <2>4, <2>5
<1>5. QED BY <1>1, <1>3, <1>4, Writers

\* Two updates at a time that name different fields both last, and nothing is
\* changed or deleted but by a request for its own organization.
THEOREM RowsChangeAsNamed == Spec => OnlyWhatWasNamed
<1>1. Inv /\ [Next]_vars => [\A i \in DOMAIN row : ChangesAsNamed(i)]_vars
  <2> SUFFICES ASSUME Inv, Next PROVE \A i \in DOMAIN row : ChangesAsNamed(i)
    OBVIOUS
  <2>1. QED BY ChangesStep DEF Next
<1>2. QED BY <1>1, RecordsInvariant, PTL DEF Spec, OnlyWhatWasNamed
=============================================================================
