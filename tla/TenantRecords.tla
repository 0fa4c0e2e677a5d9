---------------------------- MODULE TenantRecords ----------------------------
(***************************************************************************)
(* The backend's REST handlers over one database that all organizations    *)
(* share.  A request has one session, so one transaction, from its         *)
(* membership check to its commit (READ COMMITTED: every statement sees    *)
(* what is committed by then).  A step is one statement, or the flush and  *)
(* the commit together where nothing can come between them: only           *)
(* create_organization flushes earlier, and holds the unique keys it has   *)
(* inserted until it ends.  What the database enforces is what the models  *)
(* declare: composite foreign keys (id, organization_id), unique keys, and *)
(* cascades of deletion.                                                   *)
(***************************************************************************)
EXTENDS Integers, Sequences, FiniteSets

CONSTANTS
    Requests,  \* requests, each served once
    Users,     \* who bears a valid token
    Founder,   \* owns the first organization and looks on in the second
    Rival,     \* owns the second one
    Slugs, Sids, \* slugs of organizations and CallSids that requests name
    None

ASSUME RecordsAssumption ==
    /\ {Founder, Rival} \subseteq Users /\ Founder # Rival
    /\ None \notin Requests \cup Slugs \cup Sids

VARIABLES
    row,          \* the committed rows: a function from their ids
    last,         \* the last id that was given out
    member,       \* organization_members: [org, user, role]
    profile,      \* users with a profile
    subscription, \* organizations with a subscription
    removed,      \* ids whose rows have been deleted
    req           \* where each request is

vars == <<row, last, member, profile, subscription, removed, req>>

Fields == {"status", "notes"}

-----------------------------------------------------------------------------
(* Rows and what the database makes of them *)

\* "in" is the row this one belongs to and is deleted with, "of" one it
\* mentions; 0 is NULL.
Row(kind, org, in, of, key, by) ==
    [kind |-> kind, org |-> org, in |-> in, of |-> of, key |-> key,
     status |-> 0, notes |-> 0, by |-> by]

Mentions(kind) == CASE kind = "call" -> "agent" [] OTHER -> "call"

\* Mutant: a foreign key on the id alone.
IdExists(id, org) == id = 0 \/ id \in DOMAIN row

\* A foreign key on the id and the organization.
ForeignKey(id, org) == id = 0 \/ (id \in DOMAIN row /\ row[id].org = org)

\* Unique constraints; a call's key is the carrier's CallSid, of all tenants.
Clash(x, y) ==
    /\ x.kind = y.kind
    /\ CASE x.kind \in {"call", "organization"} -> x.key = y.key /\ x.key # None
         [] x.kind = "transcript"               -> x.in = y.in /\ x.key = y.key
         [] x.kind \in {"summary", "config"}    -> x.in = y.in
         [] OTHER                               -> FALSE

Acceptable(x) ==
    /\ ForeignKey(x.in, x.org) /\ ForeignKey(x.of, x.org)
    /\ \A i \in DOMAIN row : ~Clash(x, row[i])

Cascade(id) == {i \in DOMAIN row : i = id \/ row[i].in = id}

-----------------------------------------------------------------------------
(* The life of a request *)

Nothing == [verb |-> "none", kind |-> "none", user |-> None, org |-> 0,
            looks |-> 0, of |-> 0, key |-> None, set |-> <<>>]

Wants(verb, kind, user, org) ==
    [Nothing EXCEPT !.verb = verb, !.kind = kind, !.user = user, !.org = org]

Unserved == [at |-> "idle", p |-> Nothing, loaded |-> <<>>, made |-> 0,
             held |-> {}, shown |-> {}, reply |-> 0]

OnlyRequests == UNCHANGED <<row, last, member, profile, subscription, removed>>
Keeps(r) == UNCHANGED <<last, member, profile, subscription, removed>>

\* The session is closed and with it the transaction.  Of the request only who
\* asked for which organization, whether it was to make something, what it has
\* made and the answer are kept.
Answer(r, code) ==
    LET p == req[r].p
        makes == IF p.verb \in {"insert", "found"} THEN "make" ELSE "done" IN
    req' = [req EXCEPT ![r] = [Unserved EXCEPT
              !.at = "answered", !.reply = code, !.made = req[r].made,
              !.p = Wants(makes, "none", p.user, p.org)]]

\* Mutant: after the rollback the exception is forgotten.
AbandonQuietly(r) == Answer(r, 200)

\* IntegrityError, StaleDataError or a lost connection, in get_db: rollback.
Abandon(r) == Answer(r, 500)

Goes(r, at) == req' = [req EXCEPT ![r].at = at]

Viewing == {"owner", "admin", "counselor", "viewer"}
Staff   == {"owner", "admin", "counselor"}
Admin   == {"owner", "admin"}

\* get_tenant_membership and require_role
Holds(user, org, roles) ==
    \E m \in member : m.user = user /\ m.org = org /\ m.role \in roles

Accepts(r, roles, p) ==
    /\ req[r].at = "idle"
    /\ IF Holds(p.user, p.org, roles)
       THEN req' = [req EXCEPT ![r].p = p,
                      ![r].at = IF p.looks = 0 THEN "write" ELSE "look"]
       ELSE Answer(r, 403)
    /\ OnlyRequests

Organizations == {i \in DOMAIN row : row[i].kind = "organization"}
Ids(kind)     == {i \in DOMAIN row : row[i].kind = kind}

\* The row that the handler selects before it writes.
Selected(p) == CASE p.kind = "followup" /\ p.verb = "insert" -> "lead"
                 [] p.kind \in {"transcript", "summary"}      -> "call"
                 [] OTHER                                     -> p.kind

Found(p) == /\ p.looks \in Ids(Selected(p))
            /\ row[p.looks].org = p.org

SummaryOf(p) == {i \in Ids("summary") : row[i].in = p.looks /\ row[i].org = p.org}

\* A summary that exists already is updated.
Look(r) ==
    LET p == req[r].p IN
    /\ req[r].at = "look"
    /\ IF ~Found(p) THEN Answer(r, 404)
       ELSE IF p.verb = "save" /\ SummaryOf(p) # {}
       THEN \E s \in SummaryOf(p) :
              req' = [req EXCEPT ![r].at = "write", ![r].loaded = row[s],
                                 ![r].p.verb = "update", ![r].p.looks = s]
       ELSE req' = [req EXCEPT ![r].at = "write", ![r].loaded = row[p.looks],
                               ![r].p.verb = IF @ = "save" THEN "insert" ELSE @]
    /\ OnlyRequests

\* What the unit of work writes of a PATCH: the attributes it named
\* (exclude_unset) whose value differs from the one that was loaded.
\* Mutant: every attribute, those the request left out as they were loaded.
WritesAll(r) == Fields

Written(r) == {f \in DOMAIN req[r].p.set : req[r].p.set[f] # req[r].loaded[f]}

Value(r, f) == IF f \in DOMAIN req[r].p.set THEN req[r].p.set[f] ELSE req[r].loaded[f]

Insert(r) ==
    LET p == req[r].p
        in == IF p.kind \in {"followup", "transcript", "summary"} THEN p.looks ELSE 0
        new == Row(p.kind, p.org, in, p.of, p.key, r)
        config == Row("config", p.org, last + 1, 0, None, r)
        count == IF p.kind = "agent" THEN 2 ELSE 1
    IN
    /\ req[r].at = "write" /\ p.verb = "insert"
    /\ IF Acceptable(new)
       THEN /\ last' = last + count
            /\ row' = [i \in DOMAIN row \cup (last + 1 .. last + count) |->
                         IF i \in DOMAIN row THEN row[i]
                         ELSE IF i = last + 1 THEN new ELSE config]
            /\ req' = [req EXCEPT ![r].at = "refresh", ![r].made = last + 1]
       ELSE Abandon(r) /\ UNCHANGED <<row, last>>
    /\ UNCHANGED <<member, profile, subscription, removed>>

Update(r) ==
    LET id == req[r].p.looks IN
    /\ req[r].at = "write" /\ req[r].p.verb = "update"
    /\ IF Written(r) # {} /\ id \notin DOMAIN row
       THEN Abandon(r) /\ UNCHANGED row
       ELSE /\ Goes(r, "refresh")
            /\ row' = [i \in DOMAIN row |->
                         IF i # id THEN row[i]
                         ELSE [f \in DOMAIN row[i] |-> IF f \in Written(r) THEN Value(r, f)
                                                       ELSE row[i][f]]]
    /\ Keeps(r)

\* Deleting what is gone deletes nothing, and is no error.
Delete(r) ==
    LET gone == Cascade(req[r].p.looks) IN
    /\ req[r].at = "write" /\ req[r].p.verb = "delete"
    /\ row' = [i \in DOMAIN row \ gone |-> row[i]]
    /\ removed' = removed \cup gone
    /\ Answer(r, 204)
    /\ UNCHANGED <<last, member, profile, subscription>>

\* After the commit the row is read again; it may be gone.
Refresh(r) ==
    LET id == IF req[r].made # 0 THEN req[r].made ELSE req[r].p.looks IN
    /\ req[r].at = "refresh"
    /\ IF id \in DOMAIN row THEN Answer(r, 200) ELSE Abandon(r)
    /\ OnlyRequests

\* The database or the client is lost; what is committed stays.
Lost(r) ==
    /\ req[r].at \notin {"idle", "answered"}
    /\ Abandon(r)
    /\ OnlyRequests

-----------------------------------------------------------------------------
(* Handlers that write, one per endpoint *)

Patches == {s \in UNION {[D -> {1}] : D \in SUBSET Fields} : DOMAIN s # {}}

CreateAgent(r, u, o) == Accepts(r, Admin, Wants("insert", "agent", u, o))

UpdateAgentConfig(r, u, o) ==
    \E a \in Ids("config"), s \in Patches :
        Accepts(r, Admin, [Wants("update", "config", u, o) EXCEPT !.looks = a, !.set = s])

\* The agent that the payload names is not looked up.
CreateCall(r, u, o) ==
    \E a \in {0} \cup Ids("agent"), sid \in {None} \cup Sids :
        Accepts(r, Staff, [Wants("insert", "call", u, o) EXCEPT !.of = a, !.key = sid])

UpdateCall(r, u, o) ==
    \E c \in Ids("call"), s \in Patches :
        Accepts(r, Staff, [Wants("update", "call", u, o) EXCEPT !.looks = c, !.set = s])

AddCallTranscript(r, u, o) ==
    \E c \in Ids("call"), turn \in {0, 1} :
        Accepts(r, Staff, [Wants("insert", "transcript", u, o) EXCEPT !.looks = c, !.key = turn])

CreateCallSummary(r, u, o) ==
    \E c \in Ids("call") :
        Accepts(r, Staff, [Wants("save", "summary", u, o) EXCEPT !.looks = c,
                             !.set = [f \in Fields |-> 1]])

\* Nor is the call that the payload names.
CreateLead(r, u, o) ==
    \E c \in {0} \cup Ids("call") :
        Accepts(r, Staff, [Wants("insert", "lead", u, o) EXCEPT !.of = c])

UpdateLead(r, u, o) ==
    \E l \in Ids("lead"), s \in Patches :
        Accepts(r, Staff, [Wants("update", "lead", u, o) EXCEPT !.looks = l, !.set = s])

DeleteLead(r, u, o) ==
    \E l \in Ids("lead") :
        Accepts(r, Admin, [Wants("delete", "lead", u, o) EXCEPT !.looks = l])

CreateFollowup(r, u, o) ==
    \E l \in Ids("lead"), c \in {0} \cup Ids("call") :
        Accepts(r, Staff, [Wants("insert", "followup", u, o) EXCEPT !.looks = l, !.of = c])

UpdateFollowup(r, u, o) ==
    \E f \in Ids("followup"), s \in Patches :
        Accepts(r, Staff, [Wants("update", "followup", u, o) EXCEPT !.looks = f, !.set = s])

CreateKnowledgeDocument(r, u, o) == Accepts(r, Staff, Wants("insert", "document", u, o))

UpdateKnowledgeDocument(r, u, o) ==
    \E d \in Ids("document"), s \in Patches :
        Accepts(r, Staff, [Wants("update", "document", u, o) EXCEPT !.looks = d, !.set = s])

DeleteKnowledgeDocument(r, u, o) ==
    \E d \in Ids("document") :
        Accepts(r, Admin, [Wants("delete", "document", u, o) EXCEPT !.looks = d])

UpdateOrganization(r, u, o) ==
    \E s \in Patches :
        Accepts(r, Admin, [Wants("update", "organization", u, o) EXCEPT !.looks = o, !.set = s])

-----------------------------------------------------------------------------
(* create_organization, which anybody may ask for *)

Holder(key) == {r \in Requests : key \in req[r].held}

\* The slug is free as far as one can see.
FoundOrganization(r, u, slug) ==
    /\ req[r].at = "idle"
    /\ LET p == [Wants("found", "organization", u, 0) EXCEPT !.key = slug]
           taken == \E i \in Organizations : row[i].key = slug
       IN IF taken THEN Answer(r, 409)
          ELSE req' = [req EXCEPT ![r].p = p, ![r].at = "profile"]
    /\ OnlyRequests

LookForProfile(r) ==
    /\ req[r].at = "profile"
    /\ Goes(r, IF req[r].p.user \in profile THEN "slug" ELSE "newProfile")
    /\ OnlyRequests

\* The insertion of a unique key waits for the one who has inserted it before,
\* and fails when that one commits.
FlushKey(r, key, exists, next) ==
    /\ Holder(key) = {}
    /\ IF exists THEN Abandon(r)
       ELSE req' = [req EXCEPT ![r].held = @ \cup {key}, ![r].at = next]

FlushProfile(r) ==
    /\ req[r].at = "newProfile"
    /\ FlushKey(r, req[r].p.user, req[r].p.user \in profile, "slug")
    /\ OnlyRequests

\* Mutant: the organization is committed before its owner is added.
FlushOrganizationForGood(r) ==
    /\ req[r].at = "slug"
    /\ LET taken == \E i \in Organizations : row[i].key = req[r].p.key IN
       /\ FlushKey(r, req[r].p.key, taken, "owner")
       /\ IF taken THEN UNCHANGED <<row, last>>
          ELSE /\ last' = last + 1
               /\ row' = [i \in DOMAIN row \cup {last + 1} |->
                            IF i \in DOMAIN row THEN row[i]
                            ELSE Row("organization", last + 1, 0, 0, req[r].p.key, r)]
    /\ UNCHANGED <<member, profile, subscription, removed>>

FlushOrganization(r) ==
    /\ req[r].at = "slug"
    /\ FlushKey(r, req[r].p.key, \E i \in Organizations : row[i].key = req[r].p.key, "owner")
    /\ OnlyRequests

CommitOrganization(r) ==
    LET id == last + 1 IN
    /\ req[r].at = "owner"
    /\ last' = id
    /\ row' = [i \in DOMAIN row \cup {id} |->
                 IF i \in DOMAIN row THEN row[i]
                 ELSE Row("organization", id, 0, 0, req[r].p.key, r)]
    /\ member' = member \cup {[org |-> id, user |-> req[r].p.user, role |-> "owner"]}
    /\ profile' = profile \cup (req[r].held \cap Users)
    /\ subscription' = subscription \cup {id}
    /\ req' = [req EXCEPT ![r].at = "refresh", ![r].made = id, ![r].held = {}]
    /\ UNCHANGED removed

-----------------------------------------------------------------------------
(* Handlers that read: what they show is answered at once *)

Shows(r, u, o, found, rows) ==
    /\ req[r].at = "idle"
    /\ req' = [req EXCEPT ![r].at = "answered",
                 ![r].p = Wants("done", "none", u, o),
                 ![r].reply = IF ~Holds(u, o, Viewing) THEN 403
                              ELSE IF found THEN 200 ELSE 404,
                 ![r].shown = IF Holds(u, o, Viewing) THEN {row[i].org : i \in rows} ELSE {}]
    /\ OnlyRequests

Lists(r, u, o, kind) ==
    Shows(r, u, o, TRUE, {i \in Ids(kind) : row[i].org = o})

\* What is selected by id and organization comes with what belongs to it.
Gets(r, u, o, kind) ==
    \E id \in Ids(kind) :
        Shows(r, u, o, row[id].org = o, IF row[id].org = o THEN Cascade(id) ELSE {})

GetCall(r, u, o)                == Gets(r, u, o, "call")
GetAgent(r, u, o)               == Gets(r, u, o, "agent")
GetLead(r, u, o)                == Gets(r, u, o, "lead")
GetFollowup(r, u, o)            == Gets(r, u, o, "followup")
GetKnowledgeDocument(r, u, o)   == Gets(r, u, o, "document")
ListCalls(r, u, o)              == Lists(r, u, o, "call")
ListAgents(r, u, o)             == Lists(r, u, o, "agent")
ListLeads(r, u, o)              == Lists(r, u, o, "lead")
ListFollowups(r, u, o)          == Lists(r, u, o, "followup")
ListKnowledgeDocuments(r, u, o) == Lists(r, u, o, "document")

-----------------------------------------------------------------------------
(* Specification *)

\* Two organizations that have been at work: what the handlers have made of it.
Seed == <<
    Row("organization", 1, 0, 0, "first", None),
    Row("organization", 2, 0, 0, "second", None),
    Row("agent", 1, 0, 0, None, None), Row("config", 1, 3, 0, None, None),
    Row("call", 1, 0, 3, None, None), Row("lead", 1, 0, 5, None, None),
    Row("followup", 1, 6, 5, None, None), Row("document", 1, 0, 0, None, None),
    Row("agent", 2, 0, 0, None, None), Row("config", 2, 9, 0, None, None),
    Row("call", 2, 0, 9, None, None), Row("lead", 2, 0, 11, None, None) >>

Init ==
    /\ row = Seed /\ last = Len(Seed) /\ removed = {}
    /\ member = {[org |-> 1, user |-> Founder, role |-> "owner"],
                 [org |-> 2, user |-> Founder, role |-> "viewer"],
                 [org |-> 2, user |-> Rival, role |-> "owner"]}
    /\ profile = {Founder, Rival} /\ subscription = {1, 2}
    /\ req = [r \in Requests |-> Unserved]

Asks(r) ==
    \E u \in Users :
        \/ \E slug \in Slugs : FoundOrganization(r, u, slug)
        \/ \E o \in Organizations :
             \/ CreateAgent(r, u, o) \/ UpdateAgentConfig(r, u, o)
             \/ CreateCall(r, u, o) \/ UpdateCall(r, u, o)
             \/ AddCallTranscript(r, u, o) \/ CreateCallSummary(r, u, o)
             \/ CreateLead(r, u, o) \/ UpdateLead(r, u, o) \/ DeleteLead(r, u, o)
             \/ CreateFollowup(r, u, o) \/ UpdateFollowup(r, u, o)
             \/ CreateKnowledgeDocument(r, u, o) \/ UpdateKnowledgeDocument(r, u, o)
             \/ DeleteKnowledgeDocument(r, u, o) \/ UpdateOrganization(r, u, o)
             \/ GetCall(r, u, o) \/ GetAgent(r, u, o) \/ GetLead(r, u, o)
             \/ GetFollowup(r, u, o) \/ GetKnowledgeDocument(r, u, o)
             \/ ListCalls(r, u, o) \/ ListAgents(r, u, o) \/ ListLeads(r, u, o)
             \/ ListFollowups(r, u, o) \/ ListKnowledgeDocuments(r, u, o)

Serves(r) ==
    \/ Look(r) \/ Insert(r) \/ Update(r) \/ Delete(r) \/ Refresh(r)
    \/ LookForProfile(r) \/ FlushProfile(r) \/ FlushOrganization(r)
    \/ CommitOrganization(r)

Next == \E r \in Requests : Asks(r) \/ Serves(r) \/ Lost(r)

\* Safety only: no property here asks that a request is answered.
Spec == Init /\ [][Next]_vars

-----------------------------------------------------------------------------
(* Properties *)

\* Whatever ids a payload names, and whoever deletes what meanwhile: a row
\* belongs to and mentions only rows that are there and are of its own
\* organization; it was made by somebody who may; and what a request was shown
\* is of the organization it asked for.
TenantsAreApart ==
    /\ \A i \in DOMAIN row : \A j \in {row[i].in, row[i].of} \ {0} :
         j \in DOMAIN row /\ row[j].org = row[i].org
    /\ \A i \in DOMAIN row : row[i].by # None =>
         Holds(req[row[i].by].p.user, row[i].org, Staff)
    /\ \A r \in Requests : req[r].shown \subseteq {req[r].p.org}

\* Somebody who may has asked for what becomes of row i, if anything does.
ChangesAsNamed(i) ==
    (i \notin DOMAIN row' \/ row'[i] # row[i]) =>
      \E r \in Requests :
        /\ req[r].at = "write" /\ req'[r].at # "write"
        /\ req[r].p.org = row[i].org
        /\ Holds(req[r].p.user, row[i].org, Staff)
        /\ \/ req[r].p.verb = "delete" /\ Holds(req[r].p.user, row[i].org, Admin)
           \/ /\ i \in DOMAIN row'
              /\ \A f \in DOMAIN row[i] : row'[i][f] # row[i][f] =>
                   f \in DOMAIN req[r].p.set /\ row'[i][f] = req[r].p.set[f]

\* A row is only changed or deleted by a request for its own organization, of
\* somebody who may, and no field changes but one the request named: two
\* updates at a time that name different fields both last.
OnlyWhatWasNamed == [][\A i \in DOMAIN row : ChangesAsNamed(i)]_vars

\* An organization has its owner and its subscription from the moment it can be
\* seen, and nothing is left of one whose slug another took meanwhile.
OrganizationsAreWhole ==
    /\ \A i \in Organizations :
         /\ i \in subscription
         /\ \E m \in member : m.org = i /\ m.role = "owner"
         /\ \A j \in Organizations : row[i].key = row[j].key => i = j
    /\ \A m \in member : m.org \in Organizations
    /\ subscription \subseteq Organizations

\* What was acknowledged is there unless it was deleted, and of a request that was
\* refused there is nothing.
AnswersAreTrue ==
    \A r \in Requests :
        /\ req[r].reply = 200 /\ req[r].p.verb = "make" =>
             req[r].made \in DOMAIN row \cup removed
        /\ req[r].reply \in {403, 404, 409} => \A i \in DOMAIN row : row[i].by # r
=============================================================================
