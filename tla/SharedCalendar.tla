--------------------------- MODULE SharedCalendar ---------------------------
(***************************************************************************)
(* What a user's pages and the exports of a token show, while the events,  *)
(* the answers and the groups at Spond change: sign-in, the creation of a  *)
(* token, loadFilteredEventsData and handleEventsExportForAccessToken of   *)
(* internal/web/server.go with the calls they make, one step each.         *)
(*                                                                         *)
(* Requests do not touch each other's data, so that there is one user, one *)
(* token and one request at a time, again and again.  That tokens expire   *)
(* and are revoked is AccessTokens, that calls use the user's Spond token  *)
(* is Sessions.                                                            *)
(***************************************************************************)
EXTENDS EventViews, Sequences

CONSTANTS
    Events,         \* the ids of events
    EventStates,    \* what an event may be: its home, what of it the payload
                    \* shows, its start, and who answered what
    Groups,
    People,         \* who has a member entry in every group
    ByAddress,      \* those among them with the user's mail address,
    ByProfile,      \* and those with the user's profile
    Profile, Email, \* the user's
    Requests,       \* the rules that a token may be asked for
    Queries,        \* the filters that a page may be asked with
    PageMax,        \* how many events a page asks Spond for: 100
    ExportMax,      \* and an export, per group: 200
    Nothing,
    MaxEdits,       \* bound: how often Spond changes
    MaxTime         \* bound: the time at which the clock stops

ASSUME SharedAssumption ==
    /\ ByAddress \cup ByProfile \subseteq People
    /\ PageMax \in Nat /\ ExportMax \in Nat
    /\ MaxEdits \in Nat /\ MaxTime \in Nat
    /\ Nothing \notin EventStates
    /\ NoId \notin Groups

(* Ids are of one kind each, and none but NoId is missing: sign-in needs an *)
(* address.  A request may name any status, and a group that is missing.    *)
ASSUME DataAssumption ==
    /\ IsFiniteSet(Events)
    /\ \A v \in EventStates :
          /\ v.home \in Groups /\ v.start \in Int
          /\ DOMAIN v.answers \subseteq People
          /\ \A p \in DOMAIN v.answers : \E i \in 1..5 : v.answers[p] = Answers[i]
    /\ Requests \subseteq Seq([group : Groups \cup {NoId}, statuses : SUBSET STRING,
                             includePast : BOOLEAN])
    /\ Queries \subseteq [groups : Seq(Groups), statuses : SUBSET STRING,
                         includePast : BOOLEAN]
    /\ Profile \notin {NoId} \cup (Groups \X People)
    /\ Email # NoId
    /\ NoId \notin Groups \X {"sub"}

VARIABLES
    now,
    spond,      \* the events at Spond
    joined,     \* the groups the user is in
    edits,      \* how often Spond changed
    session,    \* the actor ids in the session cookie, or Nothing
    scope,      \* the scope of the token, or Nothing
    reader,     \* the request for a page or an export
    allowed     \* history: the events that were meant at some time since that
                \* request began

vars == <<now, spond, joined, edits, session, scope, reader, allowed>>

NoReader == [stage |-> "idle"]

Init ==
    /\ now = 0
    /\ spond \in [Events -> EventStates \cup {Nothing}]
    /\ joined \in (SUBSET Groups) \ {{}}
    /\ edits = 0
    /\ session = Nothing
    /\ scope = Nothing
    /\ reader = NoReader
    /\ allowed = {}

-----------------------------------------------------------------------------
(* What Spond tells this user.                                             *)

(* GET groups. *)
GroupsAnswered ==
    {[id |-> g,
      subGroups |-> {<<g, "sub">>},
      members |-> {[id |-> <<g, p>>,
                    email |-> IF p \in ByAddress THEN Email ELSE NoId,
                    profile |-> IF p \in ByProfile THEN Profile ELSE NoId] :
                      p \in People}] : g \in joined}

Visible == {e \in Events : spond[e] # Nothing /\ spond[e].home \in joined}

Payload(e) ==
    LET v == spond[e]
    IN [id |-> e,
        group |-> IF v.shows = "group" THEN v.home ELSE NoId,
        subGroup |-> IF v.shows = "subGroup" THEN <<v.home, "sub">> ELSE NoId,
        start |-> v.start,
        responses |-> [m \in {v.home} \X DOMAIN v.answers |-> v.answers[m[2]]]]

(* GET sponds: at most max of the events asked for, whichever they are. *)
EventsAnswered(wanted, max) ==
    {{Payload(e) : e \in chosen} : chosen \in
        kSubset(Min({max, Cardinality(wanted)}), wanted)}

-----------------------------------------------------------------------------
(* What the user means by the rules of a token, or the filters of a page:  *)
(* a definition by what Spond knows, apart from the code's.                *)

OwnIds == joined \X (ByAddress \cup ByProfile)

AnsweredBy(e, ids) ==
    {spond[e].answers[p] : p \in {p \in DOMAIN spond[e].answers :
                                      <<spond[e].home, p>> \in ids}}

HasStatus(e, ids, status) ==
    LET given == AnsweredBy(e, ids)
    IN CASE status = "accepted" -> "accepted" \in given
         [] status = "declined" -> "declined" \in given /\ "accepted" \notin given
         [] status = "unanswered" -> given = {"unanswered"}
         [] status = "other" -> /\ given # {"unanswered"}
                                /\ given \cap {"accepted", "declined"} = {}

InScope(e, ids, t) ==
    \E i \in DOMAIN scope.groups :
       LET rule == scope.groups[i] IN
       /\ spond[e].home = rule.group
       /\ \E s \in rule.statuses : HasStatus(e, ids, s)
       /\ spond[e].start < t => rule.includePast

Codes == [accepted |-> "0", declined |-> "1", unanswered |-> "2", other |-> "3"]

Named(values) == {s \in Statuses : values \cap {s, Codes[s]} # {}}

InQuery(e, ids, query, t) ==
    /\ query.groups # <<>> =>
          \E i \in DOMAIN query.groups : query.groups[i] = spond[e].home
    /\ Named(query.statuses) # {} =>
          \E s \in Named(query.statuses) : HasStatus(e, ids, s)
    /\ spond[e].start < t => query.includePast

(* What the request should show if it were answered at once at t. *)
Meant(r, ids, t) ==
    {e \in Visible : IF r.kind = "export" THEN InScope(e, ids, t)
                     ELSE InQuery(e, ids, r.query, t)}

-----------------------------------------------------------------------------
(* handleSigninPost, which does without the groups if they fail to load. *)
SignIn ==
    /\ session = Nothing
    /\ \E groups \in {GroupsAnswered, {}} :
          session' = ResponseActorIds(Profile, Email, groups)
    /\ UNCHANGED <<now, spond, joined, edits, scope, reader, allowed>>

(* handleCreateAccessTokenAPI, and the form's handler, which does the same: *)
(* the token keeps the ids that the session had.                           *)
CreateToken ==
    /\ session # Nothing /\ scope = Nothing
    /\ \E rules \in Requests :
          /\ ValidRequest(rules, session)
          /\ scope' = NormalizeCreateAccessTokenRequest(rules, session)
    /\ UNCHANGED <<now, spond, joined, edits, session, reader, allowed>>

(* A request begins.  Of its record, since is history: the edits by then. *)
Open(r) ==
    /\ reader.stage \in {"idle", "shown"}
    /\ reader' = [stage |-> "groups", kind |-> r.kind, query |-> r.query,
                  actors |-> r.actors, asked |-> r.asked, max |-> r.max,
                  parents |-> Nothing, found |-> {}, cut |-> FALSE, at |-> now,
                  shown |-> {}, since |-> edits]
    /\ allowed' = Meant(r, r.actors, now)
    /\ UNCHANGED <<now, spond, joined, edits, session, scope>>

OpenPage ==
    /\ session # Nothing
    /\ \E q \in Queries :
          Open([kind |-> "page", query |-> q, actors |-> session,
                asked |-> q.groups, max |-> PageMax])

OpenExport ==
    /\ scope # Nothing
    /\ Open([kind |-> "export", query |-> Nothing, actors |-> scope.actors,
             asked |-> [i \in DOMAIN scope.groups |-> scope.groups[i].group],
             max |-> ExportMax])

LoadGroups ==
    /\ reader.stage = "groups"
    /\ reader' = [reader EXCEPT !.stage = "events",
                     !.parents = BuildSubGroupParentById(GroupsAnswered)]
    /\ UNCHANGED <<now, spond, joined, edits, session, scope, allowed>>

(* FetchEvents: the events of all groups. *)
FetchEvents ==
    /\ reader.stage = "events" /\ reader.asked = <<>>
    /\ \E answer \in EventsAnswered(Visible, reader.max) :
          reader' = [reader EXCEPT !.stage = "build", !.found = answer,
                        !.cut = Cardinality(answer) < Cardinality(Visible)]
    /\ UNCHANGED <<now, spond, joined, edits, session, scope, allowed>>

(* FetchEventsForGroups: a call for each group in turn. *)
FetchEventsForGroup ==
    /\ reader.stage = "events" /\ reader.asked # <<>>
    /\ LET group == Head(reader.asked)
           wanted == {e \in Visible : spond[e].home = group}
       IN \E answer \in EventsAnswered(wanted, reader.max) :
             reader' = [reader EXCEPT
                !.stage = IF Len(reader.asked) = 1 THEN "build" ELSE "events",
                !.asked = Tail(@),
                !.found = Combine(@, group, answer),
                !.cut = @ \/ Cardinality(answer) < Cardinality(wanted)]
    /\ UNCHANGED <<now, spond, joined, edits, session, scope, allowed>>

(* Builds the views, filters them, and answers. *)
Show ==
    /\ reader.stage = "build"
    /\ LET views == BuildEventViewData(reader.found, reader.actors,
                                       reader.parents, now)
           shown == IF reader.kind = "export"
                    THEN FilterEventsByICalScope(views, scope)
                    ELSE IncludePastEvents(
                            FilterEventViewData(views, {},
                                NormalizeStatusFilterValues(reader.query.statuses)),
                            reader.query.includePast)
       IN reader' = [reader EXCEPT !.stage = "shown", !.at = now, !.found = {},
                                   !.shown = {v.event : v \in shown}]
    /\ UNCHANGED <<now, spond, joined, edits, session, scope, allowed>>

(* A call to Spond fails; then a page ends the session, an export does not. *)
ReaderFails ==
    /\ reader.stage \in {"groups", "events"}
    /\ reader' = NoReader
    /\ session' = IF reader.kind = "page" THEN Nothing ELSE session
    /\ UNCHANGED <<now, spond, joined, edits, scope, allowed>>

(* Somebody makes, changes or deletes an event, or answers it, or the user *)
(* joins or leaves a group.                                                *)
SpondChanges ==
    /\ edits < MaxEdits
    /\ edits' = edits + 1
    /\ \/ /\ \E e \in Events, v \in EventStates \cup {Nothing} :
                v # spond[e] /\ spond' = [spond EXCEPT ![e] = v]
          /\ joined' = joined
       \/ /\ \E g \in Groups :
                joined' = IF g \in joined THEN joined \ {g} ELSE joined \cup {g}
          /\ spond' = spond
    /\ UNCHANGED <<now, session, scope, reader>>
    /\ allowed' = IF reader.stage \in {"groups", "events", "build"}
                  THEN allowed \cup Meant(reader, reader.actors, now)'
                  ELSE allowed

Tick ==
    /\ now < MaxTime
    /\ now' = now + 1
    /\ UNCHANGED <<spond, joined, edits, session, scope, reader, allowed>>

Next ==
    \/ SignIn \/ CreateToken
    \/ OpenPage \/ OpenExport
    \/ LoadGroups \/ FetchEvents \/ FetchEventsForGroup \/ Show \/ ReaderFails
    \/ SpondChanges \/ Tick

Spec == Init /\ [][Next]_vars

-----------------------------------------------------------------------------
TypeOK ==
    /\ now \in 0..MaxTime
    /\ spond \in [Events -> EventStates \cup {Nothing}]
    /\ joined \subseteq Groups
    /\ edits \in 0..MaxEdits
    /\ session # Nothing => Profile \in session
    /\ scope # Nothing =>
          /\ Profile \in scope.actors
          /\ \A i, j \in DOMAIN scope.groups :
                /\ scope.groups[i].statuses \in (SUBSET Statuses) \ {{}}
                /\ scope.groups[i].group = scope.groups[j].group => i = j
    /\ reader # NoReader => reader.shown \subseteq Events
    /\ allowed \subseteq Events

(* However Spond changes while an export asks for group after group, what  *)
(* it shows was at some time since it began an event that the token's      *)
(* scope allows: of that group, with that answer, and not past unless the  *)
(* group's rule says so (handleEventsExportForAccessToken).  No event that *)
(* moves between two calls is shown under the rule of the other group.     *)
NothingBeyondScope ==
    reader.stage = "shown" /\ reader.kind = "export" =>
        reader.shown \subseteq allowed

(* When Spond is quiet, no answer is cut off at the limit, and the user is *)
(* in no group that the ids of the session or token do not know, then a    *)
(* page or export shows the events that were meant and no other: also those *)
(* whose payload names a sub-group or no group                             *)
(* (TestAccessTokenExportIncludesEventsWhenGroupIDIsOmittedByAPI).         *)
ShownAsMeant ==
    /\ reader.stage = "shown" /\ reader.since = edits
    /\ ~reader.cut
    /\ OwnIds \subseteq reader.actors
    => reader.shown = Meant(reader, OwnIds, reader.at)

(* Ids that are missing, as the groups failed to load at the sign-in or the *)
(* user has joined a group since, hide events; they make none pass as       *)
(* accepted, declined or not answered that is not: what is shown and was    *)
(* not meant is shown as "other" (responseStatusForActors).                 *)
MissingIdsOnlyHide ==
    reader.stage = "shown" /\ reader.since = edits /\ reader.kind = "export" =>
        \A e \in reader.shown \ Meant(reader, OwnIds, reader.at) :
            \E i \in DOMAIN scope.groups :
                /\ scope.groups[i].group = spond[e].home
                /\ "other" \in scope.groups[i].statuses
=============================================================================
