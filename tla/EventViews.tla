----------------------------- MODULE EventViews -----------------------------
(***************************************************************************)
(* How the events that Spond answers with become what a page or an export  *)
(* shows: the functions of internal/web/events_view.go, access_scope.go    *)
(* and ical_export.go, and the merge of internal/spond/client.go.  They    *)
(* keep no state; SharedCalendar calls them as the handlers do.            *)
(*                                                                         *)
(* Events have ids.  Sorting, labels, names and the text of the calendar   *)
(* are left out, so that a list of events or views is a set; the lists of  *)
(* upcoming and past events are one set, its members marked.               *)
(***************************************************************************)
EXTENDS Integers, FiniteSetsExt

CONSTANT NoId       \* an id that is missing

-----------------------------------------------------------------------------
(* What Spond answers.  An event names a group, or a sub-group, or neither; *)
(* responses is a function from the members and profiles that have a place *)
(* in one of its five lists.                                               *)

Answers == <<"accepted", "declined", "waiting", "unconfirmed", "unanswered">>

(* The statuses that filters and scopes know. *)
Statuses == {"accepted", "declined", "unanswered", "other"}

(* The first list that has one of the actors. *)
ResponseStatusForActors(responses, actors) ==
    LET places == {i \in 1..5 : \E a \in actors \cap DOMAIN responses :
                      responses[a] = Answers[i]}
    IN IF places = {} THEN "unknown" ELSE Answers[Min(places)]

(* Mutant: whose answer is not known has not answered. *)
StatusFilterKeyUnanswered(status) ==
    IF status \in {"accepted", "declined"} THEN status
    ELSE IF status \in {"unanswered", "unknown"} THEN "unanswered"
    ELSE "other"

StatusFilterKey(status) ==
    IF status \in {"accepted", "declined", "unanswered"} THEN status ELSE "other"

(* The parents of the sub-groups among the groups answered. *)
BuildSubGroupParentById(groups) ==
    [s \in UNION {g.subGroups : g \in groups} |->
        (CHOOSE g \in groups : s \in g.subGroups).id]

EventGroupId(event, parents) ==
    IF event.group # NoId THEN event.group
    ELSE IF event.subGroup \in DOMAIN parents THEN parents[event.subGroup]
    ELSE NoId

(* Mutant: an event that starts now is past. *)
BuildEventViewDataAtOnce(events, actors, parents, now) ==
    {[event |-> e.id,
      group |-> EventGroupId(e, parents),
      status |-> StatusFilterKey(ResponseStatusForActors(e.responses, actors)),
      past |-> e.start <= now] : e \in events}

BuildEventViewData(events, actors, parents, now) ==
    {[event |-> e.id,
      group |-> EventGroupId(e, parents),
      status |-> StatusFilterKey(ResponseStatusForActors(e.responses, actors)),
      past |-> e.start < now] : e \in events}

(* The ids under which the user may have answered: the profile's, and those *)
(* of the members with the user's address or profile.                       *)
ResponseActorIds(profile, email, groups) ==
    LET mine == {m \in UNION {g.members : g \in groups} :
                    m.email = email \/ m.profile = profile \/ m.id = profile}
    IN {profile} \cup {m.id : m \in mine}
                 \cup ({m.profile : m \in mine} \ {NoId})

-----------------------------------------------------------------------------
(* The body of the loop of FetchEventsForGroups: an event that names no    *)
(* group is one of the group asked for, and the first of an id wins.       *)
Combine(combined, group, answer) ==
    LET tagged == {IF e.group = NoId /\ e.subGroup = NoId
                   THEN [e EXCEPT !.group = group] ELSE e : e \in answer}
    IN combined \cup
       {e \in tagged : \A seen \in combined : seen.id # e.id}

(* A page: filters that are empty let everything pass. *)
FilterEventViewData(views, groups, statuses) ==
    {v \in views : /\ groups # {} => v.group \in groups
                   /\ statuses # {} => v.status \in statuses}

(* An export of a page. *)
IncludePastEvents(views, includePast) == {v \in views : v.past => includePast}

(* Mutant: the past is looked for in all groups if it is in one. *)
FilterEventsByICalScopeAnyPast(views, scope) ==
    {v \in views : \E i \in DOMAIN scope.groups :
        LET rule == scope.groups[i] IN
        /\ v.group = rule.group
        /\ v.past => \E j \in DOMAIN scope.groups : scope.groups[j].includePast
        /\ v.status \in rule.statuses}

(* An export by access token. *)
FilterEventsByICalScope(views, scope) ==
    {v \in views : \E i \in DOMAIN scope.groups :
        LET rule == scope.groups[i] IN
        /\ v.group = rule.group
        /\ v.past => rule.includePast
        /\ v.status \in rule.statuses}

-----------------------------------------------------------------------------
(* The status that a form or a client names, by its code or its name. *)
StatusFilterKeyFromFilterValue(value) ==
    CASE value \in {"0", "accepted"} -> "accepted"
      [] value \in {"1", "declined"} -> "declined"
      [] value \in {"2", "unanswered"} -> "unanswered"
      [] value \in {"3", "other"} -> "other"
      [] OTHER -> "unsupported"

(* Values that name no status are dropped from the filter of a page ... *)
NormalizeStatusFilterValues(values) ==
    {StatusFilterKeyFromFilterValue(v) : v \in values} \cap Statuses

(* Mutant: a group may come twice. *)
ValidRequestDoubled(rules, actors) ==
    /\ rules # <<>>
    /\ actors # {}
    /\ \A i \in DOMAIN rules :
          /\ rules[i].group # NoId
          /\ rules[i].statuses # {}
          /\ \A v \in rules[i].statuses :
                StatusFilterKeyFromFilterValue(v) \in Statuses

(* ... and refused in the rules of a token, like groups that are missing,   *)
(* doubled or without a status.                                             *)
ValidRequest(rules, actors) ==
    /\ rules # <<>>
    /\ actors # {}
    /\ \A i \in DOMAIN rules :
          /\ rules[i].group # NoId
          /\ \A j \in DOMAIN rules : rules[j].group = rules[i].group => j = i
          /\ rules[i].statuses # {}
          /\ \A v \in rules[i].statuses :
                StatusFilterKeyFromFilterValue(v) \in Statuses

NormalizeCreateAccessTokenRequest(rules, actors) ==
    [actors |-> actors,
     groups |-> [i \in DOMAIN rules |->
         [rules[i] EXCEPT !.statuses = NormalizeStatusFilterValues(@)]]]
=============================================================================
