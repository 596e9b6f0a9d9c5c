-------------------------- MODULE MCSharedCalendar --------------------------
EXTENDS SharedCalendar, TLC

CONSTANTS e1, e2, g1, g2, a, b, o

(* The answers of the user's two entries and of somebody else. *)
Torn == a :> "accepted" @@ b :> "declined" @@ o :> "declined"

Declined == a :> "declined" @@ b :> "unanswered" @@ o :> "accepted"

Unanswered == b :> "unanswered" @@ o :> "accepted"

Waiting == a :> "waiting"

Event(g, shows, start, answers) ==
    [home |-> g, shows |-> shows, start |-> start, answers |-> answers]

States ==
    {Event(g1, "group", 0, Torn), Event(g1, "neither", 1, Torn),
     Event(g1, "neither", 0, Unanswered), Event(g1, "subGroup", 0, Waiting),
     Event(g2, "neither", 0, Torn), Event(g2, "subGroup", 0, Declined),
     Event(g2, "group", 1, Unanswered), Event(g2, "neither", 0, Waiting)}

Rule(g, statuses, past) == [group |-> g, statuses |-> statuses, includePast |-> past]

(* The last is refused. *)
Asked ==
    {<<Rule(g1, {"0"}, FALSE), Rule(g2, {"declined"}, TRUE)>>,
     <<Rule(g1, {"unanswered", "accepted"}, TRUE), Rule(g2, {"2", "3"}, FALSE)>>,
     <<Rule(g1, {"0"}, FALSE), Rule(g1, {"3"}, TRUE)>>}

PageQueries ==
    {[groups |-> <<>>, statuses |-> {}, includePast |-> TRUE],
     [groups |-> <<g1, g2>>, statuses |-> {"0", "9"}, includePast |-> FALSE],
     [groups |-> <<g2>>, statuses |-> {"other"}, includePast |-> TRUE]}

Symmetry == Permutations({e1, e2})
=============================================================================
