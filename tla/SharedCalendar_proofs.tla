----------------------- MODULE SharedCalendar_proofs -----------------------
(***************************************************************************)
(* Proofs about what pages and exports show while Spond changes.           *)
(*                                                                         *)
(* The invariant follows an event from Spond's answer to the view: what    *)
(* was found, seen with the ids, the sub-groups' parents and the time that *)
(* the request will have when it shows it.  An event that would pass the   *)
(* scope was allowed when it was fetched, and time alone lets no further   *)
(* event pass.  While Spond is quiet, what was found is what Spond has.    *)
(***************************************************************************)
EXTENDS SharedCalendar, FiniteSetTheorems, SequenceTheorems, TLAPS

-----------------------------------------------------------------------------
(* Events as they are answered and seen, apart from the state.             *)

Mine == ByAddress \cup ByProfile

(* The ids of a session: those of the user's entries in some groups. *)
ActorsOK(ids) == \E J \in SUBSET Groups : ids = {Profile} \cup (J \X Mine)

Parents(J) == [s \in J \X {"sub"} |-> s[1]]

ResponsesOf(v) == [m \in {v.home} \X DOMAIN v.answers |-> v.answers[m[2]]]

PayloadOf(e, v) ==
    [id |-> e,
     group |-> IF v.shows = "group" THEN v.home ELSE NoId,
     subGroup |-> IF v.shows = "subGroup" THEN <<v.home, "sub">> ELSE NoId,
     start |-> v.start,
     responses |-> ResponsesOf(v)]

(* As the body of FetchEventsForGroups leaves it. *)
TaggedOf(e, v) ==
    IF PayloadOf(e, v).group = NoId /\ PayloadOf(e, v).subGroup = NoId
    THEN [PayloadOf(e, v) EXCEPT !.group = v.home] ELSE PayloadOf(e, v)

SeenAs(x, e, v) == x = PayloadOf(e, v) \/ x = TaggedOf(e, v)

Payloads == {PayloadOf(e, v) : e \in Events, v \in EventStates}
                \cup {TaggedOf(e, v) : e \in Events, v \in EventStates}

Given(v, ids) == {v.answers[p] : p \in {p \in DOMAIN v.answers : <<v.home, p>> \in ids}}

KeyOf(responses, ids) == StatusFilterKey(ResponseStatusForActors(responses, ids))

(* What SharedCalendar's HasStatus says of the answers given. *)
Means(given, status) ==
    CASE status = "accepted" -> "accepted" \in given
      [] status = "declined" -> "declined" \in given /\ "accepted" \notin given
      [] status = "unanswered" -> given = {"unanswered"}
      [] status = "other" -> /\ given # {"unanswered"}
                             /\ given \cap {"accepted", "declined"} = {}

LEMMA MinOfPlaces ==
    ASSUME NEW S \in SUBSET (1..5), S # {}
    PROVE  Min(S) \in S /\ \A i \in S : Min(S) <= i
<1>1. \E m \in S : \A i \in S : m <= i
  <2>1. CASE 1 \in S
    BY <2>1
  <2>2. CASE 1 \notin S /\ 2 \in S
    BY <2>2
  <2>3. CASE 1 \notin S /\ 2 \notin S /\ 3 \in S
    BY <2>3
  <2>4. CASE 1 \notin S /\ 2 \notin S /\ 3 \notin S /\ 4 \in S
    BY <2>4
  <2>5. CASE 1 \notin S /\ 2 \notin S /\ 3 \notin S /\ 4 \notin S
    <3>1. \A i \in S : i \in 1..5 /\ i = 5
      <4> SUFFICES ASSUME NEW i \in S PROVE i \in 1..5 /\ i = 5
        OBVIOUS
      <4>1. i \in 1..5 /\ i # 1 /\ i # 2 /\ i # 3 /\ i # 4
        BY <2>5
      <4> QED  BY <4>1
    <3>2. PICK m \in S : TRUE
      OBVIOUS
    <3>3. \A i \in S : m <= i
      BY <3>1
    <3> QED  BY <3>3
  <2> QED  BY <2>1, <2>2, <2>3, <2>4, <2>5
<1> QED  BY <1>1 DEF Min

(* The list that wins, by the answers that the user's ids have given. *)
LEMMA StatusOfAnswers ==
    ASSUME NEW v \in EventStates, NEW ids
    PROVE  LET given == Given(v, ids)
               status == ResponseStatusForActors(ResponsesOf(v), ids)
           IN /\ "accepted" \in given => status = "accepted"
              /\ "accepted" \notin given /\ "declined" \in given => status = "declined"
              /\ given = {"unanswered"} => status = "unanswered"
              /\ given = {} => status = "unknown"
              /\ given # {} /\ given # {"unanswered"} /\ given \cap {"accepted", "declined"} = {}
                    => status \in {"waiting", "unconfirmed"}
              /\ given \subseteq {"accepted", "declined", "waiting", "unconfirmed", "unanswered"}
<1> DEFINE given == Given(v, ids)
           responses == ResponsesOf(v)
           places == {i \in 1..5 : \E a \in ids \cap DOMAIN responses :
                         responses[a] = Answers[i]}
<1>1. places = {i \in 1..5 : Answers[i] \in given}
  <2>1. ASSUME NEW i \in 1..5, NEW a \in ids \cap DOMAIN responses, responses[a] = Answers[i]
        PROVE  Answers[i] \in given
    <3>1. PICK p \in DOMAIN v.answers : a = <<v.home, p>>
      BY <2>1 DEF ResponsesOf
    <3>2. responses[a] = v.answers[p]
      BY <2>1, <3>1 DEF ResponsesOf
    <3> QED  BY <2>1, <3>1, <3>2 DEF Given
  <2>2. ASSUME NEW i \in 1..5, Answers[i] \in given
        PROVE  \E a \in ids \cap DOMAIN responses : responses[a] = Answers[i]
    <3>1. PICK p \in DOMAIN v.answers : <<v.home, p>> \in ids /\ v.answers[p] = Answers[i]
      BY <2>2 DEF Given
    <3>2. <<v.home, p>> \in DOMAIN responses /\ responses[<<v.home, p>>] = v.answers[p]
      BY DEF ResponsesOf
    <3> QED  BY <3>1, <3>2
  <2> QED  BY <2>1, <2>2
<1>2. given \subseteq {"accepted", "declined", "waiting", "unconfirmed", "unanswered"}
  <2>1. \A i \in 1..5 : Answers[i] \in {"accepted", "declined", "waiting", "unconfirmed", "unanswered"}
    BY DEF Answers
  <2>2. \A p \in DOMAIN v.answers : \E i \in 1..5 : v.answers[p] = Answers[i]
    BY DataAssumption
  <2>3. SUFFICES ASSUME NEW a \in given
                 PROVE  a \in {"accepted", "declined", "waiting", "unconfirmed", "unanswered"}
    OBVIOUS
  <2>4. PICK p \in DOMAIN v.answers : a = v.answers[p]
    BY <2>3 DEF Given
  <2> QED  BY <2>1, <2>2, <2>4
<1>3. /\ Answers[1] = "accepted" /\ Answers[2] = "declined" /\ Answers[3] = "waiting"
      /\ Answers[4] = "unconfirmed" /\ Answers[5] = "unanswered"
    BY DEF Answers
<1>4. PICK status : status = ResponseStatusForActors(responses, ids)
    OBVIOUS
<1>5. status = IF places = {} THEN "unknown" ELSE Answers[Min(places)]
    BY <1>4 DEF ResponseStatusForActors
<1> HIDE DEF given, responses, places
<1>6. places # {} => Min(places) \in places /\ \A i \in places : Min(places) <= i
    BY <1>1, MinOfPlaces
<1>7. /\ 1 \in places <=> "accepted" \in given
      /\ 2 \in places <=> "declined" \in given
      /\ 3 \in places <=> "waiting" \in given
      /\ 4 \in places <=> "unconfirmed" \in given
      /\ 5 \in places <=> "unanswered" \in given
    BY <1>1, <1>3
<1>8. PICK m : m = Min(places)
    OBVIOUS
<1>9. places # {} => /\ m \in places /\ m \in 1..5 /\ status = Answers[m]
                     /\ \A i \in places : m <= i
    BY <1>1, <1>5, <1>6, <1>8
<1>10. "accepted" \in given => status = "accepted"
  <2> SUFFICES ASSUME "accepted" \in given PROVE status = "accepted"
    OBVIOUS
  <2>1. m = 1
    BY <1>7, <1>9
  <2> QED  BY <1>3, <1>7, <1>9, <2>1
<1>11. "accepted" \notin given /\ "declined" \in given => status = "declined"
  <2> SUFFICES ASSUME "accepted" \notin given, "declined" \in given PROVE status = "declined"
    OBVIOUS
  <2>1. m = 2
    BY <1>7, <1>9
  <2> QED  BY <1>3, <1>7, <1>9, <2>1
<1>12. given = {"unanswered"} => status = "unanswered"
  <2> SUFFICES ASSUME given = {"unanswered"} PROVE status = "unanswered"
    OBVIOUS
  <2>1. 5 \in places /\ 1 \notin places /\ 2 \notin places /\ 3 \notin places /\ 4 \notin places
    BY <1>7
  <2>2. m = 5
    BY <1>9, <2>1
  <2> QED  BY <1>3, <1>9, <2>1, <2>2
<1>13. given = {} => status = "unknown"
  <2> SUFFICES ASSUME given = {} PROVE status = "unknown"
    OBVIOUS
  <2>1. places = {}
    BY <1>1
  <2> QED  BY <1>5, <2>1
<1>14. given # {} /\ given # {"unanswered"} /\ given \cap {"accepted", "declined"} = {}
          => status \in {"waiting", "unconfirmed"}
  <2> SUFFICES ASSUME given # {}, given # {"unanswered"},
                      given \cap {"accepted", "declined"} = {}
               PROVE  status \in {"waiting", "unconfirmed"}
    OBVIOUS
  <2>1. 1 \notin places /\ 2 \notin places /\ (3 \in places \/ 4 \in places)
    BY <1>2, <1>7
  <2>2. m = 3 \/ m = 4
    BY <1>9, <2>1
  <2> QED  BY <1>3, <1>9, <2>1, <2>2
<1> QED  BY <1>2, <1>4, <1>10, <1>11, <1>12, <1>13, <1>14 DEF given, responses

(* An event has one status, the key of the view. *)
LEMMA StatusMeans ==
    ASSUME NEW v \in EventStates, NEW ids, NEW status \in Statuses
    PROVE  /\ KeyOf(ResponsesOf(v), ids) \in Statuses
           /\ Means(Given(v, ids), status) <=> status = KeyOf(ResponsesOf(v), ids)
           /\ Given(v, ids) = {} => KeyOf(ResponsesOf(v), ids) = "other"
<1> DEFINE given == Given(v, ids)
           key == KeyOf(ResponsesOf(v), ids)
<1>1. /\ "accepted" \in given => key = "accepted"
      /\ "accepted" \notin given /\ "declined" \in given => key = "declined"
      /\ given = {"unanswered"} => key = "unanswered"
      /\ given = {} => key = "other"
      /\ given # {} /\ given # {"unanswered"} /\ given \cap {"accepted", "declined"} = {}
            => key = "other"
    BY StatusOfAnswers DEF KeyOf, StatusFilterKey
<1> HIDE DEF given, key
<1>2. /\ key \in Statuses
      /\ Means(given, status) <=> status = key
      /\ given = {} => key = "other"
  <2>1. CASE "accepted" \in given
    <3>1. given # {} /\ given # {"unanswered"}
      BY <2>1
    <3> QED  BY <1>1, <2>1, <3>1 DEF Means, Statuses
  <2>2. CASE "accepted" \notin given /\ "declined" \in given
    <3>1. given # {} /\ given # {"unanswered"}
      BY <2>2
    <3> QED  BY <1>1, <2>2, <3>1 DEF Means, Statuses
  <2>3. CASE given = {"unanswered"}
    <3>1. given # {} /\ "accepted" \notin given /\ "declined" \notin given
      BY <2>3
    <3> QED  BY <1>1, <2>3, <3>1 DEF Means, Statuses
  <2>4. CASE given # {"unanswered"} /\ given \cap {"accepted", "declined"} = {}
    <3>1. "accepted" \notin given /\ "declined" \notin given /\ key = "other"
      BY <1>1, <2>4
    <3> QED  BY <2>4, <3>1 DEF Means, Statuses
  <2> QED  BY <2>1, <2>2, <2>3, <2>4
<1> QED  BY <1>2 DEF given, key

-----------------------------------------------------------------------------
(* What was found, as views, and what is meant.                            *)

LEMMA SeenEvent ==
    ASSUME NEW e, NEW v, NEW x, SeenAs(x, e, v)
    PROVE  /\ x.id = e /\ x.start = v.start /\ x.responses = ResponsesOf(v)
           /\ x.group \in {v.home, NoId}
           /\ x.subGroup \in {<<v.home, "sub">>, NoId}
           /\ x = TaggedOf(e, v) => x.group = v.home \/ x.subGroup = <<v.home, "sub">>
<1>1. PICK y : y = PayloadOf(e, v)
    OBVIOUS
<1>2. /\ y.id = e /\ y.start = v.start /\ y.responses = ResponsesOf(v)
      /\ y.group \in {v.home, NoId} /\ y.subGroup \in {<<v.home, "sub">>, NoId}
      /\ y.group # NoId => y.group = v.home
      /\ y.subGroup # NoId => y.subGroup = <<v.home, "sub">>
    BY <1>1 DEF PayloadOf
<1>3. CASE x = y
  <2>1. x = TaggedOf(e, v) => x.group = v.home \/ x.subGroup = <<v.home, "sub">>
    <3>1. CASE y.group = NoId /\ y.subGroup = NoId
      <4>1. TaggedOf(e, v) = [y EXCEPT !.group = v.home]
        BY <1>1, <3>1 DEF TaggedOf
      <4>2. [y EXCEPT !.group = v.home].group = v.home
        BY <1>1 DEF PayloadOf
      <4> QED  BY <4>1, <4>2
    <3>2. CASE ~(y.group = NoId /\ y.subGroup = NoId)
      BY <1>2, <1>3, <3>2
    <3> QED  BY <3>1, <3>2
  <2> QED  BY <1>2, <1>3, <2>1
<1>4. CASE x # y
  <2>1. x = [y EXCEPT !.group = v.home]
    BY <1>1, <1>4 DEF SeenAs, TaggedOf
  <2>2. /\ x.id = y.id /\ x.start = y.start /\ x.responses = y.responses
        /\ x.group = v.home /\ x.subGroup = y.subGroup
    BY <1>1, <2>1 DEF PayloadOf
  <2> QED  BY <1>2, <2>2
<1> QED  BY <1>3, <1>4

(* The group of the view is the event's home or missing. *)
LEMMA SeenGroup ==
    ASSUME NEW e, NEW v \in EventStates, NEW x, SeenAs(x, e, v), NEW J \in SUBSET Groups
    PROVE  /\ EventGroupId(x, Parents(J)) \in {v.home, NoId}
           /\ x = TaggedOf(e, v) /\ v.home \in J => EventGroupId(x, Parents(J)) = v.home
<1>1. v.home \in Groups /\ v.home # NoId /\ NoId \notin Groups \X {"sub"}
    BY DataAssumption, SharedAssumption
<1>2. DOMAIN Parents(J) = J \X {"sub"}
    BY DEF Parents
<1>3. NoId \notin J \X {"sub"}
    BY <1>1
<1>4. <<v.home, "sub">> \in J \X {"sub"} => Parents(J)[<<v.home, "sub">>] = v.home
    BY DEF Parents
<1>5. v.home \in J => <<v.home, "sub">> \in J \X {"sub"}
    OBVIOUS
<1>6. PICK parents : parents = Parents(J)
    OBVIOUS
<1>7. PICK s : s = <<v.home, "sub">>
    OBVIOUS
<1>8. /\ s \in DOMAIN parents => parents[s] = v.home
      /\ NoId \notin DOMAIN parents
      /\ v.home \in J => s \in DOMAIN parents
    BY <1>2, <1>3, <1>4, <1>5, <1>6, <1>7
<1>9. /\ x.group \in {v.home, NoId} /\ x.subGroup \in {s, NoId}
      /\ x = TaggedOf(e, v) => x.group = v.home \/ x.subGroup = s
    BY <1>7, SeenEvent
<1> QED  BY <1>1, <1>6, <1>8, <1>9 DEF EventGroupId

(* HasStatus of an event is what its answers mean. *)
LEMMA HasStatusMeans ==
    ASSUME NEW e, NEW ids, NEW status
    PROVE  HasStatus(e, ids, status) <=> Means(Given(spond[e], ids), status)
<1>1. AnsweredBy(e, ids) = Given(spond[e], ids)
    BY DEF AnsweredBy, Given
<1> QED  BY <1>1 DEF HasStatus, Means

(* The parents of the groups that the user is in. *)
LEMMA ParentsAnswered == BuildSubGroupParentById(GroupsAnswered) = Parents(joined)
<1> DEFINE groups == GroupsAnswered
           subs == UNION {g.subGroups : g \in groups}
           answered(g) == [id |-> g,
                           subGroups |-> {<<g, "sub">>},
                           members |-> {[id |-> <<g, p>>,
                                         email |-> IF p \in ByAddress THEN Email ELSE NoId,
                                         profile |-> IF p \in ByProfile THEN Profile ELSE NoId] :
                                           p \in People}]
<1>1. groups = {answered(g) : g \in joined}
    BY DEF GroupsAnswered
<1>2. \A g \in joined : answered(g).id = g /\ answered(g).subGroups = {<<g, "sub">>}
    OBVIOUS
<1> HIDE DEF groups, answered
<1>3. subs = joined \X {"sub"}
  <2>1. ASSUME NEW s \in subs PROVE s \in joined \X {"sub"}
    <3>1. PICK g \in groups : s \in g.subGroups
      BY <2>1
    <3>2. PICK h \in joined : g = answered(h)
      BY <1>1, <3>1
    <3>3. s = <<h, "sub">>
      BY <1>2, <3>1, <3>2
    <3> QED  BY <3>3
  <2>2. ASSUME NEW s \in joined \X {"sub"} PROVE s \in subs
    <3>1. PICK h \in joined : s = <<h, "sub">>
      BY <2>2
    <3>2. answered(h) \in groups /\ s \in answered(h).subGroups
      BY <1>1, <1>2, <3>1
    <3> QED  BY <3>2
  <2> QED  BY <2>1, <2>2
<1>4. ASSUME NEW s \in joined \X {"sub"}
      PROVE  (CHOOSE g \in groups : s \in g.subGroups).id = s[1]
  <2>1. PICK h \in joined : s = <<h, "sub">>
    BY <1>4
  <2>2. answered(h) \in groups /\ s \in answered(h).subGroups
    BY <1>1, <1>2, <2>1
  <2>3. PICK g : g = CHOOSE other \in groups : s \in other.subGroups
    OBVIOUS
  <2>4. g \in groups /\ s \in g.subGroups
    BY <2>2, <2>3
  <2>5. PICK k \in joined : g = answered(k)
    BY <1>1, <2>4
  <2>6. s = <<k, "sub">> /\ g.id = k
    BY <1>2, <2>4, <2>5
  <2> QED  BY <2>3, <2>6
<1>5. BuildSubGroupParentById(groups) =
         [s \in subs |-> (CHOOSE g \in groups : s \in g.subGroups).id]
    BY DEF BuildSubGroupParentById
<1> QED  BY <1>3, <1>4, <1>5 DEF Parents, groups

(* The ids that a sign-in puts into the session, whether the groups loaded  *)
(* or not.                                                                  *)
LEMMA SessionActors ==
    ASSUME joined \subseteq Groups, NEW groups \in {GroupsAnswered, {}}
    PROVE  ActorsOK(ResponseActorIds(Profile, Email, groups))
<1> DEFINE member(g, p) == [id |-> <<g, p>>,
                            email |-> IF p \in ByAddress THEN Email ELSE NoId,
                            profile |-> IF p \in ByProfile THEN Profile ELSE NoId]
           members == UNION {g.members : g \in groups}
           mine == {m \in members : m.email = Email \/ m.profile = Profile \/ m.id = Profile}
           J == IF groups = {} THEN {} ELSE joined
<1>1. members = {member(g, p) : g \in J, p \in People}
  <2>1. CASE groups = {}
    BY <2>1
  <2>2. CASE groups # {}
    <3>1. groups = GroupsAnswered
      BY <2>2
    <3>2. groups = {[id |-> g,
                     subGroups |-> {<<g, "sub">>},
                     members |-> {member(g, p) : p \in People}] : g \in J}
      BY <2>2, <3>1 DEF GroupsAnswered
    <3> HIDE DEF member, J
    <3>3. ASSUME NEW m \in members PROVE \E g \in J, p \in People : m = member(g, p)
      BY <3>2, <3>3
    <3>4. ASSUME NEW g \in J, NEW p \in People PROVE member(g, p) \in members
      <4>1. PICK h : h = [id |-> g, subGroups |-> {<<g, "sub">>},
                          members |-> {member(g, q) : q \in People}]
        OBVIOUS
      <4>2. h \in groups /\ member(g, p) \in h.members
        BY <3>2, <4>1
      <4> QED  BY <4>2
    <3> QED  BY <3>3, <3>4
  <2> QED  BY <2>1, <2>2
<1>2. J \subseteq Groups
    OBVIOUS
<1>3. ASSUME NEW g \in J, NEW p \in People
      PROVE  /\ member(g, p).id = <<g, p>>
             /\ member(g, p).email = Email \/ member(g, p).profile = Profile
                   \/ member(g, p).id = Profile <=> p \in Mine
             /\ member(g, p).profile \in {Profile, NoId}
  <2>1. Profile # NoId /\ Email # NoId /\ <<g, p>> # Profile
    BY <1>2, DataAssumption
  <2> QED  BY <2>1 DEF Mine
<1>4. Mine \subseteq People
    BY SharedAssumption DEF Mine
<1> HIDE DEF member, J, members
<1>5. {m.id : m \in mine} = J \X Mine
  <2>1. ASSUME NEW m \in mine PROVE m.id \in J \X Mine
    <3>1. PICK g \in J, p \in People : m = member(g, p)
      BY <1>1, <2>1
    <3> QED  BY <1>3, <2>1, <3>1
  <2>2. ASSUME NEW a \in J \X Mine PROVE \E m \in mine : m.id = a
    <3>1. PICK g \in J, p \in Mine : a = <<g, p>>
      BY <2>2
    <3>2. member(g, p) \in mine /\ member(g, p).id = a
      BY <1>1, <1>3, <1>4, <3>1
    <3> QED  BY <3>2
  <2> QED  BY <2>1, <2>2
<1>6. {m.profile : m \in mine} \subseteq {Profile, NoId}
    BY <1>1, <1>3
<1>7. ResponseActorIds(Profile, Email, groups) =
         {Profile} \cup {m.id : m \in mine} \cup ({m.profile : m \in mine} \ {NoId})
    BY DEF ResponseActorIds, members
<1>8. ResponseActorIds(Profile, Email, groups) = {Profile} \cup (J \X Mine)
    BY <1>5, <1>6, <1>7
<1> QED  BY <1>2, <1>8 DEF ActorsOK

(* Spond's answer is of events asked for, and of all of them unless it is  *)
(* cut off.                                                                *)
LEMMA AnsweredEvents ==
    ASSUME NEW wanted \in SUBSET Events, NEW max \in Nat, NEW answer \in EventsAnswered(wanted, max)
    PROVE  \E chosen \in SUBSET wanted :
              /\ answer = {Payload(e) : e \in chosen}
              /\ ~(Cardinality(answer) < Cardinality(wanted)) => chosen = wanted
<1>1. PICK chosen \in SUBSET wanted : answer = {Payload(e) : e \in chosen}
    BY DEF EventsAnswered, kSubset
<1>2. IsFiniteSet(wanted) /\ IsFiniteSet(chosen)
    BY FS_Subset, DataAssumption
<1>3. Cardinality(wanted) \in Nat /\ Cardinality(chosen) \in Nat
    BY <1>2, FS_CardinalityType
<1>4. Cardinality(chosen) <= Cardinality(wanted)
    BY <1>2, FS_Subset
<1> DEFINE f == [e \in chosen |-> Payload(e)]
<1>5. f \in Surjection(chosen, answer)
    BY <1>1 DEF Surjection
<1> HIDE DEF f
<1>6. IsFiniteSet(answer) /\ Cardinality(answer) <= Cardinality(chosen)
    BY <1>2, <1>5, FS_Surjection
<1>7. Cardinality(answer) \in Nat
    BY <1>6, FS_CardinalityType
<1>8. ASSUME ~(Cardinality(answer) < Cardinality(wanted)) PROVE chosen = wanted
  <2>1. Cardinality(wanted) = Cardinality(chosen)
    BY <1>3, <1>4, <1>6, <1>7, <1>8
  <2> QED  BY <1>2, <2>1, FS_Subset
<1> QED  BY <1>1, <1>8

LEMMA PayloadIs == \A e : Payload(e) = PayloadOf(e, spond[e])
BY DEF Payload, PayloadOf, ResponsesOf

(* What the merge of one more answer adds. *)
LEMMA CombineAdds ==
    ASSUME NEW combined, NEW group, NEW chosen, \A e \in chosen : spond[e].home = group
    PROVE  LET all == Combine(combined, group, {Payload(e) : e \in chosen})
           IN /\ combined \subseteq all
              /\ \A x \in all \ combined : \E e \in chosen : x = TaggedOf(e, spond[e])
              /\ \A e \in chosen : \E x \in all : x.id = e
<1> DEFINE answer == {Payload(e) : e \in chosen}
           tag(a) == IF a.group = NoId /\ a.subGroup = NoId
                     THEN [a EXCEPT !.group = group] ELSE a
           all == Combine(combined, group, answer)
<1>1. \A e \in chosen : tag(Payload(e)) = TaggedOf(e, spond[e])
    BY PayloadIs DEF TaggedOf
<1>2. \A x : x \in all <=> \/ x \in combined
                           \/ /\ \E a \in answer : x = tag(a)
                              /\ \A seen \in combined : seen.id # x.id
    BY DEF Combine
<1> HIDE DEF all, tag
<1>3. \A x \in all \ combined : \E e \in chosen : x = TaggedOf(e, spond[e])
    BY <1>1, <1>2
<1>4. ASSUME NEW e \in chosen PROVE \E x \in all : x.id = e
  <2>1. PICK x : x = TaggedOf(e, spond[e])
    OBVIOUS
  <2>2. x.id = e
    BY <2>1, SeenEvent DEF SeenAs
  <2>3. \E a \in answer : x = tag(a)
    BY <1>1, <2>1
  <2>4. CASE \E seen \in combined : seen.id = e
    BY <1>2, <2>4
  <2>5. CASE \A seen \in combined : seen.id # e
    BY <1>2, <2>2, <2>3, <2>5
  <2> QED  BY <2>4, <2>5
<1> QED  BY <1>2, <1>3, <1>4 DEF all

(* The statuses that values name. *)
LEMMA NormalizedValues ==
    ASSUME NEW values
    PROVE  /\ NormalizeStatusFilterValues(values) \subseteq Statuses
           /\ NormalizeStatusFilterValues(values) = Named(values)
<1>1. /\ Codes["accepted"] = "0" /\ Codes["declined"] = "1"
      /\ Codes["unanswered"] = "2" /\ Codes["other"] = "3"
    BY DEF Codes
<1>2. ASSUME NEW s \in Statuses, NEW v
      PROVE  StatusFilterKeyFromFilterValue(v) = s <=> v = s \/ v = Codes[s]
  <2>1. CASE s = "accepted"
    BY <1>1, <2>1 DEF StatusFilterKeyFromFilterValue
  <2>2. CASE s = "declined"
    BY <1>1, <2>2 DEF StatusFilterKeyFromFilterValue
  <2>3. CASE s = "unanswered"
    BY <1>1, <2>3 DEF StatusFilterKeyFromFilterValue
  <2>4. CASE s = "other"
    BY <1>1, <2>4 DEF StatusFilterKeyFromFilterValue
  <2> QED  BY <2>1, <2>2, <2>3, <2>4 DEF Statuses
<1>3. \A s \in Statuses : s \in {StatusFilterKeyFromFilterValue(v) : v \in values}
                              <=> values \cap {s, Codes[s]} # {}
    BY <1>2
<1> QED  BY <1>3 DEF NormalizeStatusFilterValues, Named

-----------------------------------------------------------------------------
(* The inductive invariant.                                                *)

Rules == [group : Groups, statuses : (SUBSET Statuses) \ {{}}, includePast : BOOLEAN]

ScopeOK ==
    scope # Nothing =>
        /\ ActorsOK(scope.actors)
        /\ scope.groups \in Seq(Rules)
        /\ scope.groups # <<>>
        /\ \A i, j \in DOMAIN scope.groups :
              scope.groups[i].group = scope.groups[j].group => i = j

Reader == [stage : {"groups", "events", "build", "shown"}, kind : {"page", "export"},
           query : Queries \cup {Nothing},
           actors : SUBSET ({Profile} \cup (Groups \X Mine)),
           asked : Seq(Groups), max : Nat,
           parents : {Nothing} \cup {Parents(J) : J \in SUBSET Groups},
           found : SUBSET Payloads, cut : BOOLEAN, at : Nat,
           shown : SUBSET Events, since : Nat]

Active(r) == r.stage \in {"groups", "events", "build"}

Asks(groups, g) == \E i \in DOMAIN groups : groups[i] = g

(* The groups that a request asks for, from its beginning on. *)
Original(r) ==
    IF r.kind = "export" THEN [i \in DOMAIN scope.groups |-> scope.groups[i].group]
                         ELSE r.query.groups

ReaderOK(r) ==
    /\ r \in Reader
    /\ ActorsOK(r.actors)
    /\ r.kind = "page" => r.query \in Queries
    /\ r.kind = "export" => scope # Nothing
    /\ r.since <= edits
    /\ r.stage = "groups" => r.found = {}
    /\ r.stage \in {"events", "build"} =>
          r.parents \in {Parents(J) : J \in SUBSET Groups}
    /\ r.stage \in {"groups", "events"} => (r.asked = <<>> <=> Original(r) = <<>>)
    /\ r.stage = "build" => r.asked = <<>>
    /\ \A i \in DOMAIN r.asked : Asks(Original(r), r.asked[i])

(* What FilterEventsByICalScope will let pass of what was found. *)
PassesScope(x, r, t) ==
    \E i \in DOMAIN scope.groups :
       LET rule == scope.groups[i] IN
       /\ EventGroupId(x, r.parents) = rule.group
       /\ x.start < t => rule.includePast
       /\ KeyOf(x.responses, r.actors) \in rule.statuses

AllowedOK(r) ==
    /\ Active(r) => Meant(r, r.actors, now) \subseteq allowed
    /\ Active(r) /\ r.stage # "groups" /\ r.kind = "export" =>
          \A x \in r.found : PassesScope(x, r, now) => x.id \in allowed
    /\ r.stage = "shown" /\ r.kind = "export" => r.shown \subseteq allowed

(* What was found, what is still to be found, and no other event. *)
QuietOK(r) ==
    Active(r) /\ r.since = edits =>
        /\ r.stage # "groups" => r.parents = Parents(joined)
        /\ \A x \in r.found : \E e \in Visible :
              /\ SeenAs(x, e, spond[e])
              /\ r.kind = "export" => x = TaggedOf(e, spond[e])
              /\ Original(r) # <<>> => Asks(Original(r), spond[e].home)
        /\ ~r.cut => \A e \in Visible :
              \/ \E x \in r.found : x.id = e
              \/ Asks(r.asked, spond[e].home)
              \/ Original(r) # <<>> /\ ~Asks(Original(r), spond[e].home)
              \/ Original(r) = <<>> /\ r.stage # "build"

(* ShownAsMeant and MissingIdsOnlyHide of a reader. *)
ShownOK(r) ==
    r.stage = "shown" /\ r.since = edits =>
        /\ ~r.cut /\ OwnIds \subseteq r.actors => r.shown = Meant(r, OwnIds, r.at)
        /\ r.kind = "export" =>
              \A e \in r.shown \ Meant(r, OwnIds, r.at) :
                 \E i \in DOMAIN scope.groups :
                    /\ scope.groups[i].group = spond[e].home
                    /\ "other" \in scope.groups[i].statuses

StateOK ==
    /\ now \in 0..MaxTime
    /\ spond \in [Events -> EventStates \cup {Nothing}]
    /\ joined \subseteq Groups
    /\ edits \in 0..MaxEdits
    /\ allowed \subseteq Events
    /\ session # Nothing => ActorsOK(session)
    /\ ScopeOK

ReaderInv(r) ==
    r # NoReader => ReaderOK(r) /\ AllowedOK(r) /\ QuietOK(r) /\ ShownOK(r)

Inv == StateOK /\ ReaderInv(reader)

(* Inv implies the invariants of the run. *)

LEMMA InvTypeOK == Inv => TypeOK
<1> SUFFICES ASSUME Inv PROVE TypeOK
    OBVIOUS
<1>1. \A ids : ActorsOK(ids) => Profile \in ids
    BY DEF ActorsOK
<1>2. ASSUME scope # Nothing
      PROVE  /\ Profile \in scope.actors
             /\ \A i, j \in DOMAIN scope.groups :
                   /\ scope.groups[i].statuses \in (SUBSET Statuses) \ {{}}
                   /\ scope.groups[i].group = scope.groups[j].group => i = j
  <2>1. scope.groups \in Seq(Rules)
    BY <1>2 DEF Inv, StateOK, ScopeOK
  <2>2. \A i \in DOMAIN scope.groups : scope.groups[i] \in Rules
    BY <2>1, LenProperties, ElementOfSeq
  <2> QED  BY <1>1, <1>2, <2>2 DEF Inv, StateOK, ScopeOK, Rules
<1>3. reader # NoReader => reader.shown \subseteq Events
    BY DEF Inv, ReaderInv, ReaderOK, Reader
<1> QED  BY <1>1, <1>2, <1>3 DEF Inv, StateOK, TypeOK

LEMMA InvNothingBeyondScope == Inv => NothingBeyondScope
<1> SUFFICES ASSUME Inv, reader.stage = "shown", reader.kind = "export"
             PROVE  reader.shown \subseteq allowed
    BY DEF NothingBeyondScope
<1>1. reader # NoReader
    BY DEF NoReader
<1> QED  BY <1>1 DEF Inv, ReaderInv, AllowedOK

LEMMA InvShown == Inv => ShownAsMeant /\ MissingIdsOnlyHide
<1> SUFFICES ASSUME Inv, reader.stage = "shown" PROVE ShownAsMeant /\ MissingIdsOnlyHide
    BY DEF ShownAsMeant, MissingIdsOnlyHide
<1>1. reader # NoReader
    BY DEF NoReader
<1>2. ShownOK(reader)
    BY <1>1 DEF Inv, ReaderInv
<1> QED  BY <1>2 DEF ShownOK, ShownAsMeant, MissingIdsOnlyHide

-----------------------------------------------------------------------------
(* What is meant, over time.                                               *)

(* It depends on what Spond has, and for an export on the scope. *)
LEMMA MeantStays ==
    ASSUME UNCHANGED <<spond, joined>>, NEW r, NEW ids, NEW t,
           r.kind = "export" => scope' = scope
    PROVE  Meant(r, ids, t)' = Meant(r, ids, t)
<1>1. Visible' = Visible
    BY DEF Visible
<1>2. \A e, s : HasStatus(e, ids, s)' <=> HasStatus(e, ids, s)
  <2> SUFFICES ASSUME NEW e, NEW s PROVE HasStatus(e, ids, s)' <=> HasStatus(e, ids, s)
    OBVIOUS
  <2>1. PICK given : given = AnsweredBy(e, ids)
    OBVIOUS
  <2>2. AnsweredBy(e, ids)' = given
    BY <2>1 DEF AnsweredBy
  <2>3. HasStatus(e, ids, s) <=> Means(given, s)
    BY <2>1 DEF HasStatus, Means
  <2>4. HasStatus(e, ids, s)' <=> Means(given, s)
    BY <2>2 DEF HasStatus, Means
  <2> QED  BY <2>3, <2>4
<1>3. ASSUME r.kind = "export" PROVE \A e : InScope(e, ids, t)' <=> InScope(e, ids, t)
    BY <1>2, <1>3 DEF InScope
<1>4. \A e : InQuery(e, ids, r.query, t)' <=> InQuery(e, ids, r.query, t)
    BY <1>2 DEF InQuery
<1> QED  BY <1>1, <1>3, <1>4 DEF Meant

(* As time passes, events become past, and fewer are meant. *)
LEMMA MeantShrinks ==
    ASSUME spond \in [Events -> EventStates \cup {Nothing}],
           NEW r, NEW ids, NEW t \in Int, NEW u \in Int, t <= u
    PROVE  Meant(r, ids, u) \subseteq Meant(r, ids, t)
<1> SUFFICES ASSUME NEW e \in Meant(r, ids, u) PROVE e \in Meant(r, ids, t)
    OBVIOUS
<1>1. e \in Visible
    BY DEF Meant
<1>2. spond[e].start \in Int
    BY <1>1, DataAssumption DEF Visible
<1>3. spond[e].start < t => spond[e].start < u
    BY <1>2
<1>4. InScope(e, ids, u) => InScope(e, ids, t)
    BY <1>3 DEF InScope
<1>5. InQuery(e, ids, r.query, u) => InQuery(e, ids, r.query, t)
    BY <1>3 DEF InQuery
<1> QED  BY <1>1, <1>4, <1>5 DEF Meant

LEMMA MeantEvents ==
    ASSUME NEW r, NEW ids, NEW t
    PROVE  Meant(r, ids, t) \subseteq Events
BY DEF Meant, Visible

(* A scope lets no further event pass as time passes. *)
LEMMA PassesEarlier ==
    ASSUME NEW x, x.start \in Int, NEW r, NEW t \in Int, NEW u \in Int, t <= u,
           PassesScope(x, r, u)
    PROVE  PassesScope(x, r, t)
BY DEF PassesScope

LEMMA PayloadStart ==
    ASSUME NEW x \in Payloads
    PROVE  x.start \in Int
<1>1. PICK e \in Events, v \in EventStates : SeenAs(x, e, v)
    BY DEF Payloads, SeenAs
<1> QED  BY <1>1, SeenEvent, DataAssumption

-----------------------------------------------------------------------------
(* Steps.                                                                  *)

LEMMA InitInv == Init => Inv
<1> SUFFICES ASSUME Init PROVE Inv
    OBVIOUS
<1> QED  BY SharedAssumption DEF Init, Inv, StateOK, ScopeOK, ReaderInv

(* A step that leaves Spond, the request and the scope of an export alone. *)
LEMMA Frame ==
    ASSUME Inv, StateOK', now <= now', UNCHANGED <<spond, joined, edits, reader, allowed>>,
           scope' = scope \/ scope = Nothing
    PROVE  Inv'
<1> SUFFICES ASSUME reader # NoReader
             PROVE  ReaderOK(reader)' /\ AllowedOK(reader)' /\ QuietOK(reader)' /\ ShownOK(reader)'
    BY DEF Inv, ReaderInv
<1>1. PICK r : r = reader
    OBVIOUS
<1>2. ReaderOK(r) /\ AllowedOK(r) /\ QuietOK(r) /\ ShownOK(r)
    BY <1>1 DEF Inv, ReaderInv
<1>3. r.kind = "export" => scope' = scope
    BY <1>2 DEF ReaderOK
<1>4. Original(r)' = Original(r)
    BY <1>3 DEF Original
<1>5. ReaderOK(r)'
  <2>1. r.kind = "export" => scope' # Nothing
    BY <1>2, <1>3 DEF ReaderOK
  <2> QED  BY <1>2, <1>4, <2>1 DEF ReaderOK
<1>6. now \in Int /\ now' \in Int
    BY SharedAssumption DEF Inv, StateOK
<1>7. AllowedOK(r)'
  <2>1. Active(r) => Meant(r, r.actors, now') \subseteq allowed
    <3>1. Meant(r, r.actors, now') \subseteq Meant(r, r.actors, now)
      BY <1>6, MeantShrinks DEF Inv, StateOK
    <3> QED  BY <1>2, <3>1 DEF AllowedOK
  <2>2. PICK t : t = now'
    OBVIOUS
  <2>3. Meant(r, r.actors, t)' = Meant(r, r.actors, t)
    BY <1>3, MeantStays
  <2>4. Meant(r, r.actors, now)' = Meant(r, r.actors, now')
    BY <2>2, <2>3 DEF Meant
  <2>5. ASSUME r.kind = "export", NEW x \in r.found, PassesScope(x, r, now)'
        PROVE  PassesScope(x, r, now)
    <3>1. x.start \in Int
      BY <1>2, PayloadStart DEF ReaderOK, Reader
    <3>2. PassesScope(x, r, now')
      BY <1>3, <2>5 DEF PassesScope
    <3> QED  BY <1>6, <3>1, <3>2, PassesEarlier
  <2> QED  BY <1>2, <2>1, <2>4, <2>5 DEF AllowedOK, Active
<1>8. QuietOK(r)'
  <2>1. Visible' = Visible
    BY DEF Visible
  <2> QED  BY <1>2, <1>4, <2>1 DEF QuietOK, Active
<1>9. ShownOK(r)'
  <2>1. OwnIds' = OwnIds
    BY DEF OwnIds
  <2>2. PICK own : own = OwnIds
    OBVIOUS
  <2>3. Meant(r, own, r.at)' = Meant(r, own, r.at)
    BY <1>3, MeantStays
  <2>4. Meant(r, OwnIds, r.at)' = Meant(r, OwnIds, r.at)
    BY <2>1, <2>2, <2>3
  <2> QED  BY <1>2, <1>3, <2>1, <2>4 DEF ShownOK
<1> QED  BY <1>1, <1>5, <1>7, <1>8, <1>9

LEMMA TickInv ==
    ASSUME Inv, Tick
    PROVE  Inv'
<1>1. now' \in 0..MaxTime /\ now <= now'
    BY SharedAssumption DEF Inv, StateOK, Tick
<1>2. UNCHANGED <<spond, joined, edits, session, scope, reader, allowed>>
    BY DEF Tick
<1>3. StateOK'
    BY <1>1, <1>2 DEF Inv, StateOK, ScopeOK
<1> QED  BY <1>1, <1>2, <1>3, Frame

LEMMA SignInInv ==
    ASSUME Inv, SignIn
    PROVE  Inv'
<1>1. UNCHANGED <<now, spond, joined, edits, scope, reader, allowed>> /\ now <= now'
    BY SharedAssumption DEF SignIn, Inv, StateOK
<1>2. PICK groups \in {GroupsAnswered, {}} : session' = ResponseActorIds(Profile, Email, groups)
    BY DEF SignIn
<1>3. ActorsOK(session')
    BY <1>2, SessionActors DEF Inv, StateOK
<1>4. ScopeOK'
    BY <1>1 DEF Inv, StateOK, ScopeOK
<1>5. StateOK'
    BY <1>1, <1>3, <1>4 DEF Inv, StateOK, ActorsOK
<1> QED  BY <1>1, <1>5, Frame

(* A request that is valid makes a scope that is in order. *)
LEMMA ValidScope ==
    ASSUME NEW rules \in Requests, NEW ids, ValidRequest(rules, ids),
           NEW made, made = NormalizeCreateAccessTokenRequest(rules, ids)
    PROVE  /\ made.actors = ids
           /\ made.groups \in Seq(Rules)
           /\ made.groups # <<>>
           /\ \A i, j \in DOMAIN made.groups : made.groups[i].group = made.groups[j].group => i = j
<1> DEFINE Asked == [group : Groups \cup {NoId}, statuses : SUBSET STRING, includePast : BOOLEAN]
           rule(i) == [rules[i] EXCEPT !.statuses = NormalizeStatusFilterValues(@)]
<1>1. rules \in Seq(Asked)
    BY DataAssumption
<1>2. PICK n \in Nat : n = Len(rules) /\ DOMAIN rules = 1..n
    BY <1>1, LenProperties
<1>3. made.actors = ids /\ made.groups = [i \in 1..n |-> rule(i)]
    BY <1>2 DEF NormalizeCreateAccessTokenRequest
<1>4. ASSUME NEW i \in 1..n
      PROVE  rule(i) \in Rules /\ rule(i).group = rules[i].group
  <2>1. PICK asked : asked = rules[i]
    OBVIOUS
  <2>2. asked \in Asked
    BY <1>1, <1>2, <2>1, ElementOfSeq
  <2>3. PICK named : named = NormalizeStatusFilterValues(asked.statuses)
    OBVIOUS
  <2>4. rule(i) = [asked EXCEPT !.statuses = named]
    BY <2>1, <2>2, <2>3
  <2>5. named \subseteq Statuses
    BY <2>3, NormalizedValues
  <2>6. named # {}
    <3>1. asked.statuses # {} /\ \A v \in asked.statuses : StatusFilterKeyFromFilterValue(v) \in Statuses
      BY <1>2, <2>1 DEF ValidRequest
    <3> QED  BY <2>3, <3>1 DEF NormalizeStatusFilterValues
  <2>7. asked.group \in Groups
    BY <1>2, <2>1, <2>2 DEF ValidRequest
  <2> HIDE DEF rule
  <2> QED  BY <2>1, <2>2, <2>4, <2>5, <2>6, <2>7 DEF Rules
<1> HIDE DEF rule
<1>5. \A i \in 1..n : rule(i) \in Rules
    BY <1>4
<1>6. made.groups \in Seq(Rules)
    BY <1>2, <1>3, <1>5, IsASeq
<1>7. DOMAIN made.groups = 1..n /\ \A i \in 1..n : made.groups[i].group = rules[i].group
    BY <1>3, <1>4
<1>8. \A i, j \in 1..n : rules[i].group = rules[j].group => i = j
    BY <1>2 DEF ValidRequest
<1>9. made.groups # <<>>
  <2>1. n # 0
    BY <1>1, <1>2, EmptySeq DEF ValidRequest
  <2>2. 1 \in DOMAIN made.groups
    BY <1>2, <1>7, <2>1
  <2> QED  BY <2>2
<1> QED  BY <1>3, <1>6, <1>7, <1>8, <1>9

LEMMA CreateTokenInv ==
    ASSUME Inv, CreateToken
    PROVE  Inv'
<1>1. /\ UNCHANGED <<now, spond, joined, edits, session, reader, allowed>> /\ now <= now'
      /\ scope = Nothing /\ session # Nothing
    BY SharedAssumption DEF CreateToken, Inv, StateOK
<1>2. PICK rules \in Requests :
         /\ ValidRequest(rules, session)
         /\ scope' = NormalizeCreateAccessTokenRequest(rules, session)
    BY DEF CreateToken
<1>3. PICK made : made = scope'
    OBVIOUS
<1>4. /\ made.actors = session /\ made.groups \in Seq(Rules) /\ made.groups # <<>>
      /\ \A i, j \in DOMAIN made.groups : made.groups[i].group = made.groups[j].group => i = j
    BY <1>2, <1>3, ValidScope
<1>5. ActorsOK(session)
    BY <1>1 DEF Inv, StateOK
<1>6. ScopeOK'
    BY <1>3, <1>4, <1>5 DEF ScopeOK
<1>7. StateOK'
    BY <1>1, <1>6 DEF Inv, StateOK
<1> QED  BY <1>1, <1>7, Frame

LEMMA SpondChangesInv ==
    ASSUME Inv, SpondChanges
    PROVE  Inv'
<1>1. /\ UNCHANGED <<now, session, scope, reader>>
      /\ edits' = edits + 1 /\ edits \in Nat /\ edits' \in 0..MaxEdits
    BY SharedAssumption DEF SpondChanges, Inv, StateOK
<1>2. allowed \subseteq allowed'
      /\ (Active(reader) => Meant(reader, reader.actors, now)' \subseteq allowed')
    BY DEF SpondChanges, Active
<1>3. spond' \in [Events -> EventStates \cup {Nothing}] /\ joined' \subseteq Groups
    BY DEF SpondChanges, Inv, StateOK
<1>4. allowed' \subseteq Events
  <2>1. Meant(reader, reader.actors, now)' \subseteq Events
    BY DEF Meant, Visible
  <2> QED  BY <2>1 DEF SpondChanges, Inv, StateOK
<1>5. StateOK'
    BY <1>1, <1>3, <1>4 DEF Inv, StateOK, ScopeOK
<1> SUFFICES ASSUME reader # NoReader
             PROVE  ReaderOK(reader)' /\ AllowedOK(reader)' /\ QuietOK(reader)' /\ ShownOK(reader)'
    BY <1>1, <1>5 DEF Inv, ReaderInv
<1>6. ReaderOK(reader) /\ AllowedOK(reader)
    BY DEF Inv, ReaderInv
<1>7. reader.since \in Nat /\ reader.since <= edits
    BY <1>6 DEF ReaderOK, Reader
<1>8. ReaderOK(reader)'
  <2>1. PICK r : r = reader
    OBVIOUS
  <2>2. Original(r)' = Original(r)
    BY <1>1 DEF Original
  <2>3. ReaderOK(r)'
    BY <1>1, <1>6, <1>7, <2>1, <2>2 DEF ReaderOK
  <2> QED  BY <1>1, <2>1, <2>3
<1>9. AllowedOK(reader)'
  <2>1. \A x : PassesScope(x, reader, now)' <=> PassesScope(x, reader, now)
    BY <1>1 DEF PassesScope
  <2> QED  BY <1>1, <1>2, <1>6, <2>1 DEF AllowedOK, Active
<1>10. reader'.since # edits'
    BY <1>1, <1>7
<1> QED  BY <1>8, <1>9, <1>10 DEF QuietOK, ShownOK

(* A step of the request alone: what holds of it afterwards can be said of *)
(* the state before.                                                       *)
LEMMA Moves ==
    ASSUME Inv, NEW r, reader' = r, ReaderInv(r),
           UNCHANGED <<now, spond, joined, edits, scope, allowed>>,
           session' = session \/ session' = Nothing
    PROVE  Inv'
<1>1. StateOK'
    BY DEF Inv, StateOK, ScopeOK
<1>2. Visible' = Visible /\ OwnIds' = OwnIds /\ Original(r)' = Original(r)
    BY DEF Visible, OwnIds, Original
<1>3. \A ids, t : Meant(r, ids, t)' = Meant(r, ids, t)
  <2> SUFFICES ASSUME NEW ids, NEW t PROVE Meant(r, ids, t)' = Meant(r, ids, t)
    OBVIOUS
  <2> QED  BY MeantStays
<1>4. Meant(r, r.actors, now)' = Meant(r, r.actors, now)
      /\ Meant(r, OwnIds, r.at)' = Meant(r, OwnIds, r.at)
  <2>1. PICK t, own : t = now /\ own = OwnIds
    OBVIOUS
  <2>2. Meant(r, r.actors, t)' = Meant(r, r.actors, t) /\ Meant(r, own, r.at)' = Meant(r, own, r.at)
    BY <1>3
  <2>3. Meant(r, r.actors, now)' = Meant(r, r.actors, t)'
    BY <2>1 DEF Meant
  <2>4. Meant(r, OwnIds, r.at)' = Meant(r, own, r.at)'
    BY <1>2, <2>1 DEF Meant
  <2> QED  BY <2>1, <2>2, <2>3, <2>4
<1>5. \A x : PassesScope(x, r, now)' <=> PassesScope(x, r, now)
    BY DEF PassesScope
<1>6. ASSUME r # NoReader PROVE ReaderOK(r)' /\ AllowedOK(r)' /\ QuietOK(r)' /\ ShownOK(r)'
  <2>1. ReaderOK(r) /\ AllowedOK(r) /\ QuietOK(r) /\ ShownOK(r)
    BY <1>6 DEF ReaderInv
  <2>2. ReaderOK(r)'
    BY <1>2, <2>1 DEF ReaderOK
  <2>3. AllowedOK(r)'
    BY <1>4, <1>5, <2>1 DEF AllowedOK, Active
  <2>4. QuietOK(r)'
    BY <1>2, <2>1 DEF QuietOK, Active
  <2>5. ShownOK(r)'
    BY <1>2, <1>4, <2>1 DEF ShownOK
  <2> QED  BY <2>2, <2>3, <2>4, <2>5
<1>7. ReaderInv(r)'
    BY <1>6 DEF ReaderInv
<1> QED  BY <1>1, <1>7 DEF Inv

LEMMA ReaderFailsInv ==
    ASSUME Inv, ReaderFails
    PROVE  Inv'
<1>1. reader' = NoReader /\ UNCHANGED <<now, spond, joined, edits, scope, allowed>>
      /\ (session' = session \/ session' = Nothing)
    BY DEF ReaderFails
<1>2. ReaderInv(NoReader)
    BY DEF ReaderInv
<1> QED  BY <1>1, <1>2, Moves

(* A request begins. *)
LEMMA OpenInv ==
    ASSUME Inv, NEW q, Open(q), UNCHANGED scope,
           q.kind \in {"page", "export"}, q.query \in Queries \cup {Nothing}, ActorsOK(q.actors),
           q.asked \in Seq(Groups), q.max \in Nat,
           q.kind = "page" => q.query \in Queries /\ q.asked = q.query.groups,
           q.kind = "export" => /\ scope # Nothing
                                /\ q.asked = [i \in DOMAIN scope.groups |-> scope.groups[i].group]
    PROVE  Inv'
<1>1. PICK r : r = [stage |-> "groups", kind |-> q.kind, query |-> q.query,
                    actors |-> q.actors, asked |-> q.asked, max |-> q.max,
                    parents |-> Nothing, found |-> {}, cut |-> FALSE, at |-> now,
                    shown |-> {}, since |-> edits]
    OBVIOUS
<1>2. /\ reader' = r /\ allowed' = Meant(q, q.actors, now)
      /\ UNCHANGED <<now, spond, joined, edits, session>>
    BY <1>1 DEF Open
<1>3. /\ r.stage = "groups" /\ r.kind = q.kind /\ r.query = q.query /\ r.actors = q.actors
      /\ r.asked = q.asked /\ r.found = {} /\ r.since = edits /\ r.cut = FALSE
    BY <1>1
<1>4. now \in Nat /\ edits \in Nat
    BY SharedAssumption DEF Inv, StateOK
<1>5. q.actors \subseteq {Profile} \cup (Groups \X Mine)
    BY DEF ActorsOK
<1>6. r \in Reader
    BY <1>1, <1>4, <1>5 DEF Reader
<1>7. Original(r)' = r.asked
    BY <1>3 DEF Original
<1>8. ReaderOK(r)'
  <2>1. PICK original : original = Original(r)'
    OBVIOUS
  <2>2. \A i \in DOMAIN r.asked : Asks(original, r.asked[i])
    BY <1>7, <2>1 DEF Asks
  <2>3. (\A i \in DOMAIN r.asked : Asks(Original(r), r.asked[i]))'
    BY <2>1, <2>2 DEF Asks
  <2> QED  BY <1>2, <1>3, <1>4, <1>6, <1>7, <2>3 DEF ReaderOK
<1>9. \A ids, t : Meant(q, ids, t) = Meant(r, ids, t)
    BY <1>3 DEF Meant
<1>10. AllowedOK(r)'
  <2>1. PICK ids, t : ids = q.actors /\ t = now
    OBVIOUS
  <2>2. Meant(r, ids, t)' = Meant(r, ids, t)
    BY <1>2, MeantStays
  <2>3. Meant(r, r.actors, now)' = Meant(r, ids, t)'
    BY <1>2, <1>3, <2>1
  <2>4. allowed' = Meant(r, ids, t)
    BY <1>2, <1>9, <2>1
  <2> QED  BY <1>3, <2>2, <2>3, <2>4 DEF AllowedOK
<1>11. QuietOK(r)'
    BY <1>3, <1>7 DEF QuietOK, Asks
<1>12. ShownOK(r)'
    BY <1>3 DEF ShownOK
<1>13. allowed' \subseteq Events
    BY <1>2, MeantEvents
<1>14. StateOK'
    BY <1>2, <1>13 DEF Inv, StateOK, ScopeOK
<1>15. ReaderInv(r)'
    BY <1>8, <1>10, <1>11, <1>12 DEF ReaderInv
<1> QED  BY <1>2, <1>14, <1>15 DEF Inv

LEMMA OpenPageInv ==
    ASSUME Inv, OpenPage
    PROVE  Inv'
<1>1. PICK query \in Queries :
         Open([kind |-> "page", query |-> query, actors |-> session,
               asked |-> query.groups, max |-> PageMax])
    BY DEF OpenPage
<1>2. PICK q : q = [kind |-> "page", query |-> query, actors |-> session,
                    asked |-> query.groups, max |-> PageMax]
    OBVIOUS
<1>3. ActorsOK(session) /\ query.groups \in Seq(Groups) /\ PageMax \in Nat
    BY DataAssumption, SharedAssumption DEF OpenPage, Inv, StateOK
<1>4. Open(q) /\ UNCHANGED scope
    BY <1>1, <1>2 DEF Open
<1> QED  BY <1>2, <1>3, <1>4, OpenInv

LEMMA OpenExportInv ==
    ASSUME Inv, OpenExport
    PROVE  Inv'
<1>1. PICK asked : asked = [i \in DOMAIN scope.groups |-> scope.groups[i].group]
    OBVIOUS
<1>2. PICK q : q = [kind |-> "export", query |-> Nothing, actors |-> scope.actors,
                    asked |-> asked, max |-> ExportMax]
    OBVIOUS
<1>3. Open(q) /\ UNCHANGED scope /\ scope # Nothing
    BY <1>1, <1>2 DEF OpenExport, Open
<1>4. ActorsOK(scope.actors) /\ scope.groups \in Seq(Rules) /\ ExportMax \in Nat
    BY <1>3, SharedAssumption DEF Inv, StateOK, ScopeOK
<1>5. asked \in Seq(Groups)
  <2>1. PICK n \in Nat : DOMAIN scope.groups = 1..n /\ n = Len(scope.groups)
    BY <1>4, LenProperties
  <2>2. \A i \in 1..n : scope.groups[i] \in Rules
    BY <1>4, <2>1, ElementOfSeq
  <2>3. \A i \in 1..n : scope.groups[i].group \in Groups
    BY <2>2 DEF Rules
  <2> QED  BY <1>1, <2>1, <2>3, IsASeq
<1> QED  BY <1>1, <1>2, <1>3, <1>4, <1>5, OpenInv

LEMMA LoadGroupsInv ==
    ASSUME Inv, LoadGroups
    PROVE  Inv'
<1>1. PICK b : b = reader
    OBVIOUS
<1>2. b # NoReader /\ b.stage = "groups"
    BY <1>1 DEF LoadGroups, NoReader
<1>3. ReaderOK(b) /\ AllowedOK(b) /\ QuietOK(b)
    BY <1>1, <1>2 DEF Inv, ReaderInv
<1>4. PICK p : p = Parents(joined)
    OBVIOUS
<1>5. PICK r : r = [b EXCEPT !.stage = "events", !.parents = p]
    OBVIOUS
<1>6. reader' = r /\ UNCHANGED <<now, spond, joined, edits, session, scope, allowed>>
    BY <1>1, <1>4, <1>5, ParentsAnswered DEF LoadGroups
<1>7. p \in {Parents(J) : J \in SUBSET Groups}
    BY <1>4 DEF Inv, StateOK
<1>8. b \in Reader
    BY <1>3 DEF ReaderOK
<1>9. r \in Reader
    BY <1>5, <1>7, <1>8 DEF Reader
<1>10. /\ r.stage = "events" /\ r.kind = b.kind /\ r.query = b.query /\ r.actors = b.actors
       /\ r.asked = b.asked /\ r.parents = p /\ r.found = b.found /\ r.since = b.since
       /\ r.cut = b.cut
    BY <1>5, <1>8 DEF Reader
<1>11. Original(r) = Original(b) /\ \A ids, t : Meant(r, ids, t) = Meant(b, ids, t)
    BY <1>10 DEF Original, Meant
<1>12. r.found = {}
    BY <1>2, <1>3, <1>10 DEF ReaderOK
<1>13. ReaderOK(r)
    BY <1>2, <1>3, <1>7, <1>9, <1>10, <1>11 DEF ReaderOK
<1>14. AllowedOK(r)
    BY <1>2, <1>3, <1>10, <1>11, <1>12 DEF AllowedOK, Active
<1>15. QuietOK(r)
    BY <1>2, <1>3, <1>4, <1>10, <1>11, <1>12 DEF QuietOK, Active
<1>16. ShownOK(r)
    BY <1>10 DEF ShownOK
<1>17. ReaderInv(r)
    BY <1>13, <1>14, <1>15, <1>16 DEF ReaderInv
<1> QED  BY <1>6, <1>17, Moves

-----------------------------------------------------------------------------
(* Events that are fetched.                                                *)

(* A view passes the scope only if the event is in scope by the ids, and   *)
(* does if the event was tagged and its group is known.                    *)
LEMMA ScopeFound ==
    ASSUME StateOK, scope # Nothing, NEW e \in Visible, NEW x, SeenAs(x, e, spond[e]),
           NEW r, NEW J \in SUBSET Groups, r.parents = Parents(J), NEW t
    PROVE  /\ PassesScope(x, r, t) => InScope(e, r.actors, t)
           /\ x = TaggedOf(e, spond[e]) /\ spond[e].home \in J /\ InScope(e, r.actors, t)
                 => PassesScope(x, r, t)
<1>1. PICK v \in EventStates : v = spond[e]
    BY DEF Visible, StateOK
<1>2. PICK ids : ids = r.actors
    OBVIOUS
<1>3. PICK key : key = KeyOf(ResponsesOf(v), ids)
    OBVIOUS
<1>4. x.start = v.start /\ KeyOf(x.responses, r.actors) = key
    BY <1>1, <1>2, <1>3, SeenEvent
<1>5. PICK g : g = EventGroupId(x, r.parents)
    OBVIOUS
<1>6. g \in {v.home, NoId} /\ (x = TaggedOf(e, spond[e]) /\ v.home \in J => g = v.home)
  <2>1. SeenAs(x, e, v)
    BY <1>1
  <2>2. /\ EventGroupId(x, Parents(J)) \in {v.home, NoId}
        /\ x = TaggedOf(e, v) /\ v.home \in J => EventGroupId(x, Parents(J)) = v.home
    BY <2>1, SeenGroup
  <2> QED  BY <1>1, <1>5, <2>2
<1>7. \A i \in DOMAIN scope.groups : scope.groups[i] \in Rules
    BY LenProperties, ElementOfSeq DEF StateOK, ScopeOK
<1>8. ASSUME NEW status \in Statuses
      PROVE  HasStatus(e, ids, status) <=> status = key
    BY <1>1, <1>3, HasStatusMeans, StatusMeans
<1>9. key \in Statuses
  <2>1. "other" \in Statuses
    BY DEF Statuses
  <2> QED  BY <1>1, <1>3, <2>1, StatusMeans
<1>10. PassesScope(x, r, t) <=>
          \E i \in DOMAIN scope.groups : /\ g = scope.groups[i].group
                                         /\ v.start < t => scope.groups[i].includePast
                                         /\ key \in scope.groups[i].statuses
    BY <1>4, <1>5 DEF PassesScope
<1>11. InScope(e, r.actors, t) <=>
          \E i \in DOMAIN scope.groups : /\ v.home = scope.groups[i].group
                                         /\ v.start < t => scope.groups[i].includePast
                                         /\ key \in scope.groups[i].statuses
  <2>1. ASSUME NEW i \in DOMAIN scope.groups
        PROVE  (\E s \in scope.groups[i].statuses : HasStatus(e, ids, s))
                  <=> key \in scope.groups[i].statuses
    <3>1. scope.groups[i].statuses \subseteq Statuses
      BY <1>7 DEF Rules
    <3> QED  BY <1>8, <1>9, <3>1
  <2> QED  BY <1>1, <1>2, <2>1 DEF InScope
<1>12. \A i \in DOMAIN scope.groups : scope.groups[i].group # NoId
    BY <1>7, SharedAssumption DEF Rules
<1> QED  BY <1>1, <1>6, <1>10, <1>11, <1>12

LEMMA FoundIsPayload ==
    ASSUME StateOK, NEW e \in Visible
    PROVE  /\ PayloadOf(e, spond[e]) \in Payloads /\ TaggedOf(e, spond[e]) \in Payloads
           /\ e \in Events /\ spond[e] \in EventStates
BY DEF Payloads, Visible, StateOK

(* FetchEvents is for a page whose filters name no group. *)
LEMMA FetchEventsInv ==
    ASSUME Inv, FetchEvents
    PROVE  Inv'
<1>1. PICK b : b = reader
    OBVIOUS
<1>2. b # NoReader /\ b.stage = "events" /\ b.asked = <<>>
    BY <1>1 DEF FetchEvents, NoReader
<1>3. ReaderOK(b) /\ AllowedOK(b) /\ QuietOK(b)
    BY <1>1, <1>2 DEF Inv, ReaderInv
<1>4. b \in Reader
    BY <1>3 DEF ReaderOK
<1>5. b.max \in Nat /\ Visible \subseteq Events
    BY <1>4 DEF Reader, Visible
<1>6. PICK answer \in EventsAnswered(Visible, b.max) :
         reader' = [b EXCEPT !.stage = "build", !.found = answer,
                             !.cut = Cardinality(answer) < Cardinality(Visible)]
    BY <1>1 DEF FetchEvents
<1>7. PICK chosen \in SUBSET Visible :
         /\ answer = {Payload(e) : e \in chosen}
         /\ ~(Cardinality(answer) < Cardinality(Visible)) => chosen = Visible
    BY <1>5, AnsweredEvents
<1>8. PICK cut \in BOOLEAN : cut <=> Cardinality(answer) < Cardinality(Visible)
    OBVIOUS
<1>9. PICK r : r = [b EXCEPT !.stage = "build", !.found = answer, !.cut = cut]
    OBVIOUS
<1>10. reader' = r /\ UNCHANGED <<now, spond, joined, edits, session, scope, allowed>>
  <2>1. cut = (Cardinality(answer) < Cardinality(Visible))
    BY <1>8
  <2> QED  BY <1>6, <1>9, <2>1 DEF FetchEvents
<1>11. \A x \in answer : \E e \in chosen : x = PayloadOf(e, spond[e])
    BY <1>7, PayloadIs
<1>12. answer \subseteq Payloads
    BY <1>11, FoundIsPayload DEF Inv
<1>13. r \in Reader
    BY <1>4, <1>9, <1>12 DEF Reader
<1>14. /\ r.stage = "build" /\ r.kind = b.kind /\ r.query = b.query /\ r.actors = b.actors
       /\ r.asked = <<>> /\ r.parents = b.parents /\ r.found = answer /\ r.since = b.since
       /\ r.cut = cut
    BY <1>2, <1>4, <1>9 DEF Reader
<1>15. Original(r) = Original(b) /\ \A ids, t : Meant(r, ids, t) = Meant(b, ids, t)
    BY <1>14 DEF Original, Meant
<1>16. Original(b) = <<>>
    BY <1>2, <1>3 DEF ReaderOK
<1>17. r.kind # "export"
  <2> SUFFICES ASSUME r.kind = "export" PROVE FALSE
    OBVIOUS
  <2>1. scope # Nothing /\ scope.groups \in Seq(Rules) /\ scope.groups # <<>>
    BY <1>3, <1>14 DEF ReaderOK, Inv, StateOK, ScopeOK
  <2>2. PICK n \in Nat : n = Len(scope.groups) /\ DOMAIN scope.groups = 1..n
    BY <2>1, LenProperties
  <2>3. n # 0
    BY <2>1, <2>2, EmptySeq
  <2>4. 1 \in DOMAIN Original(b)
    BY <1>14, <2>2, <2>3 DEF Original
  <2> QED  BY <1>16, <2>4
<1>18. ReaderOK(r)
    BY <1>2, <1>3, <1>13, <1>14, <1>15 DEF ReaderOK
<1>19. AllowedOK(r)
    BY <1>2, <1>3, <1>14, <1>15, <1>17 DEF AllowedOK, Active
<1>20. QuietOK(r)
  <2>1. \A x \in r.found : \E e \in Visible : SeenAs(x, e, spond[e])
    BY <1>11, <1>14 DEF SeenAs
  <2>2. ASSUME ~r.cut, NEW e \in Visible PROVE \E x \in r.found : x.id = e
    <3>1. PICK x : x = PayloadOf(e, spond[e])
      OBVIOUS
    <3>2. x.id = e
      BY <3>1 DEF PayloadOf
    <3>3. x \in r.found
      BY <1>7, <1>8, <1>14, <2>2, <3>1, PayloadIs
    <3> QED  BY <3>2, <3>3
  <2>3. r.since = edits => r.parents = Parents(joined)
    BY <1>2, <1>3, <1>14 DEF QuietOK, Active
  <2> QED  BY <1>14, <1>15, <1>16, <1>17, <2>1, <2>2, <2>3 DEF QuietOK, Active
<1>21. ShownOK(r)
    BY <1>14 DEF ShownOK
<1>22. ReaderInv(r)
    BY <1>18, <1>19, <1>20, <1>21 DEF ReaderInv
<1> QED  BY <1>10, <1>22, Moves

LEMMA AsksTail ==
    ASSUME NEW asked \in Seq(Groups), asked # <<>>
    PROVE  /\ Head(asked) \in Groups /\ Tail(asked) \in Seq(Groups)
           /\ Len(asked) = 1 => Tail(asked) = <<>>
           /\ Len(asked) # 1 => Tail(asked) # <<>>
           /\ \A i \in DOMAIN Tail(asked) : \E j \in DOMAIN asked : Tail(asked)[i] = asked[j]
           /\ 1 \in DOMAIN asked /\ asked[1] = Head(asked)
           /\ \A g : Asks(asked, g) => Head(asked) = g \/ Asks(Tail(asked), g)
<1>1. PICK n \in Nat : n = Len(asked) /\ DOMAIN asked = 1..n
    BY LenProperties
<1>2. n # 0
    BY <1>1, EmptySeq
<1>3. PICK tail : tail = Tail(asked)
    OBVIOUS
<1>4. /\ tail \in Seq(Groups) /\ Len(tail) = n - 1 /\ DOMAIN tail = 1..(n - 1)
      /\ \A i \in 1..(n - 1) : tail[i] = asked[i + 1]
    BY <1>1, <1>2, <1>3
<1>5. asked[1] = Head(asked) /\ 1 \in DOMAIN asked /\ Head(asked) \in Groups
    BY <1>1, <1>2
<1>6. ASSUME NEW g, Asks(asked, g) PROVE Head(asked) = g \/ Asks(tail, g)
  <2>1. PICK i \in 1..n : asked[i] = g
    BY <1>1, <1>6 DEF Asks
  <2>2. CASE i = 1
    BY <1>5, <2>1, <2>2
  <2>3. CASE i # 1
    <3>1. i - 1 \in DOMAIN tail /\ tail[i - 1] = g
      BY <1>4, <2>1, <2>3
    <3> QED  BY <3>1 DEF Asks
  <2> QED  BY <2>2, <2>3
<1>7. \A i \in DOMAIN tail : \E j \in DOMAIN asked : tail[i] = asked[j]
  <2> SUFFICES ASSUME NEW i \in DOMAIN tail PROVE \E j \in DOMAIN asked : tail[i] = asked[j]
    OBVIOUS
  <2>1. i + 1 \in DOMAIN asked /\ tail[i] = asked[i + 1]
    BY <1>1, <1>4
  <2> QED  BY <2>1
<1>8. (n = 1 => tail = <<>>) /\ (n # 1 => tail # <<>>)
    BY <1>4, EmptySeq
<1> QED  BY <1>1, <1>3, <1>4, <1>5, <1>6, <1>7, <1>8

(* The group of every event wanted is the one asked for. *)
LEMMA FetchEventsForGroupInv ==
    ASSUME Inv, FetchEventsForGroup
    PROVE  Inv'
<1>1. PICK b : b = reader
    OBVIOUS
<1>2. b # NoReader /\ b.stage = "events" /\ b.asked # <<>>
    BY <1>1 DEF FetchEventsForGroup, NoReader
<1>3. ReaderOK(b) /\ AllowedOK(b) /\ QuietOK(b) /\ StateOK
    BY <1>1, <1>2 DEF Inv, ReaderInv
<1>4. b \in Reader /\ b.max \in Nat /\ b.asked \in Seq(Groups)
    BY <1>3 DEF ReaderOK, Reader
<1>5. PICK group, wanted : group = Head(b.asked) /\ wanted = {e \in Visible : spond[e].home = group}
    OBVIOUS
<1>6. PICK answer \in EventsAnswered(wanted, b.max) :
         reader' = [b EXCEPT
             !.stage = IF Len(b.asked) = 1 THEN "build" ELSE "events",
             !.asked = Tail(@),
             !.found = Combine(@, group, answer),
             !.cut = @ \/ Cardinality(answer) < Cardinality(wanted)]
  <2>1. \E answer \in EventsAnswered({e \in Visible : spond[e].home = Head(reader.asked)}, reader.max) :
           reader' = [reader EXCEPT
             !.stage = IF Len(reader.asked) = 1 THEN "build" ELSE "events",
             !.asked = Tail(@),
             !.found = Combine(@, Head(reader.asked), answer),
             !.cut = @ \/ Cardinality(answer)
                            < Cardinality({e \in Visible : spond[e].home = Head(reader.asked)})]
    BY DEF FetchEventsForGroup
  <2>2. wanted = {e \in Visible : spond[e].home = Head(reader.asked)}
    BY <1>1, <1>5
  <2> QED  BY <1>1, <1>5, <2>1, <2>2
<1>7. wanted \in SUBSET Visible /\ wanted \in SUBSET Events
    BY <1>5 DEF Visible
<1>8. PICK chosen \in SUBSET wanted :
         /\ answer = {Payload(e) : e \in chosen}
         /\ ~(Cardinality(answer) < Cardinality(wanted)) => chosen = wanted
    BY <1>4, <1>7, AnsweredEvents
<1>9. PICK cut \in BOOLEAN : cut <=> (b.cut \/ Cardinality(answer) < Cardinality(wanted))
    OBVIOUS
<1>10. PICK stage, asked, found :
          /\ stage = (IF Len(b.asked) = 1 THEN "build" ELSE "events")
          /\ asked = Tail(b.asked)
          /\ found = Combine(b.found, group, answer)
    OBVIOUS
<1>11. PICK r : r = [b EXCEPT !.stage = stage, !.asked = asked, !.found = found, !.cut = cut]
    OBVIOUS
<1>12. reader' = r /\ UNCHANGED <<now, spond, joined, edits, session, scope, allowed>>
  <2>1. cut = (b.cut \/ Cardinality(answer) < Cardinality(wanted))
    BY <1>4, <1>9 DEF Reader
  <2>2. reader' = r
    BY <1>4, <1>6, <1>10, <1>11, <2>1 DEF Reader
  <2> QED  BY <2>2 DEF FetchEventsForGroup
<1>13. /\ group \in Groups /\ asked \in Seq(Groups)
       /\ stage = "build" => asked = <<>>
       /\ stage = "events" => asked # <<>>
       /\ stage \in {"events", "build"}
       /\ \A i \in DOMAIN asked : \E j \in DOMAIN b.asked : asked[i] = b.asked[j]
       /\ 1 \in DOMAIN b.asked /\ b.asked[1] = group
       /\ \A g : Asks(b.asked, g) => group = g \/ Asks(asked, g)
    BY <1>2, <1>4, <1>5, <1>10, AsksTail
<1>14. /\ b.found \subseteq found
       /\ \A x \in found \ b.found : \E e \in chosen : x = TaggedOf(e, spond[e])
       /\ \A e \in chosen : \E x \in found : x.id = e
  <2>1. \A e \in chosen : spond[e].home = group
    BY <1>5
  <2> QED  BY <1>8, <1>10, <2>1, CombineAdds
<1>15. found \subseteq Payloads
    BY <1>3, <1>4, <1>7, <1>14, FoundIsPayload DEF Reader
<1>16. r \in Reader
    BY <1>4, <1>11, <1>13, <1>15 DEF Reader
<1>17. /\ r.stage = stage /\ r.kind = b.kind /\ r.query = b.query /\ r.actors = b.actors
       /\ r.asked = asked /\ r.parents = b.parents /\ r.found = found /\ r.since = b.since
       /\ r.cut = cut
    BY <1>4, <1>11 DEF Reader
<1>18. Original(r) = Original(b) /\ \A ids, t : Meant(r, ids, t) = Meant(b, ids, t)
    BY <1>17 DEF Original, Meant
<1>19. Original(b) # <<>> /\ \A i \in DOMAIN b.asked : Asks(Original(b), b.asked[i])
    BY <1>2, <1>3 DEF ReaderOK
<1>20. \A i \in DOMAIN asked : Asks(Original(b), asked[i])
    BY <1>13, <1>19
<1>21. ReaderOK(r)
    BY <1>2, <1>3, <1>13, <1>16, <1>17, <1>18, <1>19, <1>20 DEF ReaderOK
<1>22. PICK J \in SUBSET Groups : r.parents = Parents(J)
    BY <1>2, <1>3, <1>17 DEF ReaderOK
<1>23. AllowedOK(r)
  <2>1. Meant(r, r.actors, now) \subseteq allowed
    BY <1>2, <1>3, <1>17, <1>18 DEF AllowedOK, Active
  <2>2. ASSUME r.kind = "export", NEW x \in r.found, PassesScope(x, r, now)
        PROVE  x.id \in allowed
    <3>1. CASE x \in b.found
      <4>1. PassesScope(x, b, now)
        BY <1>17, <2>2 DEF PassesScope
      <4> QED  BY <1>2, <1>3, <1>17, <2>2, <3>1, <4>1 DEF AllowedOK, Active
    <3>2. CASE x \notin b.found
      <4>1. PICK e \in chosen : x = TaggedOf(e, spond[e])
        BY <1>14, <1>17, <2>2, <3>2
      <4>2. SeenAs(x, e, spond[e]) /\ e \in Visible
        BY <1>7, <4>1 DEF SeenAs
      <4>3. scope # Nothing
        BY <1>21, <2>2 DEF ReaderOK
      <4>4. InScope(e, r.actors, now)
        BY <1>3, <1>22, <2>2, <4>2, <4>3, ScopeFound
      <4>5. e \in Meant(r, r.actors, now)
        BY <2>2, <4>2, <4>4 DEF Meant
      <4>6. x.id = e
        BY <4>2, SeenEvent
      <4> QED  BY <2>1, <4>5, <4>6
    <3> QED  BY <3>1, <3>2
  <2>3. stage # "shown"
    BY <1>13
  <2> QED  BY <1>17, <2>1, <2>2, <2>3 DEF AllowedOK
<1>24. QuietOK(r)
  <2> SUFFICES ASSUME r.since = edits
               PROVE  /\ r.parents = Parents(joined)
                      /\ \A x \in r.found : \E e \in Visible :
                            /\ SeenAs(x, e, spond[e])
                            /\ r.kind = "export" => x = TaggedOf(e, spond[e])
                            /\ Asks(Original(r), spond[e].home)
                      /\ ~r.cut => \A e \in Visible :
                            \/ \E x \in r.found : x.id = e
                            \/ Asks(r.asked, spond[e].home)
                            \/ ~Asks(Original(r), spond[e].home)
    BY <1>18, <1>19 DEF QuietOK
  <2>1. r.parents = Parents(joined)
    BY <1>2, <1>3, <1>17 DEF QuietOK, Active
  <2>2. ASSUME NEW x \in r.found
        PROVE  \E e \in Visible : /\ SeenAs(x, e, spond[e])
                                  /\ r.kind = "export" => x = TaggedOf(e, spond[e])
                                  /\ Asks(Original(r), spond[e].home)
    <3>1. CASE x \in b.found
      BY <1>2, <1>3, <1>17, <1>18, <1>19, <3>1 DEF QuietOK, Active
    <3>2. CASE x \notin b.found
      <4>1. PICK e \in chosen : x = TaggedOf(e, spond[e])
        BY <1>14, <1>17, <2>2, <3>2
      <4>2. SeenAs(x, e, spond[e]) /\ e \in Visible /\ spond[e].home = group
        BY <1>5, <1>7, <4>1 DEF SeenAs
      <4>3. Asks(Original(r), group)
        BY <1>13, <1>18, <1>19
      <4> QED  BY <4>1, <4>2, <4>3
    <3> QED  BY <3>1, <3>2
  <2>3. ASSUME ~r.cut, NEW e \in Visible
        PROVE  \/ \E x \in r.found : x.id = e
               \/ Asks(r.asked, spond[e].home)
               \/ ~Asks(Original(r), spond[e].home)
    <3>1. ~b.cut /\ chosen = wanted
      BY <1>8, <1>9, <1>17, <2>3
    <3>2. \/ \E x \in b.found : x.id = e
          \/ Asks(b.asked, spond[e].home)
          \/ ~Asks(Original(b), spond[e].home)
      BY <1>2, <1>3, <1>17, <1>19, <3>1 DEF QuietOK, Active
    <3>3. CASE spond[e].home = group
      <4>1. e \in chosen
        BY <1>5, <3>1, <3>3
      <4> QED  BY <1>14, <1>17, <4>1
    <3>4. CASE spond[e].home # group
      BY <1>13, <1>14, <1>17, <1>18, <3>2, <3>4
    <3> QED  BY <3>3, <3>4
  <2> QED  BY <2>1, <2>2, <2>3
<1>25. ShownOK(r)
    BY <1>13, <1>17 DEF ShownOK
<1>26. ReaderInv(r)
    BY <1>21, <1>23, <1>24, <1>25 DEF ReaderInv
<1> QED  BY <1>12, <1>26, Moves

-----------------------------------------------------------------------------
(* What is shown.                                                          *)

Views(r) == BuildEventViewData(r.found, r.actors, r.parents, now)

ShownViews(r) ==
    IF r.kind = "export" THEN FilterEventsByICalScope(Views(r), scope)
    ELSE IncludePastEvents(
            FilterEventViewData(Views(r), {}, NormalizeStatusFilterValues(r.query.statuses)),
            r.query.includePast)

ShownOf(r) == {v.event : v \in ShownViews(r)}

PassesQuery(x, r, t) ==
    /\ Named(r.query.statuses) # {} => KeyOf(x.responses, r.actors) \in Named(r.query.statuses)
    /\ x.start < t => r.query.includePast

Passes(x, r, t) ==
    IF r.kind = "export" THEN PassesScope(x, r, t) ELSE PassesQuery(x, r, t)

(* The filters of views, said of what was found. *)
LEMMA ShownPasses ==
    ASSUME NEW r
    PROVE  ShownOf(r) = {x.id : x \in {y \in r.found : Passes(y, r, now)}}
<1> DEFINE view(x) == [event |-> x.id, group |-> EventGroupId(x, r.parents),
                       status |-> KeyOf(x.responses, r.actors), past |-> x.start < now]
<1>1. \A x \in r.found : /\ view(x).event = x.id
                         /\ view(x).group = EventGroupId(x, r.parents)
                         /\ view(x).status = KeyOf(x.responses, r.actors)
                         /\ view(x).past <=> x.start < now
    OBVIOUS
<1>2. Views(r) = {view(x) : x \in r.found}
    BY DEF Views, BuildEventViewData, KeyOf
<1>3. NormalizeStatusFilterValues(r.query.statuses) = Named(r.query.statuses)
    BY NormalizedValues
<1> HIDE DEF view
<1>4. \A x \in r.found : view(x) \in ShownViews(r) <=> Passes(x, r, now)
  <2> SUFFICES ASSUME NEW x \in r.found PROVE view(x) \in ShownViews(r) <=> Passes(x, r, now)
    OBVIOUS
  <2>1. view(x) \in Views(r)
    BY <1>2
  <2>2. CASE r.kind = "export"
    BY <1>1, <2>1, <2>2 DEF ShownViews, FilterEventsByICalScope, Passes, PassesScope
  <2>3. CASE r.kind # "export"
    BY <1>1, <1>3, <2>1, <2>3
       DEF ShownViews, IncludePastEvents, FilterEventViewData, Passes, PassesQuery
  <2> QED  BY <2>2, <2>3
<1>5. ShownViews(r) \subseteq Views(r)
    BY DEF ShownViews, FilterEventsByICalScope, IncludePastEvents, FilterEventViewData
<1>6. ASSUME NEW e \in ShownOf(r)
      PROVE  e \in {x.id : x \in {y \in r.found : Passes(y, r, now)}}
  <2>1. PICK v \in ShownViews(r) : e = v.event
    BY <1>6 DEF ShownOf
  <2>2. PICK x \in r.found : v = view(x)
    BY <1>2, <1>5, <2>1
  <2> QED  BY <1>1, <1>4, <2>1, <2>2
<1>7. ASSUME NEW x \in r.found, Passes(x, r, now) PROVE x.id \in ShownOf(r)
  <2>1. view(x) \in ShownViews(r) /\ view(x).event = x.id
    BY <1>1, <1>4, <1>7
  <2> QED  BY <2>1 DEF ShownOf
<1> QED  BY <1>6, <1>7

(* The answers that count are those by the user's entry in the event's     *)
(* home, if the ids know that group.                                       *)
LEMMA GivenByUser ==
    ASSUME StateOK, NEW ids, ActorsOK(ids), NEW e \in Visible
    PROVE  /\ Given(spond[e], ids) \in {{}, Given(spond[e], OwnIds)}
           /\ OwnIds \subseteq ids => Given(spond[e], ids) = Given(spond[e], OwnIds)
<1>1. PICK v \in EventStates : v = spond[e]
    BY DEF Visible, StateOK
<1>2. v.home \in joined /\ v.home \in Groups /\ DOMAIN v.answers \subseteq People
    BY <1>1, DataAssumption DEF Visible, StateOK
<1>3. PICK J \in SUBSET Groups : ids = {Profile} \cup (J \X Mine)
    BY DEF ActorsOK
<1>4. PICK own : own = OwnIds
    OBVIOUS
<1>5. own = joined \X Mine
    BY <1>4 DEF OwnIds, Mine
<1>6. \A p \in DOMAIN v.answers : /\ <<v.home, p>> \in own <=> p \in Mine
                                  /\ <<v.home, p>> \in ids <=> v.home \in J /\ p \in Mine
  <2> SUFFICES ASSUME NEW p \in DOMAIN v.answers
               PROVE  /\ <<v.home, p>> \in own <=> p \in Mine
                      /\ <<v.home, p>> \in ids <=> v.home \in J /\ p \in Mine
    OBVIOUS
  <2>1. <<v.home, p>> # Profile
    BY <1>2, DataAssumption
  <2> QED  BY <1>2, <1>3, <1>5, <2>1
<1>7. CASE v.home \in J
  <2>1. Given(v, ids) = Given(v, own)
    BY <1>6, <1>7 DEF Given
  <2> QED  BY <1>1, <1>4, <2>1
<1>8. CASE v.home \notin J
  <2>1. Given(v, ids) = {}
    BY <1>6, <1>8 DEF Given
  <2>2. own \subseteq ids => Given(v, own) = {}
    BY <1>6, <1>8 DEF Given
  <2> QED  BY <1>1, <1>4, <2>1, <2>2
<1> QED  BY <1>7, <1>8

(* The same answers, the same statuses. *)
LEMMA MeantByAnswers ==
    ASSUME NEW e, NEW ids, NEW own, Given(spond[e], ids) = Given(spond[e], own), NEW t, NEW query
    PROVE  /\ InScope(e, ids, t) <=> InScope(e, own, t)
           /\ InQuery(e, ids, query, t) <=> InQuery(e, own, query, t)
<1>1. \A s : HasStatus(e, ids, s) <=> HasStatus(e, own, s)
    BY HasStatusMeans
<1> QED  BY <1>1 DEF InScope, InQuery

(* A page shows an event of the groups asked for if it is meant. *)
LEMMA QueryFound ==
    ASSUME StateOK, NEW e \in Visible, NEW x, SeenAs(x, e, spond[e]), NEW r, NEW t,
           r.query.groups # <<>> => Asks(r.query.groups, spond[e].home)
    PROVE  PassesQuery(x, r, t) <=> InQuery(e, r.actors, r.query, t)
<1>1. PICK v \in EventStates : v = spond[e]
    BY DEF Visible, StateOK
<1>2. PICK ids : ids = r.actors
    OBVIOUS
<1>3. PICK key : key = KeyOf(ResponsesOf(v), ids)
    OBVIOUS
<1>4. x.start = v.start /\ KeyOf(x.responses, r.actors) = key
    BY <1>1, <1>2, <1>3, SeenEvent
<1>5. \A s \in Statuses : HasStatus(e, ids, s) <=> s = key
    BY <1>1, <1>3, HasStatusMeans, StatusMeans
<1>6. PICK named : named = Named(r.query.statuses)
    OBVIOUS
<1>7. named \subseteq Statuses
    BY <1>6 DEF Named
<1>8. (\E s \in named : HasStatus(e, ids, s)) <=> key \in named
    BY <1>5, <1>7
<1>9. PassesQuery(x, r, t) <=> /\ named # {} => key \in named
                               /\ v.start < t => r.query.includePast
    BY <1>4, <1>6 DEF PassesQuery
<1>10. InQuery(e, ids, r.query, t) <=> /\ named # {} => \E s \in named : HasStatus(e, ids, s)
                                       /\ v.start < t => r.query.includePast
    BY <1>1, <1>6 DEF InQuery, Asks
<1> QED  BY <1>2, <1>8, <1>9, <1>10

(* While Spond is quiet, what is shown is meant by the ids that the request *)
(* has, and nothing meant is missing unless an answer was cut off.          *)
LEMMA ShownIsMeant ==
    ASSUME StateOK, NEW r, ReaderOK(r), QuietOK(r), r.stage = "build", r.since = edits
    PROVE  /\ ShownOf(r) \subseteq Meant(r, r.actors, now)
           /\ ~r.cut => ShownOf(r) = Meant(r, r.actors, now)
<1>1. ShownOf(r) = {x.id : x \in {y \in r.found : Passes(y, r, now)}}
    BY ShownPasses
<1>2. /\ r.parents = Parents(joined) /\ r.asked = <<>>
      /\ \A x \in r.found : \E e \in Visible :
            /\ SeenAs(x, e, spond[e])
            /\ r.kind = "export" => x = TaggedOf(e, spond[e])
            /\ Original(r) # <<>> => Asks(Original(r), spond[e].home)
      /\ ~r.cut => \A e \in Visible :
            \/ \E x \in r.found : x.id = e
            \/ Asks(r.asked, spond[e].home)
            \/ Original(r) # <<>> /\ ~Asks(Original(r), spond[e].home)
    BY DEF ReaderOK, QuietOK, Active
<1>3. joined \in SUBSET Groups
    BY DEF StateOK
<1>4. ASSUME NEW x \in r.found
      PROVE  /\ x.id \in Visible
             /\ Passes(x, r, now) <=> x.id \in Meant(r, r.actors, now)
  <2>1. PICK e \in Visible :
            /\ SeenAs(x, e, spond[e])
            /\ r.kind = "export" => x = TaggedOf(e, spond[e])
            /\ Original(r) # <<>> => Asks(Original(r), spond[e].home)
    BY <1>2
  <2>2. x.id = e
    BY <2>1, SeenEvent
  <2>3. PICK t : t = now
    OBVIOUS
  <2>4. CASE r.kind = "export"
    <3>1. scope # Nothing /\ spond[e].home \in joined /\ x = TaggedOf(e, spond[e])
      BY <2>1, <2>4 DEF ReaderOK, Visible
    <3>2. PassesScope(x, r, t) <=> InScope(e, r.actors, t)
      BY <1>2, <1>3, <2>1, <3>1, ScopeFound
    <3> QED  BY <2>2, <2>3, <2>4, <3>2 DEF Passes, Meant
  <2>5. CASE r.kind # "export"
    <3>1. r.query.groups # <<>> => Asks(r.query.groups, spond[e].home)
      BY <2>1, <2>5 DEF Original
    <3>2. PassesQuery(x, r, t) <=> InQuery(e, r.actors, r.query, t)
      BY <2>1, <3>1, QueryFound
    <3> QED  BY <2>2, <2>3, <2>5, <3>2 DEF Passes, Meant
  <2> QED  BY <2>2, <2>4, <2>5
<1>5. ShownOf(r) \subseteq Meant(r, r.actors, now)
    BY <1>1, <1>4
<1>6. ASSUME ~r.cut, NEW e \in Meant(r, r.actors, now) PROVE e \in ShownOf(r)
  <2>1. e \in Visible
    BY <1>6 DEF Meant
  <2>2. Original(r) # <<>> => Asks(Original(r), spond[e].home)
    <3>1. CASE r.kind = "export"
      <4>1. PICK i \in DOMAIN scope.groups : spond[e].home = scope.groups[i].group
        BY <1>6, <3>1 DEF Meant, InScope
      <4>2. i \in DOMAIN Original(r) /\ Original(r)[i] = spond[e].home
        BY <3>1, <4>1 DEF Original
      <4> QED  BY <4>2 DEF Asks
    <3>2. CASE r.kind # "export"
      BY <1>6, <3>2 DEF Meant, InQuery, Asks, Original
    <3> QED  BY <3>1, <3>2
  <2>3. ~Asks(r.asked, spond[e].home)
    BY <1>2 DEF Asks
  <2>4. PICK x \in r.found : x.id = e
    BY <1>2, <1>6, <2>1, <2>2, <2>3
  <2>5. Passes(x, r, now)
    BY <1>4, <1>6, <2>4
  <2> QED  BY <1>1, <2>4, <2>5
<1> QED  BY <1>5, <1>6

LEMMA ShowInv ==
    ASSUME Inv, Show
    PROVE  Inv'
<1>1. PICK b : b = reader
    OBVIOUS
<1>2. b # NoReader /\ b.stage = "build"
    BY <1>1 DEF Show, NoReader
<1>3. ReaderOK(b) /\ AllowedOK(b) /\ QuietOK(b) /\ StateOK
    BY <1>1, <1>2 DEF Inv, ReaderInv
<1>4. b \in Reader
    BY <1>3 DEF ReaderOK
<1>5. PICK shown : shown = ShownOf(b)
    OBVIOUS
<1>6. PICK t : t = now
    OBVIOUS
<1>7. PICK r : r = [b EXCEPT !.stage = "shown", !.at = t, !.found = {}, !.shown = shown]
    OBVIOUS
<1>8. reader' = r
  <2>1. reader' = [reader EXCEPT !.stage = "shown", !.at = now, !.found = {},
                                 !.shown = ShownOf(reader)]
    BY DEF Show, ShownOf, ShownViews, Views
  <2> QED  BY <1>1, <1>5, <1>6, <1>7, <2>1
<1>9. UNCHANGED <<now, spond, joined, edits, session, scope, allowed>>
    BY DEF Show
<1>10. shown = {x.id : x \in {y \in b.found : Passes(y, b, now)}}
    BY <1>5, ShownPasses
<1>11. shown \subseteq Events
  <2>1. ASSUME NEW x \in Payloads PROVE x.id \in Events
    <3>1. PICK e \in Events, v \in EventStates : SeenAs(x, e, v)
      BY DEF Payloads, SeenAs
    <3> QED  BY <3>1, SeenEvent
  <2>2. b.found \subseteq Payloads
    BY <1>4 DEF Reader
  <2> QED  BY <1>10, <2>1, <2>2
<1>12. now \in Nat
    BY <1>3, SharedAssumption DEF StateOK
<1>13. r \in Reader
    BY <1>4, <1>6, <1>7, <1>11, <1>12 DEF Reader
<1>14. /\ r.stage = "shown" /\ r.kind = b.kind /\ r.query = b.query /\ r.actors = b.actors
       /\ r.asked = b.asked /\ r.parents = b.parents /\ r.found = {} /\ r.since = b.since
       /\ r.cut = b.cut /\ r.at = now /\ r.shown = shown
    BY <1>4, <1>6, <1>7 DEF Reader
<1>15. Original(r) = Original(b) /\ \A ids, u : Meant(r, ids, u) = Meant(b, ids, u)
    BY <1>14 DEF Original, Meant
<1>16. ReaderOK(r)
    BY <1>3, <1>13, <1>14, <1>15 DEF ReaderOK
<1>17. AllowedOK(r)
  <2>1. r.kind = "export" => shown \subseteq allowed
    BY <1>2, <1>3, <1>10, <1>14 DEF AllowedOK, Active, Passes
  <2> QED  BY <1>14, <2>1 DEF AllowedOK, Active
<1>18. QuietOK(r)
    BY <1>14 DEF QuietOK, Active
<1>19. ShownOK(r)
  <2> SUFFICES ASSUME r.since = edits
               PROVE  /\ ~r.cut /\ OwnIds \subseteq r.actors => shown = Meant(b, OwnIds, now)
                      /\ r.kind = "export" =>
                            \A e \in shown \ Meant(b, OwnIds, now) :
                               \E i \in DOMAIN scope.groups :
                                  /\ scope.groups[i].group = spond[e].home
                                  /\ "other" \in scope.groups[i].statuses
    BY <1>14, <1>15 DEF ShownOK
  <2>1. PICK own : own = OwnIds
    OBVIOUS
  <2>2. /\ shown \subseteq Meant(b, b.actors, t)
        /\ ~b.cut => shown = Meant(b, b.actors, t)
    BY <1>2, <1>3, <1>5, <1>6, <1>14, ShownIsMeant
  <2>3. ActorsOK(b.actors)
    BY <1>3 DEF ReaderOK
  <2>4. ASSUME NEW e \in Visible, Given(spond[e], b.actors) = Given(spond[e], own)
        PROVE  e \in Meant(b, b.actors, t) <=> e \in Meant(b, own, t)
    BY <2>4, MeantByAnswers DEF Meant
  <2>5. own \subseteq r.actors => Meant(b, b.actors, t) = Meant(b, own, t)
    <3> SUFFICES ASSUME own \subseteq b.actors PROVE Meant(b, b.actors, t) = Meant(b, own, t)
      BY <1>14
    <3>1. \A e \in Visible : Given(spond[e], b.actors) = Given(spond[e], own)
      BY <1>3, <2>1, <2>3, GivenByUser
    <3>2. Meant(b, b.actors, t) \subseteq Visible /\ Meant(b, own, t) \subseteq Visible
      BY DEF Meant
    <3> QED  BY <2>4, <3>1, <3>2
  <2>6. ASSUME r.kind = "export", NEW e \in shown \ Meant(b, own, t)
        PROVE  \E i \in DOMAIN scope.groups : /\ scope.groups[i].group = spond[e].home
                                              /\ "other" \in scope.groups[i].statuses
    <3>1. e \in Visible /\ e \in Meant(b, b.actors, t)
      BY <2>2, <2>6 DEF Meant
    <3>2. Given(spond[e], b.actors) # Given(spond[e], own)
      BY <2>4, <2>6, <3>1
    <3>3. Given(spond[e], b.actors) = {}
      BY <1>3, <2>1, <2>3, <3>1, <3>2, GivenByUser
    <3>4. InScope(e, b.actors, t)
      BY <1>14, <2>6, <3>1 DEF Meant
    <3>5. PICK i \in DOMAIN scope.groups :
             /\ spond[e].home = scope.groups[i].group
             /\ \E s \in scope.groups[i].statuses : HasStatus(e, b.actors, s)
      BY <3>4 DEF InScope
    <3>6. PICK s \in scope.groups[i].statuses : HasStatus(e, b.actors, s)
      BY <3>5
    <3>7. scope # Nothing
      BY <1>16, <2>6 DEF ReaderOK
    <3>8. s \in Statuses
      <4>1. scope.groups[i] \in Rules
        BY <1>3, <3>7, LenProperties, ElementOfSeq DEF StateOK, ScopeOK
      <4> QED  BY <3>6, <4>1 DEF Rules
    <3>9. Means({}, s)
      BY <3>3, <3>6, HasStatusMeans
    <3>10. s = "other"
      BY <3>8, <3>9 DEF Means, Statuses
    <3> QED  BY <3>5, <3>6, <3>10
  <2>7. OwnIds \subseteq r.actors <=> own \subseteq r.actors
    BY <2>1
  <2>8. Meant(b, OwnIds, now) = Meant(b, own, t)
    BY <1>6, <2>1
  <2> QED  BY <1>14, <2>2, <2>5, <2>6, <2>7, <2>8
<1>20. ReaderInv(r)
    BY <1>16, <1>17, <1>18, <1>19 DEF ReaderInv
<1> QED  BY <1>8, <1>9, <1>20, Moves

-----------------------------------------------------------------------------

LEMMA NextInv == Inv /\ [Next]_vars => Inv'
<1> SUFFICES ASSUME Inv, [Next]_vars PROVE Inv'
    OBVIOUS
<1>1. CASE SignIn
    BY <1>1, SignInInv
<1>2. CASE CreateToken
    BY <1>2, CreateTokenInv
<1>3. CASE OpenPage
    BY <1>3, OpenPageInv
<1>4. CASE OpenExport
    BY <1>4, OpenExportInv
<1>5. CASE LoadGroups
    BY <1>5, LoadGroupsInv
<1>6. CASE FetchEvents
    BY <1>6, FetchEventsInv
<1>7. CASE FetchEventsForGroup
    BY <1>7, FetchEventsForGroupInv
<1>8. CASE Show
    BY <1>8, ShowInv
<1>9. CASE ReaderFails
    BY <1>9, ReaderFailsInv
<1>10. CASE SpondChanges
    BY <1>10, SpondChangesInv
<1>11. CASE Tick
    BY <1>11, TickInv
<1>12. CASE UNCHANGED vars
  <2>1. UNCHANGED <<now, spond, joined, edits, session, scope, reader, allowed>>
    BY <1>12 DEF vars
  <2>2. StateOK' /\ now <= now'
    BY <2>1, SharedAssumption DEF Inv, StateOK, ScopeOK
  <2> QED  BY <2>1, <2>2, Frame
<1> QED  BY <1>1, <1>2, <1>3, <1>4, <1>5, <1>6, <1>7, <1>8, <1>9, <1>10, <1>11, <1>12 DEF Next

LEMMA Safe == Spec => []Inv
<1>1. Init => Inv
    BY InitInv
<1>2. Inv /\ [Next]_vars => Inv'
    BY NextInv
<1> QED  BY <1>1, <1>2, PTL DEF Spec

(* Every session has the profile's id, every token a scope in order: rules *)
(* of groups that differ, with statuses that are known, and not none       *)
(* (normalizeCreateAccessTokenRequest).                                    *)
THEOREM CalendarTypes == Spec => []TypeOK
<1>1. Inv => TypeOK
    BY InvTypeOK
<1> QED  BY <1>1, Safe, PTL

(* No export shows an event that its token's scope did not allow at some   *)
(* time since the export began, however many groups, events and members    *)
(* there are and however Spond changes between the calls.                  *)
THEOREM ExportsStayInScope == Spec => []NothingBeyondScope
<1>1. Inv => NothingBeyondScope
    BY InvNothingBeyondScope
<1> QED  BY <1>1, Safe, PTL

(* While Spond is quiet, a page or an export that no limit cuts off, and   *)
(* that knows the user's ids, shows the events that are meant, neither     *)
(* more nor less (BuildEventViewData, FilterEventsByICalScope).            *)
THEOREM AllThatIsMeantIsShown == Spec => []ShownAsMeant
<1>1. Inv => ShownAsMeant
    BY InvShown
<1> QED  BY <1>1, Safe, PTL

(* Whatever ids a session or token lacks, an export shows an event that is *)
(* not meant only as "other" (responseStatusForActors).                    *)
THEOREM LackingIdsOnlyHide == Spec => []MissingIdsOnlyHide
<1>1. Inv => MissingIdsOnlyHide
    BY InvShown
<1> QED  BY <1>1, Safe, PTL
=============================================================================
