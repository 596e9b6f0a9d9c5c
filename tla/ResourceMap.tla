---------------------------- MODULE ResourceMap ----------------------------
(***************************************************************************)
(* What the CalDAV store promises its clients: a durable map from keys to  *)
(* contents.  Every request is performed once, at some moment between its  *)
(* arrival and its answer, on the map as it then is; an If-Match header is *)
(* tested in that same moment; a GET returns the content and the tag of    *)
(* that content.  A crash may keep an answer from the client, or the       *)
(* request from being performed, but takes nothing out of the map.         *)
(***************************************************************************)
CONSTANTS Keys, Contents, Absent, Reqs, Headers

VARIABLES map, answer

(* What a client asks for; a body means something to a PUT only.           *)
Requests ==
    [method : {"GET", "PUT", "DELETE"}, key : Keys, ifMatch : Headers,
     body : Contents]

Unanswered == [status |-> "none"]

Lost == [status |-> "lost"]

Answers ==
    [request : Requests, status : {"ok", "refused", "precondition failed"},
     etag : Contents \cup {Absent}, body : Contents \cup {Absent}]

MapTypeOK ==
    /\ map \in [Keys -> Contents \cup {Absent}]
    /\ answer \in [Reqs -> Answers \cup {Unanswered, Lost}]

MapInit ==
    /\ map = [k \in Keys |-> Absent]
    /\ answer = [r \in Reqs |-> Unanswered]

Matches(q) ==
    LET c == map[q.key]
    IN \/ q.ifMatch.kind = "none"
       \/ c # Absent /\ (q.ifMatch.kind = "star" \/ c \in q.ifMatch.tags)

Answered(r, q, status, etag, body) ==
    /\ answer[r] = Unanswered
    /\ answer' = [answer EXCEPT ![r] =
          [request |-> q, status |-> status, etag |-> etag, body |-> body]]

IfThere(q) == IF map[q.key] = Absent THEN "refused" ELSE "ok"

Get(r, q) ==
    /\ q.method = "GET"
    /\ Answered(r, q, IfThere(q), map[q.key], map[q.key])
    /\ map' = map

Put(r, q) ==
    /\ q.method = "PUT" /\ Matches(q)
    /\ Answered(r, q, "ok", q.body, Absent)
    /\ map' = [map EXCEPT ![q.key] = q.body]

Delete(r, q) ==
    /\ q.method = "DELETE" /\ Matches(q)
    /\ Answered(r, q, IfThere(q), Absent, Absent)
    /\ map' = [map EXCEPT ![q.key] = Absent]

Conflict(r, q) ==
    /\ q.method # "GET" /\ ~Matches(q)
    /\ Answered(r, q, "precondition failed", Absent, Absent)
    /\ map' = map

(* The process dies with the answers to L. *)
Lose(L) ==
    /\ answer' = [r \in Reqs |-> IF r \in L THEN Lost ELSE answer[r]]
    /\ map' = map

MapNext ==
    \/ \E L \in SUBSET Reqs : Lose(L)
    \/ \E r \in Reqs, q \in Requests :
          Get(r, q) \/ Put(r, q) \/ Delete(r, q) \/ Conflict(r, q)

MapSpec == MapInit /\ [][MapNext]_<<map, answer>>
=============================================================================
