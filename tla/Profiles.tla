------------------------------- MODULE Profiles -------------------------------
(***************************************************************************)
(* profile-management-service: the profile of each person and the          *)
(* relationship edges between persons, which routes write, and the events  *)
(* that tell the family event store of every change.                       *)
(*                                                                         *)
(* A request reads the persons of the family and the row it changes,       *)
(* commits, reads the row again (db.refresh) and publishes what it read.   *)
(* Requests run in threads and overlap; there are no row locks. An UPDATE  *)
(* names the columns that changed and fails when the row is gone.          *)
(*                                                                         *)
(* Abstractions: the three sections of a profile are one value, replaced   *)
(* as a whole; status, notes and metadata of an edge are left out; the     *)
(* family is one; feature switches and access checks let requests through. *)
(***************************************************************************)
EXTENDS FiniteSets

CONSTANTS
  Persons, Contents, \* what a profile may say
  Edges,             \* ids of relationship edges
  Types, MutualTypes,\* relationship types
  Sessions,          \* requests that may be in progress at once
  NULL

\* Profiles and edges are rows of two tables.
ProfilesAssumption == MutualTypes \subseteq Types /\ Persons \cap Edges = {}

VARIABLES
  active,   \* persons whose status is "active" in the decision system
  row,      \* subject (a person or an edge id) -> NULL or its row
  told,     \* subject -> what the last published event said of it, or NULL
  session,  \* per request NULL or what it is doing
  doubtful  \* subjects whose last change was overlapped or not published (history)

vars == <<active, row, told, session, doubtful>>

Subjects == Persons \cup Edges
Edge     == [source : Persons, target : Persons, type : Types, mutual : BOOLEAN]

---------------------------------------------------------------------------
(* A request: begin, commit, refresh, publish                              *)

On(x) == {s \in Sessions : session[s] # NULL /\ session[s].subject = x}

\* A request begins to change the row of x from what it reads to next (NULL: delete).
Begin(s, x, next) ==
  /\ session[s] = NULL
  /\ session' = [t \in Sessions |->
       IF t = s THEN [pc |-> "open", subject |-> x, was |-> row[x], next |-> next,
                      alone |-> On(x) = {}]
       ELSE IF t \in On(x) THEN [session[t] EXCEPT !.alone = FALSE] ELSE session[t]]
  /\ UNCHANGED <<active, row, told, doubtful>>

\* create_or_update_profile_record
PutProfile(s) ==
  \E p \in active, c \in Contents : Begin(s, p, c)

Taken(edge, id) ==
  \E e \in Edges \ {id} : row[e] # NULL
    /\ <<row[e].source, row[e].target, row[e].type>> = <<edge.source, edge.target, edge.type>>

\* create_relationship_edge: the flag that is not given follows the type.
PostRelationship(s) ==
  \E e \in Edges, source, target \in active, type \in Types, mutual \in BOOLEAN \cup {NULL} :
    /\ row[e] = NULL /\ On(e) = {} /\ told[e] = NULL
    /\ Begin(s, e, [source |-> source, target |-> target, type |-> type,
                    mutual |-> IF mutual = NULL THEN type \in MutualTypes ELSE mutual])

\* update_relationship_edge: a mutual type sets the flag, another leaves it as it is.
PutRelationship(s) ==
  \E e \in Edges, target \in active, type \in Types :
    /\ row[e] # NULL
    /\ row[e].source \in active
    /\ Begin(s, e, [row[e] EXCEPT !.target = target, !.type = type,
                                  !.mutual = @ \/ type \in MutualTypes])

\* delete_relationship_edge
RemoveRelationship(s) ==
  \E e \in Edges :
    /\ row[e] # NULL /\ {row[e].source, row[e].target} \subseteq active
    /\ Begin(s, e, NULL)

\* The columns a transaction that read was changed to next, over the row as it is.
Column(was, next, is) == IF next # was THEN next ELSE is

\* What the row of x is after transaction r, when the database accepts it.
Written(x, r) ==
  IF x \in Persons \/ NULL \in {r.was, r.next} THEN r.next
  ELSE [source |-> Column(r.was.source, r.next.source, row[x].source),
        target |-> Column(r.was.target, r.next.target, row[x].target),
        type   |-> Column(r.was.type, r.next.type, row[x].type),
        mutual |-> Column(r.was.mutual, r.next.mutual, row[x].mutual)]

\* The database refuses: an insert of a row that is there, an update or delete of one
\* that is gone, an edge that exists under another id.
Accepted(x, r) ==
  /\ (r.was = NULL) = (row[x] = NULL)
  /\ x \in Edges /\ r.next # NULL => ~Taken(Written(x, r), x)

Commit(s) ==
  LET r == session[s] x == r.subject
  IN  /\ r # NULL /\ r.pc = "open"
      /\ Accepted(x, r)
      /\ row' = [row EXCEPT ![x] = Written(x, r)]
      /\ session' = [session EXCEPT ![s].pc = IF r.next = NULL THEN "publish" ELSE "refresh"]
      /\ doubtful' = doubtful \cup {x}
      /\ UNCHANGED <<active, told>>

\* db.refresh: the row as it is by now, which an overlapping request may have changed.
Refresh(s) ==
  /\ session[s] # NULL /\ session[s].pc = "refresh"
  /\ row[session[s].subject] # NULL
  /\ session' = [session EXCEPT ![s].pc = "publish", ![s].next = row[session[s].subject]]
  /\ UNCHANGED <<active, row, told, doubtful>>

\* Mutant: the event says what the row was before the change.
PublishBefore(s) ==
  LET r == session[s]
  IN  /\ r # NULL /\ r.pc = "publish"
      /\ told' = [told EXCEPT ![r.subject] = r.was]
      /\ session' = [session EXCEPT ![s] = NULL]
      /\ doubtful' = IF r.alone THEN doubtful \ {r.subject} ELSE doubtful
      /\ UNCHANGED <<active, row>>

\* _publish_profile_event
Publish(s) ==
  LET r == session[s]
  IN  /\ r # NULL /\ r.pc = "publish"
      /\ told' = [told EXCEPT ![r.subject] = r.next]
      /\ session' = [session EXCEPT ![s] = NULL]
      /\ doubtful' = IF r.alone THEN doubtful \ {r.subject} ELSE doubtful
      /\ UNCHANGED <<active, row>>

\* The database refuses, the broker does, or the process dies: the event is lost, the
\* change stays when it was committed.
Fail(s) ==
  /\ session[s] # NULL
  /\ session' = [session EXCEPT ![s] = NULL]
  /\ UNCHANGED <<active, row, told, doubtful>>

\* A person is deactivated in the decision system, or active again.
ChangePerson == active' \in SUBSET Persons /\ UNCHANGED <<row, told, session, doubtful>>

---------------------------------------------------------------------------
Init ==
  /\ active = Persons
  /\ row = [x \in Subjects |-> NULL] /\ told = [x \in Subjects |-> NULL]
  /\ session = [s \in Sessions |-> NULL]
  /\ doubtful = {}

Next ==
  \/ ChangePerson
  \/ \E s \in Sessions :
       \/ PutProfile(s) \/ PostRelationship(s) \/ PutRelationship(s) \/ RemoveRelationship(s)
       \/ Commit(s) \/ Refresh(s) \/ Publish(s) \/ Fail(s)

Spec == Init /\ [][Next]_vars

---------------------------------------------------------------------------
(* Properties                                                              *)

\* Profiles and edges are what the tables can hold.
TypeOK ==
  /\ \A p \in Persons : {row[p], told[p]} \subseteq Contents \cup {NULL}
  /\ \A e \in Edges : {row[e], told[e]} \subseteq Edge \cup {NULL}
  /\ active \subseteq Persons /\ doubtful \subseteq Subjects

\* The last event about a profile or an edge says what its row is, through any order of
\* changes and deactivations, unless requests overlapped on it or one did not reach the
\* broker since (_publish_profile_event after db.commit and db.refresh).
EventsTellRows ==
  \A x \in Subjects : x \notin doubtful => told[x] = row[x]
=============================================================================
