------------------------------ MODULE Education ------------------------------
(***************************************************************************)
(* The records of one learner in education-management-service: every       *)
(* writing route of routers/education.py, the idempotency keys, progress   *)
(* snapshots, quiz totals and the outbox of services/education.py, and the *)
(* worker's jobs.                                                          *)
(*                                                                         *)
(* A route is one transaction without row locks: Begin is what it reads    *)
(* and computes, Commit what it writes; it then publishes its event in a   *)
(* transaction of its own. Requests overlap, with each other and with the  *)
(* worker.                                                                 *)
(*                                                                         *)
(* The routes fall into classes by what they do to the tables: "tracked"   *)
(* records count in the snapshots of their scope and of all scopes, a      *)
(* "journal" in that of all scopes, the items and responses of a quiz in   *)
(* its totals; "plain" records refresh nothing, so that their rows are     *)
(* left out.                                                               *)
(*                                                                         *)
(* Abstractions: one quiz, one day; a scope is a domain with a skill (a    *)
(* snapshot of a domain without one is not refreshed by records with one); *)
(* a snapshot is the number of records that refresh it; a client uses an   *)
(* idempotency key for one route; a learner created is a sibling.          *)
(***************************************************************************)
EXTENDS Integers, Sequences, FiniteSets

CONSTANTS
  Scopes,
  Keys,        \* idempotency keys
  Sessions,    \* requests that may be in progress at once
  Worker,      \* the worker process
  NULL,
  MaxRecords,  \* bound: records
  MaxEvents,   \* bound: rows of event_log
  MaxFailures, \* bound: failed publishes
  MaxCrashes   \* bound: deaths of a process

EducationAssumption ==
  /\ MaxRecords \in Nat /\ MaxEvents \in Nat /\ MaxFailures \in Nat /\ MaxCrashes \in Nat
  /\ Worker \notin Sessions
  /\ Scopes \cap {"all", "quiz"} = {} /\ NULL \notin Nat

Actors  == Sessions \cup {Worker}
Classes == {"tracked", "journal", "plain", "quiz"}
Rows    == Scopes \cup {"all", "quiz"}   \* progress snapshots and the quiz's totals

VARIABLES
  records,   \* rows some total counts: class and scope
  keys,      \* idempotency keys that have their row
  effects,   \* per key, the committed requests that bore it (history)
  snapshots, \* what a progress_snapshots row or the quiz counts, or NULL
  events,    \* rows of event_log: publish_status
  sent,      \* events the broker has taken at least once
  session,   \* per actor NULL or where its transaction is
  raced,     \* scopes last refreshed by a transaction that another overtook
  failures,  \* publishes that failed so far (bound)
  crashes    \* deaths so far (bound)

tables  == <<records, keys, effects, snapshots>>
outbox  == <<events, sent>>
bounds  == <<failures, crashes>>
vars    == <<tables, outbox, session, raced, bounds>>

Record == [class : {"tracked"}, scope : Scopes] \cup [class : {"journal"}, scope : {"all"}]
             \cup [class : {"quiz"}, scope : {"quiz"}]
Status == {"pending", "failed", "published"}

Counted(sc) == {i \in DOMAIN records : \/ records[i].scope = sc
                                       \/ sc = "all" /\ records[i].class = "tracked"}

\* What a route refreshes when a record of a class leaves scope a for scope b.
Refreshes(class, a, b) ==
  CASE class = "tracked" -> {"all", a, b}
    [] class = "plain"   -> {}
    [] OTHER             -> {b}

\* The count of scope sc once record i is a record of a class in scope b.
CountWith(sc, i, class, b) ==
  Cardinality((Counted(sc) \ {i}) \cup (IF sc \in Refreshes(class, b, b) THEN {i} ELSE {}))

\* Every transaction in progress is overtaken by a commit of actor s.
Overtake(s) == [t \in Actors |-> IF session[t] = NULL \/ t = s \/ session[t].op # "write"
                                 THEN session[t] ELSE [session[t] EXCEPT !.overtaken = TRUE]]

---------------------------------------------------------------------------
(* Writing routes                                                          *)

\* consume_idempotency: a key that is there answers the request, or refuses it.
Fresh(key) == key \in {NULL} \cup (Keys \ keys)

\* A request to write record i of a class from scope a to scope b.
Begin(s, i, class, a, b, logs, key) ==
  LET refreshed == Refreshes(class, a, b)
  IN  /\ session[s] = NULL
      /\ Fresh(key)
      /\ session' = [session EXCEPT ![s] =
           [op |-> "write", record |-> i, class |-> class, scope |-> b, logs |-> logs, key |-> key,
            counts |-> [sc \in refreshed |->
                          CountWith(sc, IF i = 0 THEN MaxRecords + 1 ELSE i, class, b)],
            was |-> [sc \in refreshed |-> snapshots[sc]],
            overtaken |-> FALSE]]
      /\ UNCHANGED <<tables, outbox, raced, bounds>>

Tracked(s, b, key)       == Begin(s, 0, "tracked", b, b, TRUE, key)
TrackedPatch(s, i, b, key) ==
  records[i].class = "tracked" /\ Begin(s, i, "tracked", records[i].scope, b, TRUE, key)
Plain(s, key)            == Begin(s, 0, "plain", "all", "all", TRUE, key)
Journal(s, i, key)       == Begin(s, i, "journal", "all", "all", TRUE, key)
QuizRow(s, logs, key)    == Begin(s, 0, "quiz", "quiz", "quiz", logs, key)

CreateActivity(s, b, key)      == Tracked(s, b, key)
CreateAssessment(s, b, key)    == Tracked(s, b, key)
CreatePractice(s, b, key)      == Tracked(s, b, key)
UpdateActivity(s, i, b, key)   == TrackedPatch(s, i, b, key)
UpdateAssessment(s, i, b, key) == TrackedPatch(s, i, b, key)
UpdatePractice(s, i, b, key)   == TrackedPatch(s, i, b, key)
CreateLearner(s, key)          == Plain(s, key)
UpdateLearner(s, key)          == Plain(s, key)
CreateGoal(s, key)             == Plain(s, key)
UpdateGoal(s, key)             == Plain(s, key)
CreateAssignment(s, key)       == Plain(s, key)
UpdateAssignment(s, key)       == Plain(s, key)
CreateJournal(s, key)          == Journal(s, 0, key)
UpdateJournal(s, i, key)       == records[i].class = "journal" /\ Journal(s, i, key)
CreateQuiz(s, key)             == Plain(s, key)
CreateAttachment(s, key)       == Plain(s, key)
AddQuizItems(s, key)           == QuizRow(s, FALSE, key)
AddQuizResponses(s, key)       == QuizRow(s, TRUE, key)

\* Mutant: no unique constraint on the keys.
DoomedBySnapshot(r) == \E sc \in DOMAIN r.was : r.was[sc] = NULL /\ snapshots[sc] # NULL

\* What the unique constraints refuse at the latest when it commits.
Doomed(r) ==
  \/ r.key \in keys
  \/ \E sc \in DOMAIN r.was : r.was[sc] = NULL /\ snapshots[sc] # NULL

\* Two transactions that write two snapshots in different orders wait for each other.
Deadlocked(s) ==
  \E t \in Actors \ {s} :
    /\ session[t] # NULL /\ session[t].op = "write"
    /\ Cardinality(DOMAIN session[s].was \cap DOMAIN session[t].was) > 1

\* The snapshots after transaction r: an UPDATE names only the columns that change.
Written(r) == [sc \in DOMAIN snapshots |->
                 IF sc \in DOMAIN r.was /\ r.counts[sc] # r.was[sc] THEN r.counts[sc]
                 ELSE snapshots[sc]]

\* The event of a change goes into the outbox with it; a quiz's items have none.
Commit(s) ==
  LET r == session[s]
      i == IF r.record = 0 THEN Len(records) + 1 ELSE r.record
      adds == r.record = 0 /\ r.class # "plain"
      old == IF r.record = 0 THEN {} ELSE {records[i].scope}
      touched == DOMAIN r.counts
  IN  /\ r # NULL /\ r.op = "write" /\ s # Worker
      /\ ~Doomed(r)
      /\ adds => i <= MaxRecords
      /\ r.logs => Len(events) < MaxEvents
      /\ records' = IF adds THEN Append(records, [class |-> r.class, scope |-> r.scope])
                    ELSE IF r.record = 0 THEN records
                    ELSE [records EXCEPT ![i].scope = r.scope]
      /\ keys' = IF r.key = NULL THEN keys
                 ELSE keys \cup {r.key}
      /\ effects' = IF r.key = NULL THEN effects ELSE [effects EXCEPT ![r.key] = @ + 1]
      /\ snapshots' = Written(r)
      /\ events' = IF r.logs THEN Append(events, "pending") ELSE events
      /\ raced' = IF r.overtaken THEN raced \cup touched \cup (IF touched = {} THEN {} ELSE old)
                  ELSE raced \ touched
      /\ session' = [Overtake(s) EXCEPT ![s] =
           IF r.logs THEN [op |-> "publish", todo |-> {Len(events) + 1}, marks |-> <<>>]
           ELSE NULL]
      /\ UNCHANGED <<sent, bounds>>

\* The database refuses the transaction, or the process dies in it or after it.
Rollback(s) ==
  /\ session[s] # NULL /\ session[s].op = "write"
  /\ Doomed(session[s]) \/ Deadlocked(s)
  /\ session' = [session EXCEPT ![s] = NULL]
  /\ UNCHANGED <<tables, outbox, raced, bounds>>

Die(s) ==
  /\ session[s] # NULL
  /\ crashes < MaxCrashes
  /\ crashes' = crashes + 1
  /\ session' = [session EXCEPT ![s] = NULL]
  /\ UNCHANGED <<tables, outbox, raced, failures>>

---------------------------------------------------------------------------
(* Publishing: a request its own event, the worker whatever is left        *)

\* Mutant: a row that failed once is not taken again.
PublishPendingOnly ==
  /\ session[Worker] = NULL
  /\ \E e \in DOMAIN events : events[e] = "pending"
  /\ session' = [session EXCEPT ![Worker] =
       [op |-> "publish", todo |-> {e \in DOMAIN events : events[e] = "pending"},
        marks |-> <<>>]]
  /\ UNCHANGED <<tables, outbox, raced, bounds>>

PublishPending ==
  /\ session[Worker] = NULL
  /\ \E e \in DOMAIN events : events[e] # "published"
  /\ session' = [session EXCEPT ![Worker] =
       [op |-> "publish", todo |-> {e \in DOMAIN events : events[e] # "published"},
        marks |-> <<>>]]
  /\ UNCHANGED <<tables, outbox, raced, bounds>>

\* One row of try_publish_event_rows, the oldest first; the mark is only in memory.
PublishOne(s, ok) ==
  LET r == session[s]
      e == CHOOSE x \in r.todo : \A y \in r.todo : x <= y
  IN  /\ r # NULL /\ r.op = "publish" /\ r.todo # {}
      /\ IF ok THEN sent' = sent \cup {e} /\ UNCHANGED failures
         ELSE failures < MaxFailures /\ failures' = failures + 1 /\ UNCHANGED sent
      /\ session' = [session EXCEPT ![s].todo = @ \ {e},
                                    ![s].marks = Append(@, <<e, IF ok THEN "published"
                                                                 ELSE "failed">>)]
      /\ UNCHANGED <<tables, events, raced, crashes>>

CommitMarks(s) ==
  LET r == session[s]
      mark(e) == {r.marks[k][2] : k \in {n \in DOMAIN r.marks : r.marks[n][1] = e}}
  IN  /\ r # NULL /\ r.op = "publish" /\ r.todo = {}
      /\ events' = [e \in DOMAIN events |->
                      IF mark(e) = {} THEN events[e] ELSE CHOOSE m \in mark(e) : TRUE]
      /\ session' = [session EXCEPT ![s] = NULL]
      /\ UNCHANGED <<tables, sent, raced, bounds>>

---------------------------------------------------------------------------
(* The worker's other jobs                                                 *)

\* refresh_current_snapshots: the snapshot over all scopes.
BeginRefresh ==
  /\ session[Worker] = NULL
  /\ session' = [session EXCEPT ![Worker] =
       [op |-> "write", record |-> 0, class |-> "plain", scope |-> "all",
        logs |-> FALSE, key |-> NULL,
        counts |-> [sc \in {"all"} |-> Cardinality(Counted(sc))],
        was |-> [sc \in {"all"} |-> snapshots[sc]], overtaken |-> FALSE]]
  /\ UNCHANGED <<tables, outbox, raced, bounds>>

CommitRefresh ==
  LET r == session[Worker]
  IN  /\ r # NULL /\ r.op = "write"
      /\ ~Doomed(r)
      /\ snapshots' = Written(r)
      /\ raced' = IF r.overtaken THEN raced \cup {"all"} ELSE raced \ {"all"}
      /\ session' = [Overtake(Worker) EXCEPT ![Worker] = NULL]
      /\ UNCHANGED <<records, keys, effects, outbox, bounds>>

---------------------------------------------------------------------------
Init ==
  /\ records = <<>>
  /\ keys = {} /\ effects = [k \in Keys |-> 0]
  /\ snapshots = [sc \in Rows |-> IF sc = "quiz" THEN 0 ELSE NULL]
  /\ events = <<>> /\ sent = {}
  /\ session = [s \in Actors |-> NULL]
  /\ raced = {}
  /\ failures = 0 /\ crashes = 0

Writes(s) ==
  \E key \in Keys \cup {NULL} :
    \/ CreateLearner(s, key) \/ UpdateLearner(s, key)
    \/ CreateGoal(s, key) \/ UpdateGoal(s, key)
    \/ CreateAssignment(s, key) \/ UpdateAssignment(s, key)
    \/ CreateJournal(s, key) \/ \E i \in DOMAIN records : UpdateJournal(s, i, key)
    \/ CreateQuiz(s, key) \/ CreateAttachment(s, key)
    \/ AddQuizItems(s, key) \/ AddQuizResponses(s, key)
    \/ \E b \in Scopes :
         \/ CreateActivity(s, b, key) \/ CreateAssessment(s, b, key) \/ CreatePractice(s, b, key)
         \/ \E i \in DOMAIN records :
              \/ UpdateActivity(s, i, b, key) \/ UpdateAssessment(s, i, b, key)
              \/ UpdatePractice(s, i, b, key)

Publishes(s) == PublishOne(s, TRUE) \/ CommitMarks(s)

Next ==
  \/ \E s \in Sessions : Writes(s) \/ Commit(s)
  \/ \E s \in Actors : Rollback(s) \/ Die(s) \/ PublishOne(s, FALSE) \/ Publishes(s)
  \/ PublishPending \/ BeginRefresh \/ CommitRefresh

\* Celery's beat queues each job again and again and the worker runs what is queued;
\* the broker does not refuse for ever (MaxFailures).
Fairness == /\ WF_vars(CommitRefresh) /\ WF_vars(Rollback(Worker))
            /\ SF_vars(PublishPending) /\ WF_vars(Publishes(Worker))

Spec == Init /\ [][Next]_vars /\ Fairness

---------------------------------------------------------------------------
(* Properties                                                              *)

Transaction ==
  [op : {"write"}, record : 0..MaxRecords, class : Classes,
   scope : Rows, logs : BOOLEAN, key : Keys \cup {NULL},
   counts : UNION {[D -> 0..MaxRecords + 1] : D \in SUBSET (DOMAIN snapshots)},
   was : UNION {[D -> 0..MaxRecords \cup {NULL}] : D \in SUBSET (DOMAIN snapshots)},
   overtaken : BOOLEAN]

\* Every variable holds what the tables and the processes can hold.
TypeOK ==
  /\ records \in Seq(Record) /\ Len(records) <= MaxRecords
  /\ keys \subseteq Keys /\ effects \in [Keys -> Nat]
  /\ snapshots \in [Rows -> 0..MaxRecords \cup {NULL}]
  /\ events \in Seq(Status) /\ Len(events) <= MaxEvents /\ sent \subseteq DOMAIN events
  /\ \A s \in Actors :
       \/ session[s] = NULL
       \/ session[s] \in Transaction
       \/ /\ session[s].op = "publish"
          /\ session[s].todo \subseteq DOMAIN events
          /\ session[s].marks \in Seq((1..MaxEvents) \X Status)
  /\ raced \subseteq Rows
  /\ failures \in 0..MaxFailures /\ crashes \in 0..MaxCrashes

\* A request repeated under its idempotency key, even while the first one is still in
\* progress or after the process died, takes effect once: the stored answer and the
\* change are one transaction, and the unique key refuses the second
\* (consume_idempotency, store_idempotency_result).
IdempotentOnce == \A k \in Keys : effects[k] = IF k \in keys THEN 1 ELSE 0

\* A progress snapshot, or the totals of a quiz, count exactly the records there are,
\* also after a record moved to another scope, unless its last refresh was overtaken by
\* another transaction; the next refresh that is not puts it right (upsert_snapshot,
\* refresh_snapshot_transition, update_quiz_totals).
SnapshotsCurrent ==
  \A sc \in DOMAIN snapshots \ raced :
    snapshots[sc] # NULL => snapshots[sc] = Cardinality(Counted(sc))

\* A row marked published has been taken by the broker, whoever marked it
\* (try_publish_event_rows runs in a route and in the worker at once).
PublishedWasSent == \A e \in DOMAIN events : events[e] = "published" => e \in sent

\* The event of every committed change reaches the broker in the end, though the
\* process died before publishing it or the broker refused it
\* (publish_pending_education_events takes pending and failed rows).
EventsSent == \A e \in 1..MaxEvents : e \in DOMAIN events ~> e \in sent

=============================================================================
