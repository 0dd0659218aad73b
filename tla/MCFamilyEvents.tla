--------------------------- MODULE MCFamilyEvents ---------------------------
(***************************************************************************)
(* The event store: the ingest, where the events of tasks come from, and   *)
(* what its readers make of it.  In a behaviour one of the three modules   *)
(* runs, and the variables of the others stay as they began.               *)
(*   - ingest: three events, one invalid, a worker and a caller;           *)
(*   - tasks: one task, three times, two registrations that overlap;       *)
(*   - readers: a log of up to six rows, two of them of one time, a note   *)
(*     that is about church by its tag only, a score that cannot be read   *)
(*     and a row recorded late.                                            *)
(***************************************************************************)
EXTENDS FamilyEvents, TLC

CONSTANTS
  Tasks, MaxTime, Lookback, HookIds, Runs, MaxCalls, GONE,  \* TaskEvents
  UNREADABLE

VARIABLES
  part,
  now, task, hook, webhooks, bus, table, ensure, sweep, swept,   \* TaskEvents
  shelf, reader                                                  \* EventQueries

taskVars == <<now, task, hook, webhooks, bus, table, ensure, sweep, swept>>
readVars == <<shelf, reader>>

Row(at, recorded, domain, type, tags, subject, persons, church, score) ==
  [at |-> at, recorded |-> recorded, domain |-> domain, type |-> type, tags |-> tags,
   subject |-> subject, persons |-> persons, church |-> church, score |-> score]

SomeRows == {
  Row(1, 1,  "note",     "note.created", {"church"}, "n1", {"ann"}, FALSE, 0),
  Row(2, 2,  "note",     "note.created", {}, "n2", {"bob"}, TRUE, 0),
  Row(2, 30, "decision", "decision.score_calculated", {}, "d1", {"ann", "bob"}, FALSE, 3),
  Row(3, 3,  "decision", "decision.score_calculated", {"late"}, "d1", {"bob"}, FALSE, UNREADABLE),
  Row(4, 4,  "family",   "family_member.updated", {}, "m1", {"ann"}, FALSE, 0),
  Row(5, 5,  "note",     "note.updated", {"late"}, "n1", {"ann"}, FALSE, 0)}

TaskLog == INSTANCE TaskEvents WITH calls <- webhooks, stream <- bus, log <- table

Readers == INSTANCE EventQueries WITH
  Rows <- SomeRows, Limit <- 2, CountLimit <- 4, WideLimit <- 5, Bucket <- 2, log <- shelf

ASSUME TasksAssumption == TaskLog!TaskEventsAssumption
ASSUME Readers!RowsAssumption

MCInit ==
  /\ part \in {"ingest", "tasks", "readers"}
  /\ Init /\ TaskLog!Init /\ Readers!Init

MCNext ==
  \/ part = "ingest"  /\ Next /\ UNCHANGED <<part, taskVars, readVars>>
  \/ part = "tasks"   /\ TaskLog!Next /\ UNCHANGED <<part, vars, readVars>>
  \/ part = "readers" /\ Readers!Next /\ UNCHANGED <<part, vars, taskVars>>

MCSpec == MCInit /\ [][MCNext]_<<part, vars, taskVars, readVars>>

\* The webhooks are registered and edited while there is no task; from then on there is one
\* of them, whose calls may be lost. Four events of the task are one more than is recorded.
Focus ==
  /\ Cardinality(table \cup bus) <= 3
  /\ (\E t \in Tasks : task[t] # NULL) =>
       /\ \A r \in Runs : ensure[r] = NULL
       /\ \A h \in HookIds : hook[h] = IF h = 1 THEN "all" ELSE NULL

\* The last change of a task that is still there, made before the last sweep that published
\* all it found, is stored or in the stream, whatever calls were lost, sweeps failed and
\* changes overtook a sweep (reconcile_recent_task_events).
SweepsMissNothing == TaskLog!TypeOK /\ TaskLog!SweepsMissNothing

\* A registration that no other run or edit overtook leaves exactly one webhook, for every
\* event (ensure_project_webhooks).
OneHookLeft == TaskLog!OneHookLeft

\* What the readers of the log are told agrees with it and with each other: the pages of a
\* query, the filters that are offered, and the reports that count (query_events,
\* filter_options, compute_counts and the reports beside it).
ReadersAgree ==
  part = "readers" => Readers!PagesComplete /\ Readers!OptionsFind /\ Readers!ReportsAgree
=============================================================================
