------------------------------ MODULE TaskEvents ------------------------------
(***************************************************************************)
(* family-event-service, the producer of task events: Vikunja calls a      *)
(* webhook on every change of a task, an hourly job keeps one webhook in   *)
(* each project, and a sweep every ten minutes publishes an event for what *)
(* it finds changed within a lookback window.                              *)
(*                                                                         *)
(* An event is named by its source, its type, the task and the time of the *)
(* change; the log keeps one event of a name. Vikunja stamps changes with  *)
(* a clock that two changes may share. A call may be lost or overtaken.    *)
(*                                                                         *)
(* Abstractions: one project; the payload of a call is the task as it was; *)
(* who acted, titles and tags are left out; signatures match, the stream   *)
(* between the sweep and the log keeps what was published (FamilyEvents).  *)
(***************************************************************************)
EXTENDS Integers, FiniteSets

CONSTANTS
  Tasks,
  MaxTime,   \* bound of the clock
  Lookback,  \* task_vikunja_reconcile_lookback_minutes
  HookIds,   \* ids of webhooks of the project
  Runs,      \* runs of the registration job that may overlap
  MaxCalls,  \* bound on webhook calls that get through, and on those on their way
  NULL, GONE

TaskEventsAssumption == MaxTime \in Nat /\ Lookback \in Nat \ {0}

VARIABLES
  now,
  task,    \* task -> NULL, its row in Vikunja, or GONE (no id is given twice)
  hook,    \* id -> NULL, "all" (every event) or "some" of a webhook to this service
  calls,   \* webhook calls on their way
  stream,  \* names of events published and not stored
  log,     \* names of events stored
  ensure,  \* per run of the registration NULL or where it is
  sweep,   \* NULL or the sweep in progress
  swept    \* when the last sweep began whose events were all published (history)

vars == <<now, task, hook, calls, stream, log, ensure, sweep, swept>>

Row   == [created : 0..MaxTime, updated : 0..MaxTime, done : BOOLEAN]
Names == {"task.created", "task.updated", "task.deleted", "task.assignee.created"}
Event == [source : {"vikunja-webhook", "vikunja-sweep-created", "vikunja-sweep-updated"},
          type : {"task.created", "task.updated", "task.completed", "task.deleted",
                  "task.assigned"},
          task : Tasks, at : 0..MaxTime]

\* canonical_task_event_type
CanonicalType(name, row) ==
  CASE name = "task.assignee.created" -> "task.assigned"
    [] name = "task.updated" /\ row.done -> "task.completed"
    [] OTHER -> name

\* build_vikunja_task_event, deterministic_event_id, _task_occurred_at: a deletion and an
\* assignment carry the time of the task's last update.
Build(source, name, t, row) ==
  [source |-> source, type |-> CanonicalType(name, row), task |-> t,
   at |-> IF CanonicalType(name, row) = "task.created" THEN row.created ELSE row.updated]

---------------------------------------------------------------------------
(* Vikunja                                                                 *)

There == {t \in Tasks : task[t] \notin {NULL, GONE}}

Change(name, t, row, next) ==
  /\ Cardinality(calls) < MaxCalls
  /\ task' = [task EXCEPT ![t] = next]
  /\ calls' = IF \E h \in HookIds : hook[h] # NULL THEN calls \cup {[name |-> name, task |-> t, row |-> row]} ELSE calls
  /\ UNCHANGED <<now, hook, stream, log, ensure, sweep, swept>>

CreateTask(t) ==
  /\ task[t] = NULL
  /\ LET row == [created |-> now, updated |-> now, done |-> FALSE]
     IN  Change("task.created", t, row, row)

UpdateTask(t) ==
  /\ t \in There
  /\ \E name \in {"task.updated", "task.assignee.created"}, done \in BOOLEAN :
       LET row == [task[t] EXCEPT !.updated = now, !.done = done]
       IN  /\ name # "task.updated" => done = task[t].done
           /\ Change(name, t, row, row)

DeleteTask(t) == t \in There /\ Change("task.deleted", t, task[t], GONE)

\* Vikunja gives no id twice: one a run is about to delete is not free again.
FreeIds == {h \in HookIds : hook[h] = NULL
                             /\ \A r \in Runs : ensure[r] # NULL => h \notin ensure[r].left}

\* The family edits the webhooks of the project in Vikunja.
ChangeHook ==
  /\ \E h \in HookIds, next \in {NULL, "all", "some"} :
       /\ next # hook[h] /\ (hook[h] = NULL => h \in FreeIds)
       /\ hook' = [hook EXCEPT ![h] = next]
  /\ ensure' = [r \in Runs |-> IF ensure[r] = NULL THEN NULL
                               ELSE [ensure[r] EXCEPT !.alone = FALSE]]
  /\ UNCHANGED <<now, task, calls, stream, log, sweep, swept>>

\* Sweeps that publish begin at most a lookback apart: the beat runs one every ten
\* minutes and the window is half an hour.
Tick ==
  /\ now < MaxTime /\ now < swept + Lookback
  /\ now' = now + 1
  /\ UNCHANGED <<task, hook, calls, stream, log, ensure, sweep, swept>>

---------------------------------------------------------------------------
(* The webhook                                                             *)

\* ingest_vikunja_webhook: the event is stored before the call is answered; a name that is
\* in the log is a duplicate.
IngestWebhook ==
  \E c \in calls :
    /\ Cardinality({e \in log : e.source = "vikunja-webhook"}) < MaxCalls
    /\ calls' = calls \ {c}
    /\ log' = log \cup {Build("vikunja-webhook", c.name, c.task, c.row)}
    /\ UNCHANGED <<now, task, hook, stream, ensure, sweep, swept>>

LoseCall ==
  \E c \in calls : calls' = calls \ {c}
    /\ UNCHANGED <<now, task, hook, stream, log, ensure, sweep, swept>>

---------------------------------------------------------------------------
(* ensure_project_webhooks                                                 *)

Matching == {h \in HookIds : hook[h] # NULL}

\* Mutant: webhooks that are full already are kept beside the new one.
BeginEnsureKeeping(r) ==
  /\ ensure[r] = NULL
  /\ ~(Cardinality(Matching) = 1 /\ \A h \in Matching : hook[h] = "all")
  /\ ensure' = [q \in Runs |->
       IF q = r THEN [left |-> {h \in Matching : hook[h] # "all"},
                      alone |-> \A p \in Runs : ensure[p] = NULL]
       ELSE IF ensure[q] # NULL THEN [ensure[q] EXCEPT !.alone = FALSE] ELSE NULL]
  /\ UNCHANGED <<now, task, hook, calls, stream, log, sweep, swept>>

\* list_project_webhooks: one full webhook is left as it is, otherwise all are replaced.
BeginEnsure(r) ==
  /\ ensure[r] = NULL
  /\ ~(Cardinality(Matching) = 1 /\ \A h \in Matching : hook[h] = "all")
  /\ ensure' = [q \in Runs |->
       IF q = r THEN [left |-> Matching, alone |-> \A p \in Runs : ensure[p] = NULL]
       ELSE IF ensure[q] # NULL THEN [ensure[q] EXCEPT !.alone = FALSE] ELSE NULL]
  /\ UNCHANGED <<now, task, hook, calls, stream, log, sweep, swept>>

\* delete_project_webhook
DeleteHook(r) ==
  /\ ensure[r] # NULL
  /\ \E h \in ensure[r].left :
       /\ hook[h] # NULL
       /\ hook' = [hook EXCEPT ![h] = NULL]
       /\ ensure' = [ensure EXCEPT ![r].left = @ \ {h}]
  /\ UNCHANGED <<now, task, calls, stream, log, sweep, swept>>

\* create_project_webhook
CreateHook(r) ==
  /\ ensure[r] # NULL /\ ensure[r].left = {}
  /\ \E h \in FreeIds : hook' = [hook EXCEPT ![h] = "all"]
  /\ ensure' = [ensure EXCEPT ![r] = NULL]
  /\ UNCHANGED <<now, task, calls, stream, log, sweep, swept>>

\* Vikunja refuses (a webhook that is gone already, an error) or the worker dies.
FailEnsure(r) ==
  /\ ensure[r] # NULL /\ ensure' = [ensure EXCEPT ![r] = NULL]
  /\ UNCHANGED <<now, task, hook, calls, stream, log, sweep, swept>>

---------------------------------------------------------------------------
(* reconcile_vikunja_task_events                                           *)

\* Mutant: the window is open at its far end.
RecentStrictly(x) == x > now - Lookback

Recent(x) == x >= now - Lookback

\* reconcile_recent_task_events: what the tasks say and the log lacks.
Found ==
  {Build("vikunja-sweep-created", "task.created", t, task[t]) :
     t \in {u \in There : Recent(task[u].created)}}
  \cup {Build("vikunja-sweep-updated", "task.updated", t, task[t]) :
     t \in {u \in There : Recent(task[u].updated)}}

BeginSweep ==
  /\ sweep = NULL
  /\ sweep' = [began |-> now, events |-> Found \ log, failed |-> FALSE]
  /\ UNCHANGED <<now, task, hook, calls, stream, log, ensure, swept>>

\* publish_event: an event the broker refuses is skipped.
PublishEvent ==
  /\ sweep # NULL
  /\ \E e \in sweep.events :
       \/ /\ stream' = stream \cup {e} /\ sweep' = [sweep EXCEPT !.events = @ \ {e}]
       \/ /\ sweep' = [sweep EXCEPT !.events = @ \ {e}, !.failed = TRUE]
          /\ UNCHANGED stream
  /\ UNCHANGED <<now, task, hook, calls, log, ensure, swept>>

EndSweep ==
  /\ sweep # NULL /\ sweep.events = {}
  /\ sweep' = NULL /\ swept' = IF sweep.failed THEN swept ELSE sweep.began
  /\ UNCHANGED <<now, task, hook, calls, stream, log, ensure>>

\* Vikunja does not answer or the worker dies.
FailSweep ==
  /\ sweep # NULL /\ sweep' = NULL
  /\ UNCHANGED <<now, task, hook, calls, stream, log, ensure, swept>>

\* The consumer of the family event store.
Store ==
  \E e \in stream :
    /\ stream' = stream \ {e} /\ log' = log \cup {e}
    /\ UNCHANGED <<now, task, hook, calls, ensure, sweep, swept>>

---------------------------------------------------------------------------
Init ==
  /\ now = 0 /\ swept = 0 /\ sweep = NULL
  /\ task = [t \in Tasks |-> NULL]
  /\ hook = [h \in HookIds |-> NULL]
  /\ calls = {} /\ stream = {} /\ log = {}
  /\ ensure = [r \in Runs |-> NULL]

Next ==
  \/ \E t \in Tasks : CreateTask(t) \/ UpdateTask(t) \/ DeleteTask(t)
  \/ ChangeHook \/ Tick \/ IngestWebhook \/ LoseCall
  \/ \E r \in Runs : BeginEnsure(r) \/ DeleteHook(r) \/ CreateHook(r) \/ FailEnsure(r)
  \/ BeginSweep \/ PublishEvent \/ EndSweep \/ FailSweep \/ Store

Spec == Init /\ [][Next]_vars

---------------------------------------------------------------------------
(* Properties                                                              *)

\* What is stored and published are task events of this family's tasks.
TypeOK ==
  /\ \A t \in Tasks : task[t] \in Row \cup {NULL, GONE}
  /\ log \cup stream \subseteq Event
  /\ \A c \in calls : c.name \in Names /\ c.task \in Tasks /\ c.row \in Row
  /\ \A r \in Runs : ensure[r] # NULL => ensure[r].left \subseteq HookIds

\* Sweeps miss nothing: the last change of a task that is still there and was changed
\* before the last sweep that published all it found is stored or in the stream, whatever
\* webhook calls were lost, sweeps failed half way and changes overtook a sweep
\* (reconcile_recent_task_events, the lookback window).
SweepsMissNothing ==
  \A t \in There : task[t].updated < swept =>
    Build("vikunja-sweep-updated", "task.updated", t, task[t]) \in log \cup stream

\* A registration that no other run or edit overtook leaves exactly one webhook, for every
\* event, whatever earlier runs left behind (ensure_project_webhooks).
OneHookLeft ==
  [][\A r \in Runs :
       CreateHook(r) /\ ensure[r].alone =>
         \E h \in HookIds : /\ hook'[h] = "all"
                            /\ \A g \in HookIds \ {h} : hook'[g] = NULL]_vars
=============================================================================
