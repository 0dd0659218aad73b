------------------------------- MODULE Planning -------------------------------
(***************************************************************************)
(* One plan of plan-management-service (services/planning.py): its status, *)
(* the schedule and people it needs to be active, the instances that every *)
(* reading route reconciles with the schedule, and the check-ins on them.  *)
(*                                                                         *)
(* A route is one or two transactions without row locks: what it reads and *)
(* computes when it begins, and what it writes when it commits. An UPDATE  *)
(* names the columns that changed; the rows of participants are deleted    *)
(* and inserted again. Requests overlap.                                   *)
(*                                                                         *)
(* Abstractions: time is counted in half days, an occurrence falls on the  *)
(* first or the second half of a day; people stands for the participants   *)
(* of a family plan or the owner of a person's, and for the goal links,    *)
(* which are replaced the same way; events and missing-field questions are *)
(* sent on a best effort and read by nothing here, archived_at likewise.    *)
(***************************************************************************)
EXTENDS Integers, FiniteSets

CONSTANTS
  Persons,
  Edits,    \* bodies of PUT: NULL or a value for status, schedule and people
  Answers,  \* statuses a check-in may give
  Sessions, \* requests that may be in progress at once
  Window,   \* days that are scheduled ahead
  Week,     \* days of a week
  MaxTime,  \* bound: last half day
  NULL

PlanStatus == {"draft", "active", "paused", "archived"}
InstanceStatus == {"scheduled", "done", "skipped", "missed"}
Horizon == MaxTime \div 2 + Window
Times   == 0..2 * Horizon + 1
Days    == 0..Horizon

\* PlanSchedule, with the days a plan starts and ends on.
Schedule == [frequency : {NULL, "daily", "weekly"}, interval : 1..Week, weekdays : SUBSET (0..Week - 1),
             half : 0..1, timezone : BOOLEAN, excluded : SUBSET Days,
             start : Days, end : Days \cup {NULL}]

\* The row of a plan with its participants.
Plan == [status : PlanStatus, schedule : Schedule, people : SUBSET Persons]

\* NULL stands for a row, a status or a field that is not there.
PlanningAssumption ==
  /\ Edits \subseteq [status : PlanStatus \cup {NULL}, schedule : Schedule \cup {NULL},
                      people : (SUBSET Persons) \cup {NULL}]
  /\ Answers \subseteq InstanceStatus
  /\ NULL \notin InstanceStatus /\ NULL \notin Plan
  /\ Window \in Nat \ {0} /\ Week \in Nat \ {0} /\ MaxTime \in Nat

VARIABLES
  plan,        \* NULL or the row with its participants
  instances,   \* time -> status of the instance scheduled for it, or NULL
  checkins,    \* time -> status of the last check-in on it, or NULL
  session,     \* per request NULL or where its transaction is
  now,         \* half days
  raced,       \* the plan was last written by a transaction another overtook (history)
  overwritten  \* check-ins an overlapping reconcile or check-in wrote over (history)

rows    == <<plan, instances, checkins>>
history == <<raced, overwritten>>
vars    == <<rows, session, now, history>>

---------------------------------------------------------------------------
(* Schedules                                                               *)

Today == now \div 2

\* What a plan lacks to be active.
MissingFields(p) ==
  {f \in {"people", "frequency", "timezone", "weekdays"} :
     \/ f = "people"    /\ p.people = {}
     \/ f = "frequency" /\ p.schedule.frequency = NULL
     \/ f = "timezone"  /\ ~p.schedule.timezone
     \/ f = "weekdays"  /\ p.schedule.frequency = "weekly" /\ p.schedule.weekdays = {}}

\* Whether schedule sc falls on day d.
Falls(sc, d) ==
  /\ d >= sc.start
  /\ sc.end # NULL => d <= sc.end
  /\ d \notin sc.excluded
  /\ \/ sc.frequency = "daily" /\ (d - sc.start) % sc.interval = 0
     \/ /\ sc.frequency = "weekly"
        /\ d % Week \in sc.weekdays
        /\ ((d - sc.start) \div Week) % sc.interval = 0

\* The times in the window, today's included although they may have passed.
Occurrences(sc) ==
  LET first == IF sc.start > Today THEN sc.start ELSE Today
  IN  {2 * d + sc.half : d \in {x \in Days : Falls(sc, x) /\ x >= first /\ x < first + Window}}

---------------------------------------------------------------------------
(* Transactions                                                            *)

\* A request that has committed its change and reconciles the plan next.
Due == [op |-> "due"]

\* Every transaction in progress on the plan is overtaken by a commit of s.
Overtake(s) == [t \in Sessions |->
                  IF session[t] # NULL /\ t # s /\ session[t].op \in {"plan", "reconcile"}
                  THEN [session[t] EXCEPT !.overtaken = TRUE] ELSE session[t]]

\* A transaction that changes the plan from what it read to what it computed.
Change(s, next, rewrites) ==
  /\ session[s] = NULL
  /\ session' = [session EXCEPT ![s] = [op |-> "plan", was |-> plan, next |-> next,
                                        rewrites |-> rewrites, overtaken |-> FALSE]]
  /\ UNCHANGED <<rows, now, history>>

\* What a body leaves out stays as it is.
Or(value, default) == IF value = NULL THEN default ELSE value

CreatePlan(s) ==
  \E e \in Edits :
    LET row == [status |-> Or(e.status, "draft"),
                schedule |-> e.schedule, people |-> e.people]
    IN  /\ plan = NULL /\ session[s] = NULL
        /\ NULL \notin {e.schedule, e.people}
        /\ row.status = "active" => MissingFields(row) = {}
        /\ plan' = row
        /\ session' = [session EXCEPT ![s] = IF row.status = "active" THEN Due ELSE NULL]
        /\ UNCHANGED <<instances, checkins, now, history>>

BeginUpdate(s) ==
  \E e \in Edits :
    LET status == Or(e.status, plan.status)
        next == [status |-> status,
                 schedule |-> Or(e.schedule, plan.schedule), people |-> Or(e.people, plan.people)]
    IN  /\ plan # NULL
        /\ status = "active" => MissingFields(next) = {}
        /\ Change(s, next, TRUE)

BeginActivate(s) ==
  /\ plan # NULL
  /\ MissingFields(plan) = {}
  /\ Change(s, [plan EXCEPT !.status = "active"], FALSE)

BeginPause(s) ==
  plan # NULL /\ Change(s, [plan EXCEPT !.status = "paused"], FALSE)

BeginArchive(s) ==
  plan # NULL /\ Change(s, [plan EXCEPT !.status = "archived"], FALSE)

\* The plan after transaction r: the columns it changed; the participants it saw
\* are deleted and its own inserted.
Merged(r) ==
  [status   |-> IF r.next.status # r.was.status THEN r.next.status ELSE plan.status,
   schedule |-> IF r.next.schedule # r.was.schedule THEN r.next.schedule ELSE plan.schedule,
   people   |-> IF r.rewrites THEN (plan.people \ r.was.people) \cup r.next.people ELSE plan.people]

\* An update, or an activation, that ends with an active plan reconciles it next.
CommitPlan(s) ==
  LET r == session[s]
  IN  /\ r # NULL /\ r.op = "plan"
      /\ r.rewrites => (plan.people \ r.was.people) \cap r.next.people = {}
      /\ plan' = Merged(r)
      /\ raced' = (r.overtaken \/ (raced /\ r.next.status # "active"))
      /\ session' = [Overtake(s) EXCEPT ![s] =
           IF Merged(r).status = "active" THEN Due ELSE NULL]
      /\ UNCHANGED <<instances, checkins, now, overwritten>>

\* What reconciling the plan would do: what it found of each time, and what it changes.
Reconcile(s, missed, new) ==
  session' = [session EXCEPT ![s] =
    IF plan # NULL /\ plan.status = "active" /\ missed \cup new # {}
    THEN [op |-> "reconcile", was |-> [t \in missed |-> instances[t]], new |-> new,
          overtaken |-> FALSE]
    ELSE NULL]

\* Mutant: every instance whose time has passed is marked missed.
BeginReconcileAll(s) ==
  /\ Reconcile(s, {t \in Times : instances[t] # NULL /\ t < now},
               {t \in Occurrences(plan.schedule) : instances[t] = NULL})
  /\ UNCHANGED <<rows, now, history>>

\* reconcile_plan_instances: nothing happens unless the plan is active.
BeginReconcile(s) ==
  /\ Reconcile(s, {t \in Times : instances[t] = "scheduled" /\ t < now},
               {t \in Occurrences(plan.schedule) : instances[t] = NULL})
  /\ UNCHANGED <<rows, now, history>>

\* The routes that read a plan write as well.
ListPlans(s)     == session[s] = NULL /\ BeginReconcile(s)
GetPlan(s)       == session[s] = NULL /\ BeginReconcile(s)
ListInstances(s) == session[s] = NULL /\ BeginReconcile(s)

\* What a change that leaves the plan active does before it answers.
ReconcileChanged(s) == session[s] = Due /\ BeginReconcile(s)

CommitReconcile(s) ==
  LET r == session[s]
  IN  /\ r # NULL /\ r.op = "reconcile"
      /\ \A t \in r.new : instances[t] = NULL
      /\ instances' = [t \in Times |-> IF t \in DOMAIN r.was THEN "missed"
                                       ELSE IF t \in r.new THEN "scheduled" ELSE instances[t]]
      /\ overwritten' = overwritten \cup {t \in DOMAIN r.was : instances[t] # r.was[t]}
      /\ session' = [session EXCEPT ![s] = NULL]
      /\ UNCHANGED <<plan, checkins, now, raced>>

\* record_checkin: whatever the plan's status. A status that is as it was read is not
\* written.
BeginCheckin(s) ==
  \E t \in Times, status \in Answers :
    /\ session[s] = NULL
    /\ instances[t] # NULL
    /\ session' = [session EXCEPT ![s] = [op |-> "checkin", time |-> t, status |-> status,
                                          was |-> instances[t]]]
    /\ UNCHANGED <<rows, now, history>>

CommitCheckin(s) ==
  LET r == session[s]
  IN  /\ r # NULL /\ r.op = "checkin"
      /\ instances' = IF r.status = r.was THEN instances
                      ELSE [instances EXCEPT ![r.time] = r.status]
      /\ checkins' = [checkins EXCEPT ![r.time] = r.status]
      /\ overwritten' = IF r.status = r.was /\ instances[r.time] # r.was
                        THEN overwritten \cup {r.time} ELSE overwritten \ {r.time}
      /\ session' = [session EXCEPT ![s] = NULL]
      /\ UNCHANGED <<plan, now, raced>>

\* The database refuses what a unique constraint forbids, or the request dies: what
\* it had not committed is lost.
Rollback(s) ==
  /\ session[s] # NULL
  /\ session' = [session EXCEPT ![s] = NULL]
  /\ UNCHANGED <<rows, now, history>>

Tick ==
  /\ now < MaxTime
  /\ now' = now + 1
  /\ UNCHANGED <<rows, session, history>>

---------------------------------------------------------------------------
Init ==
  /\ plan = NULL
  /\ instances = [t \in Times |-> NULL] /\ checkins = [t \in Times |-> NULL]
  /\ session = [s \in Sessions |-> NULL]
  /\ now = 0
  /\ raced = FALSE /\ overwritten = {}

Next ==
  \/ Tick
  \/ \E s \in Sessions :
       \/ CreatePlan(s) \/ BeginUpdate(s) \/ BeginActivate(s) \/ BeginPause(s) \/ BeginArchive(s)
       \/ CommitPlan(s)
       \/ ListPlans(s) \/ GetPlan(s) \/ ListInstances(s)
       \/ ReconcileChanged(s) \/ CommitReconcile(s)
       \/ BeginCheckin(s) \/ CommitCheckin(s)
       \/ Rollback(s)

Spec == Init /\ [][Next]_vars

---------------------------------------------------------------------------
(* Properties                                                              *)

\* Every variable holds what the tables and the requests can hold.
TypeOK ==
  /\ plan = NULL \/ plan \in Plan
  /\ instances \in [Times -> InstanceStatus \cup {NULL}]
  /\ checkins \in [Times -> InstanceStatus \cup {NULL}]
  /\ \A s \in Sessions :
       \/ session[s] \in {NULL, Due}
       \/ session[s].op = "plan" /\ {session[s].was, session[s].next} \subseteq Plan
       \/ session[s].op = "reconcile" /\ DOMAIN session[s].was \cup session[s].new \subseteq Times
       \/ session[s].op = "checkin" /\ session[s].status \in InstanceStatus
  /\ now \in 0..MaxTime /\ raced \in BOOLEAN /\ overwritten \subseteq Times

\* A plan is active only with people and a complete schedule, through every order of
\* updates, activations, pauses and archivals, unless the transaction that wrote it
\* last was overtaken by another (update_plan, activate_plan check what they read).
ActiveComplete ==
  plan # NULL /\ plan.status = "active" /\ ~raced => MissingFields(plan) = {}

\* What the last check-in said of an instance stands, but that one put back to
\* "scheduled" is missed in time, unless an overlapping request wrote over it
\* (record_checkin against reconcile_plan_instances).
CheckinStands ==
  \A t \in Times :
    checkins[t] # NULL /\ t \notin overwritten =>
      \/ instances[t] = checkins[t]
      \/ checkins[t] = "scheduled" /\ instances[t] = "missed"
=============================================================================
