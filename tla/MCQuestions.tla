---------------------------- MODULE MCQuestions ----------------------------
(***************************************************************************)
(* The question queue, and two services that ask the family: the worker    *)
(* about what is due, the planner about what a plan lacks. In a behaviour  *)
(* one of the three runs, and the variables of the others stay as they     *)
(* began.                                                                  *)
(*   - queue: two questions of one topic that may be delivered one at      *)
(*     once. The time thresholds are a few units long and keep the order   *)
(*     of the real ones: a lease ends before the backlog cleanup would     *)
(*     meet the question it is on;                                         *)
(*   - reminder: one item over ten days, every day on which it is asked    *)
(*     about and a day after its date;                                     *)
(*   - plans: one plan, two requests that overlap, a day and a half.       *)
(*     Bodies of PUT: a daily plan for ann, and a draft that keeps the     *)
(*     people and is weekly without weekdays.                              *)
(***************************************************************************)
EXTENDS Questions, TLC

CONSTANTS
  Items, Decisions, LastDay, Dues, Scores,                    \* of the reminder
  Persons, Edits, Answers, Sessions, Window, Week, MaxTime    \* of the plans

VARIABLES
  part,
  day, dues, decisions, threshold, counted, open, run, begun, missed, known, asked,
  plan, instances, checkins, session, now, raced, overwritten

checkVars == <<day, dues, decisions, threshold, counted, open, run, begun, missed, known, asked>>
planVars == <<plan, instances, checkins, session, now, raced, overwritten>>

Checks == INSTANCE DecisionChecks WITH items <- dues

Base   == [frequency |-> "daily", interval |-> 1, weekdays |-> {}, half |-> 0, timezone |-> TRUE,
           excluded |-> {}, start |-> 0, end |-> NULL]
Weekly == [Base EXCEPT !.frequency = "weekly"]
Body(status, schedule, people) == [status |-> status, schedule |-> schedule, people |-> people]

SomeEdits == {Body(NULL, Base, Persons), Body("draft", Weekly, NULL)}

Plans == INSTANCE Planning

ASSUME ChecksAssumption == Checks!DaysAssumption
ASSUME PlansAssumption == Plans!PlanningAssumption

MCInit == part \in {"queue", "reminder", "plans"} /\ Init /\ Checks!Init /\ Plans!Init

MCNext ==
  \/ part = "queue"    /\ Next /\ UNCHANGED <<part, checkVars, planVars>>
  \/ part = "reminder" /\ Checks!Next /\ UNCHANGED <<part, vars, planVars>>
  \/ part = "plans"    /\ Plans!Next /\ UNCHANGED <<part, vars, checkVars>>

MCSpec == MCInit /\ [][MCNext]_<<part, vars, checkVars, planVars>>

OneDomain == [k \in Keys |-> "task"]
Symmetry == Permutations(Ids) \cup Permutations(Tokens) \cup Permutations(Sessions)
NoExpiry == {NULL}
PatchesTo == {NULL, "dismissed"}

\* A reminder missed three times, and a check-in that an overlapping request wrote over,
\* excuse what follows: it is not explored further.
Unexcused == missed < 3 /\ overwritten = {}

\* An item has been asked about before it is due, unless the reminder failed or did not run
\* on three days, or the date came late (send_due_soon_summary).
Reminded == part = "reminder" => Checks!TypeOK /\ Checks!Reminded

\* A plan is active only with people and a complete schedule, and what was last said of an
\* occurrence stands, but for requests that overlap (update_plan, activate_plan,
\* record_checkin, reconcile_plan_instances).
PlansHold ==
  part = "plans" => Plans!TypeOK /\ Plans!ActiveComplete /\ Plans!CheckinStands
=============================================================================
