------------------------------ MODULE TaskChecks ------------------------------
(***************************************************************************)
(* The worker's job about the tasks kept in Vikunja: the decision API      *)
(* reads all projects and lists what it finds, so many of each kind, and   *)
(* the job asks one question for each of the first findings. What is left  *)
(* out of one run has its turn when what was asked is dealt with.          *)
(*                                                                         *)
(* Every family is asked about the same tasks: one of them is modelled.    *)
(* Left out: tasks taken for noise, the counts shown beside the findings   *)
(* and the events told for each.                                           *)
(***************************************************************************)
EXTENDS Integers, Sequences, FiniteSets

CONSTANTS
  Tasks,       \* 1..n, in the order in which projects and their tasks are read
  Members,
  Projects,
  ProjectOf,   \* task -> its project
  KindCap,     \* findings of a kind (10)
  AskedCap,    \* findings a run asks about (20)
  OverloadAt,  \* open tasks that are too many for one member
  RiskAt,      \* overdue tasks that put a project at risk (3)
  Dues,        \* due dates the family gives a task, as seen from the day it does
  Ages,        \* bound: does a task become stale?
  NULL

TasksAssumption ==
  /\ Tasks = 1 .. Cardinality(Tasks)
  /\ ProjectOf \in [Tasks -> Projects]
  /\ {KindCap, AskedCap} \subseteq Nat
  /\ Dues \subseteq {"none", "later", "soon"} /\ FALSE \in Ages /\ Ages \subseteq BOOLEAN

VARIABLES
  tasks,  \* task -> its due date as seen from now, is it stale, is it done, who does it
  open,   \* keys of the questions that wait for an answer
  run     \* NULL or the findings the job has still to ask about

vars == <<tasks, open, run>>

Task == [due : {"none", "later", "soon", "past"}, stale : BOOLEAN, done : BOOLEAN,
         who : Members \cup {NULL}]
Key == ({"overdue", "soon", "stale"} \X Tasks) \cup ({"overload"} \X Members)
         \cup ({"risk"} \X Projects)

TypeOK ==
  /\ tasks \in [Tasks -> Task]
  /\ open \subseteq Key
  /\ run # NULL => run \in Seq(Key) /\ Len(run) <= AskedCap

---------------------------------------------------------------------------
(* What the family and time do                                             *)

Change(t, new) == tasks' = [tasks EXCEPT ![t] = new] /\ UNCHANGED <<open, run>>

Finish(t) == ~tasks[t].done /\ Change(t, [tasks[t] EXCEPT !.done = TRUE])

\* An edit is an update: the task is not stale any more.
Edit(t) ==
  \E due \in Dues, who \in Members \cup {NULL} :
    Change(t, [tasks[t] EXCEPT !.due = due, !.who = who, !.stale = FALSE])

Later(due) == CASE due = "later" -> "soon" [] due = "soon" -> "past" [] OTHER -> due

Age(t) == \E stale \in {tasks[t].stale} \cup (Ages \ {FALSE}) :
            Change(t, [tasks[t] EXCEPT !.due = Later(@), !.stale = stale])

Answer(k) == k \in open /\ open' = open \ {k} /\ UNCHANGED <<tasks, run>>

---------------------------------------------------------------------------
(* latest_task_health_snapshot                                             *)

First(s, n) == SubSeq(s, 1, IF Len(s) < n THEN Len(s) ELSE n)

Keyed(kind, s) == [n \in DOMAIN s |-> <<kind, s[n]>>]

InOrder == [n \in Tasks |-> n]

\* Mutant: a finished task stays overdue.
OverdueEvenDone == SelectSeq(InOrder, LAMBDA t : tasks[t].due = "past")

Overdue == SelectSeq(InOrder, LAMBDA t : ~tasks[t].done /\ tasks[t].due = "past")
DueSoon == SelectSeq(InOrder, LAMBDA t : ~tasks[t].done /\ tasks[t].due = "soon")
Stale == SelectSeq(InOrder, LAMBDA t : ~tasks[t].done /\ tasks[t].stale)

Load(m) == Cardinality({t \in Tasks : ~tasks[t].done /\ tasks[t].who = m})

\* Members with too much to do, the busiest first.
Overloaded ==
  LET busy == {m \in Members : Load(m) >= OverloadAt}
  IN  CHOOSE s \in [1..Cardinality(busy) -> busy] :
        \A i, j \in DOMAIN s : i < j => s[i] # s[j] /\ Load(s[i]) >= Load(s[j])

AtRisk ==
  LET late(p) == Cardinality({n \in DOMAIN Overdue : ProjectOf[Overdue[n]] = p})
      risky == {p \in Projects : late(p) >= RiskAt}
  IN  CHOOSE s \in [1..Cardinality(risky) -> risky] : \A i, j \in DOMAIN s : i # j => s[i] # s[j]

Findings ==
  Keyed("overdue", First(Overdue, KindCap)) \o Keyed("soon", First(DueSoon, KindCap))
    \o Keyed("stale", First(Stale, KindCap)) \o Keyed("overload", Overloaded)
    \o Keyed("risk", AtRisk)

---------------------------------------------------------------------------
(* run_task_health_checks                                                  *)

Start ==
  /\ run = NULL
  /\ run' = First(Findings, AskedCap)
  /\ UNCHANGED <<tasks, open>>

\* A question that is open is refreshed.
Ask ==
  /\ run # NULL /\ run # <<>>
  /\ open' = open \cup {Head(run)}
  /\ run' = Tail(run)
  /\ UNCHANGED tasks

\* The question service does not take it: the job goes on.
AskFails ==
  /\ run # NULL /\ run # <<>>
  /\ run' = Tail(run)
  /\ UNCHANGED <<tasks, open>>

\* At its end, or when the worker stops.
End == run # NULL /\ run' = NULL /\ UNCHANGED <<tasks, open>>

---------------------------------------------------------------------------
Init ==
  /\ tasks \in [Tasks -> {t \in Task : ~t.stale /\ ~t.done /\ t.due \in Dues}]
  /\ open = {}
  /\ run = NULL

Next ==
  \/ \E t \in Tasks : Finish(t) \/ Edit(t) \/ Age(t)
  \/ \E k \in Key : Answer(k)
  \/ Start \/ Ask \/ AskFails \/ End

Spec == Init /\ [][Next]_vars

Asking(t) == Ask /\ Head(run) = <<"overdue", t>>

\* The job keeps being started and does not for ever stop before, or fail at, a question it
\* has; the family does not leave all the tasks it is asked about unfinished for ever.
Finishing == \E t \in Tasks : <<"overdue", t>> \in open /\ Finish(t)

Fairness ==
  /\ WF_vars(Start)
  /\ WF_vars(Ask \/ AskFails \/ End)
  /\ \A t \in Tasks : SF_vars(Asking(t))
  /\ SF_vars(Finishing)

FairSpec == Spec /\ Fairness

\* A task that stays overdue comes to be asked about, however many others are before it: those
\* are asked about first, and when they are finished its turn comes
\* (latest_task_health_snapshot: so many findings of a kind, in the order of the projects).
OverdueHeard ==
  \A t \in Tasks :
    (~tasks[t].done /\ tasks[t].due = "past")
      ~> (<<"overdue", t>> \in open \/ tasks[t].done \/ tasks[t].due # "past")
=============================================================================
