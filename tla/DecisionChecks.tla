--------------------------- MODULE DecisionChecks ---------------------------
(***************************************************************************)
(* The worker's jobs about one family's decisions and roadmap: the daily   *)
(* reminder of what is due soon and the health check. A job takes a        *)
(* snapshot from the decision API and asks questions, each under a key     *)
(* that makes asking again a refresh; every call may fail, and a job may   *)
(* not run at all. Meanwhile the family plans, scores, changes its goals   *)
(* and answers, and days pass.                                             *)
(*                                                                         *)
(* Left out: the words of the questions and the events told beside them.   *)
(***************************************************************************)
EXTENDS Integers, FiniteSets

CONSTANTS
  Items,       \* roadmap items
  Decisions,
  LastDay,     \* bound: days are counted to here, later ones are alike
  Dues,        \* dates the family gives
  Scores,      \* weighted totals and thresholds
  NULL

Days == 0 .. LastDay

Item == [due : Dues, final : BOOLEAN]
Decision == [active : BOOLEAN, target : Dues \cup {NULL}, score : Scores \cup {NULL}]
Key ==
  {<<kind, i, d>> : kind \in {"due", "overdue"}, i \in Items, d \in Dues}
    \cup {<<"target", x, d>> : x \in Decisions, d \in Dues}
    \cup {<<"threshold", x, t>> : x \in Decisions, t \in Scores}
    \cup {<<"recheck", NULL, d>> : d \in Days}
Run == [job : {"reminder", "check"}, today : Days, todo : SUBSET Key, active : BOOLEAN,
        goals : BOOLEAN, failed : BOOLEAN]

\* NULL stands for a row, a date, a score or a job that is not there.
DaysAssumption == LastDay \in Nat /\ Dues \subseteq Days /\ NULL \notin Run

VARIABLES
  day,
  items,     \* item -> NULL or its date and whether its status is final
  decisions, \* decision -> is it active, its target date, its latest score
  threshold,
  counted,   \* NULL or the last day on which changes of goals were recorded
  open,      \* keys of the questions that wait for an answer
  run,       \* NULL or the job that runs
  begun,     \* has the reminder been started today?
  missed,    \* lead days without a reminder that asked all it had to (history, to 3)
  known,     \* item -> the day it was last changed (history)
  asked      \* keys of the questions ever asked (history)

family == <<items, decisions, threshold, counted>>
vars == <<day, family, open, run, begun, missed, known, asked>>

TypeOK ==
  /\ day \in Days /\ counted \in Days \cup {NULL} /\ begun \in BOOLEAN
  /\ items \in [Items -> Item \cup {NULL}]
  /\ decisions \in [Decisions -> Decision]
  /\ threshold \in Scores
  /\ open \subseteq asked /\ asked \subseteq Key
  /\ run # NULL => DOMAIN run = {"job", "today", "todo", "active", "goals", "failed"}
                   /\ run.todo \subseteq Key /\ run.today <= day
  /\ missed \in 0 .. 3
  /\ known \in [Items -> Days]

---------------------------------------------------------------------------
(* What the family does                                                    *)

Plan ==
  /\ \E i \in Items, new \in Item \cup {NULL} :
       items' = [items EXCEPT ![i] = new] /\ known' = [known EXCEPT ![i] = day]
  /\ UNCHANGED <<day, decisions, threshold, counted, open, run, begun, missed, asked>>

Decide ==
  /\ \E x \in Decisions, new \in Decision : decisions' = [decisions EXCEPT ![x] = new]
  /\ UNCHANGED <<day, items, threshold, counted, open, run, begun, missed, known, asked>>

SetThreshold ==
  /\ threshold' \in Scores
  /\ UNCHANGED <<day, items, decisions, counted, open, run, begun, missed, known, asked>>

\* A changed goal is committed first; what the checks count is a second transaction.
ChangeGoals ==
  /\ counted' = day
  /\ UNCHANGED <<day, items, decisions, threshold, open, run, begun, missed, known, asked>>

Answer ==
  /\ \E k \in open : open' = open \ {k}
  /\ UNCHANGED <<day, family, run, begun, missed, known, asked>>

Sooner(n) == IF n < 3 THEN n + 1 ELSE n

\* A day on which some item is to be asked about.
LeadDay == \E i \in Items : items[i] # NULL /\ items[i].due - day \in {7, 3, 1}

\* Midnight, UTC. A reminder not started before has missed the day.
NextDay ==
  /\ day < LastDay
  /\ day' = day + 1
  /\ begun' = FALSE
  /\ missed' = IF begun \/ ~LeadDay THEN missed ELSE Sooner(missed)
  /\ UNCHANGED <<family, open, run, known, asked>>

---------------------------------------------------------------------------
(* The jobs: send_due_soon_summary, run_decision_health_checks             *)

\* Mutant: the last of the days is left out.
LeadsButLast == {7, 3}

\* How many days before it is due an item is asked about.
Leads == {7, 3, 1}

\* A reminder does not look at the status.
Reminders(today) ==
  {<<"due", i, items[i].due>> : i \in {j \in Items : items[j] # NULL /\ items[j].due - today \in Leads}}

\* Mutant: an item is overdue on the day after its date.
OverdueOn(today) ==
  {<<"overdue", i, items[i].due>> :
     i \in {j \in Items : items[j] # NULL /\ ~items[j].final /\ items[j].due = today - 1}}

Overdue(today) ==
  {<<"overdue", i, items[i].due>> :
     i \in {j \in Items : items[j] # NULL /\ ~items[j].final /\ items[j].due < today}}

Active == {x \in Decisions : decisions[x].active}

NearTarget(today) ==
  {<<"target", x, decisions[x].target>> :
     x \in {y \in Active : decisions[y].target # NULL /\ decisions[y].target - today <= 3}}

BelowThreshold ==
  {<<"threshold", x, threshold>> :
     x \in {y \in Active : decisions[y].score # NULL /\ decisions[y].score < threshold}}

\* A job takes the date and a snapshot.
Start(job) ==
  /\ run = NULL
  /\ run' = [job |-> job, today |-> day, active |-> Active # {},
             goals |-> job = "check", failed |-> FALSE,
             todo |-> IF job = "reminder" THEN Reminders(day)
                      ELSE Overdue(day) \cup NearTarget(day) \cup BelowThreshold]

\* Once a day.
StartReminder ==
  /\ ~begun
  /\ Start("reminder")
  /\ begun' = TRUE
  /\ UNCHANGED <<day, family, open, missed, known, asked>>

\* Twice a day, and once a week more.
StartCheck ==
  /\ Start("check")
  /\ UNCHANGED <<day, family, open, begun, missed, known, asked>>

\* The key of an open question refreshes it; one that was answered is asked anew.
Ask(k) ==
  /\ run # NULL /\ k \in run.todo
  /\ open' = open \cup {k}
  /\ asked' = asked \cup {k}
  /\ run' = [run EXCEPT !.todo = @ \ {k}]
  /\ UNCHANGED <<day, family, begun, missed, known>>

AskFails(k) ==
  /\ run # NULL /\ k \in run.todo
  /\ run' = [run EXCEPT !.todo = @ \ {k}, !.failed = TRUE]
  /\ UNCHANGED <<day, family, open, begun, missed, known, asked>>

\* The changes of goals recorded since the job's midnight; a count that cannot be had is 0.
CountGoals ==
  /\ run # NULL /\ run.todo = {} /\ run.goals
  /\ \E answered \in BOOLEAN :
       run' = [run EXCEPT !.goals = FALSE,
                 !.todo = IF answered /\ run.active /\ counted # NULL /\ counted >= run.today
                          THEN {<<"recheck", NULL, run.today>>} ELSE {}]
  /\ UNCHANGED <<day, family, open, begun, missed, known, asked>>

End ==
  /\ run # NULL /\ run.todo = {} /\ ~run.goals
  /\ run' = NULL
  /\ missed' = IF run.job = "reminder" /\ run.failed THEN Sooner(missed) ELSE missed
  /\ UNCHANGED <<day, family, open, begun, known, asked>>

\* The worker stops, or a call that a job cannot do without fails: the rest is not asked.
GiveUp ==
  /\ run # NULL
  /\ run' = NULL
  /\ missed' = IF run.job = "reminder" THEN Sooner(missed) ELSE missed
  /\ UNCHANGED <<day, family, open, begun, known, asked>>

---------------------------------------------------------------------------
Init ==
  /\ day = 0
  /\ items = [i \in Items |-> NULL]
  /\ decisions = [x \in Decisions |-> [active |-> TRUE, target |-> NULL, score |-> NULL]]
  /\ threshold \in Scores
  /\ counted = NULL
  /\ open = {}
  /\ run = NULL
  /\ begun = FALSE
  /\ missed = 0
  /\ known = [i \in Items |-> 0]
  /\ asked = {}

Next ==
  \/ Plan \/ Decide \/ SetThreshold \/ ChangeGoals \/ Answer \/ NextDay
  \/ StartReminder \/ StartCheck \/ CountGoals \/ End \/ GiveUp
  \/ \E k \in Key : Ask(k) \/ AskFails(k)

Spec == Init /\ [][Next]_vars

\* The checks keep being started, go on and end, and the question of an overdue item is not
\* refused for ever.
Asking == \E k \in Key : Ask(k) \/ AskFails(k)

Fairness ==
  /\ WF_vars(StartCheck) /\ WF_vars(Asking) /\ WF_vars(CountGoals) /\ WF_vars(End)
  /\ \A i \in Items, d \in Dues : SF_vars(Ask(<<"overdue", i, d>>))

FairSpec == Spec /\ Fairness

\* An item whose date was set more than a week ahead and then left has been asked about
\* before it is due, unless the reminder did not run on the three days or failed as often
\* (send_due_soon_summary: the item is asked about on three days, each time it is seen).
Reminded ==
  \A i \in Items :
    /\ items[i] # NULL /\ known[i] < items[i].due - 7 /\ day >= items[i].due
    /\ missed < 3
    /\ run = NULL
    => <<"due", i, items[i].due>> \in asked

\* An unfinished item that stays past its date comes to be asked about, whatever checks fail,
\* stop or do not run on the way (run_decision_health_checks).
OverdueAsked ==
  \A i \in Items, d \in Dues :
    (items[i] = [due |-> d, final |-> FALSE] /\ d < day)
      ~> (<<"overdue", i, d>> \in open \/ items[i] # [due |-> d, final |-> FALSE])

=============================================================================
