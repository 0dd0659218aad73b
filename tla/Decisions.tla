------------------------------ MODULE Decisions ------------------------------
(***************************************************************************)
(* One decision of a family in the decision-system API and the goals it is *)
(* scored against (routers/decisions.py, routers/goals.py): creation,      *)
(* changes, deletion, scoring, its place in the queue, its status.         *)
(*                                                                         *)
(* A request reads when it begins and writes when it commits; there are no *)
(* row locks, an UPDATE names the columns that changed, and requests run   *)
(* in threads. Scoring reads the family's goals and the person's goals in  *)
(* two statements, each of which sees what is committed by then.           *)
(*                                                                         *)
(* Abstractions: the person a decision is for and the owner of a person's  *)
(* goals are one; of a decision's text only the goal policy, of a goal's   *)
(* the scope and the status are kept; weights, scores and the threshold    *)
(* are a choice of the outcome; visibility and roles let requests through; *)
(* the memory document, the family event and the agent event that follow a *)
(* commit on a best effort are read by nothing here.                       *)
(***************************************************************************)
EXTENDS Integers, Sequences

CONSTANTS
  Goals,
  Chosen,      \* statuses that POST status is asked for
  GoalStates,  \* statuses that goals are given
  Sessions,    \* requests that may be in progress at once
  MaxRevision, \* bound: revisions of a goal and versions of the decision
  MaxRuns,     \* bound: score runs
  NULL

DecisionStatus == {"Draft", "Scored", "Queued", "Needs-Work", "Discretionary-Approved",
                   "Rejected", "Scheduled", "In-Progress", "Done", "Archived"}
Scopes     == {"family", "person"}
Policies   == {"family_only", "family_plus_person"}
GoalStatus == {"active", "paused", "completed", "archived"}
Revisions  == 1..MaxRevision + 1

VARIABLES
  goals,    \* goal -> NULL or its row
  decision, \* NULL or its row
  item,     \* whether the decision has a row in the queue
  runs,     \* its score runs, with their components
  session,  \* per request NULL or what it is doing
  raced,    \* goals, and "decision", written by a transaction that another overtook (history)
  loose     \* the status was last written without the queue, or by such a transaction (history)

vars == <<goals, decision, item, runs, session, raced, loose>>

Goal     == [scope : Scopes, status : GoalStatus, deleted : BOOLEAN, revision : Revisions]
Decision == [policy : Policies, status : DecisionStatus, deleted : BOOLEAN, version : Revisions]

\* A row is not the absence of one.
DecisionsAssumption ==
  /\ Chosen \subseteq DecisionStatus /\ GoalStates \subseteq GoalStatus
  /\ MaxRevision \in Nat /\ MaxRuns \in Nat
  /\ NULL \notin Goal \cup Decision

---------------------------------------------------------------------------
(* Goals                                                                   *)

\* The columns that a transaction changed, over the row as it is by now.
Merged(was, next, is) ==
  [c \in DOMAIN next |-> IF next[c] # was[c] THEN next[c] ELSE is[c]]

\* The other transactions on x are overtaken by a commit of s; to one that scores, x is
\* a goal that moved.
Overtake(s, x) ==
  [t \in Sessions |->
     IF t = s THEN NULL
     ELSE IF session[t] = NULL THEN NULL
     ELSE IF session[t].op = "goal" /\ session[t].goal = x
          THEN [session[t] EXCEPT !.overtaken = TRUE]
     ELSE IF session[t].op = "decision" /\ x = "decision"
          THEN [session[t] EXCEPT !.overtaken = TRUE]
     ELSE IF session[t].op = "score"
          THEN [session[t] EXCEPT !.overtaken = @ \/ x = "decision", !.moved = @ \cup {x}]
     ELSE session[t]]

\* Request s begins to change goal g from what it reads to next.
BeginGoal(s, g, next) ==
  /\ session[s] = NULL
  /\ goals[g].revision <= MaxRevision
  /\ session' = [session EXCEPT ![s] = [op |-> "goal", goal |-> g, was |-> goals[g], next |-> next,
                                        overtaken |-> FALSE]]
  /\ UNCHANGED <<goals, decision, item, runs, raced, loose>>

\* A row that is inserted is seen by nobody before its commit.
CreateGoal ==
  \E g \in Goals, scope \in Scopes, status \in GoalStates :
    /\ goals[g] = NULL
    /\ goals' = [goals EXCEPT ![g] = [scope |-> scope, status |-> status, deleted |-> FALSE,
                                     revision |-> 1]]
    /\ session' = Overtake(NULL, g)
    /\ UNCHANGED <<decision, item, runs, raced, loose>>

\* A goal after a PATCH that changes something.
Revised(goal, scope, status) ==
  [goal EXCEPT !.scope = scope, !.status = status, !.revision = @ + 1]

\* A PATCH that changes nothing writes the time alone.
UpdateGoal(s) ==
  \E g \in Goals, scope \in Scopes, status \in GoalStates :
    /\ goals[g] # NULL /\ ~goals[g].deleted
    /\ <<scope, status>> # <<goals[g].scope, goals[g].status>>
    /\ BeginGoal(s, g, Revised(goals[g], scope, status))

DeleteGoal(s) ==
  \E g \in Goals :
    /\ goals[g] # NULL /\ ~goals[g].deleted
    /\ BeginGoal(s, g, [goals[g] EXCEPT !.deleted = TRUE, !.status = "archived", !.revision = @ + 1])

CommitGoal(s) ==
  LET r == session[s] g == r.goal
  IN  /\ r # NULL /\ r.op = "goal"
      /\ goals' = [goals EXCEPT ![g] = Merged(r.was, r.next, @)]
      /\ raced' = IF r.overtaken THEN raced \cup {g} ELSE raced
      /\ session' = Overtake(s, g)
      /\ UNCHANGED <<decision, item, runs, loose>>

---------------------------------------------------------------------------
(* The decision                                                            *)

\* What a transaction does with the queue: _upsert_queue_item inserts what it does not
\* find, and a DELETE removes what it finds.
Upsert == IF item THEN "none" ELSE "insert"
Remove == IF item THEN "delete" ELSE "none"

\* Request s begins to change the decision; answers: whether its answer names the last
\* score run; sets: whether it is to set status and queue together, or the status alone.
BeginDecision(s, next, queue, sets, answers) ==
  /\ session[s] = NULL
  /\ session' = [session EXCEPT ![s] = [op |-> "decision", was |-> decision, next |-> next,
                                        queue |-> queue, sets |-> sets, answers |-> answers,
                                        run |-> NULL, overtaken |-> FALSE]]
  /\ UNCHANGED <<goals, decision, item, runs, raced, loose>>

Editable == decision # NULL /\ ~decision.deleted /\ decision.version <= MaxRevision

CreateDecision(s) ==
  \E policy \in Policies :
    /\ decision = NULL /\ session[s] = NULL
    /\ decision' = [policy |-> policy, status |-> "Draft", deleted |-> FALSE, version |-> 1]
    /\ session' = [session EXCEPT ![s] = [op |-> "answer"]]
    /\ UNCHANGED <<goals, item, runs, raced, loose>>

UpdateDecision(s) ==
  \E policy \in Policies :
    /\ Editable /\ policy # decision.policy
    /\ BeginDecision(s, [decision EXCEPT !.policy = policy, !.version = @ + 1], "none", "nothing", TRUE)

\* Mutant: the queue keeps a deleted decision.
DeleteKeepsItem(s) ==
  Editable /\ BeginDecision(s, [decision EXCEPT !.deleted = TRUE, !.status = "Archived"],
                            "none", "both", FALSE)

DeleteDecision(s) ==
  Editable /\ BeginDecision(s, [decision EXCEPT !.deleted = TRUE, !.status = "Archived"],
                            Remove, "both", FALSE)

QueueDecision(s) ==
  Editable /\ BeginDecision(s, [decision EXCEPT !.status = "Queued"], Upsert, "both", FALSE)

\* POST status: any status, whatever the decision's is; the queue is not touched.
UpdateStatus(s) ==
  \E status \in Chosen :
    Editable /\ BeginDecision(s, [decision EXCEPT !.status = status], "none", "status", FALSE)

\* Mutant: a goal counts although it is paused.
ActiveGoalOrPaused(g) == goals[g] # NULL /\ ~goals[g].deleted

\* active_goal_for_scoring
ActiveGoal(g) == goals[g] # NULL /\ ~goals[g].deleted /\ goals[g].status = "active"

\* The goals of a scope that are active now, as they are.
ActiveOf(scope) == {g \in Goals : ActiveGoal(g) /\ goals[g].scope = scope}

\* manual_score_decision begins: the decision and the family's goals are read.
BeginScore(s) ==
  /\ session[s] = NULL /\ Editable /\ Len(runs) < MaxRuns
  /\ session' = [session EXCEPT ![s] =
       [op |-> "score", was |-> decision, moved |-> {}, overtaken |-> FALSE,
        read |-> [g \in ActiveOf("family") |-> goals[g]]]]
  /\ UNCHANGED <<goals, decision, item, runs, raced, loose>>

\* It reads the person's goals if they count, finds that the scores it was given are for
\* exactly the goals it has read, and routes the decision by their weighted sum.
Score(s) ==
  LET r == session[s]
      mine == IF r.was.policy = "family_plus_person" THEN ActiveOf("person") ELSE {}
      scored == [g \in DOMAIN r.read \cup mine |->
                   IF g \in DOMAIN r.read THEN r.read[g] ELSE goals[g]]
  IN  /\ r # NULL /\ r.op = "score"
      /\ \E routed \in {"queue", "needs_work"} :
           session' = [session EXCEPT ![s] =
             [op |-> "decision", was |-> r.was,
              next |-> [r.was EXCEPT !.status = IF routed = "queue" THEN "Queued" ELSE "Needs-Work"],
              queue |-> IF routed = "queue" THEN Upsert ELSE Remove,
              sets |-> "both", answers |-> FALSE, overtaken |-> r.overtaken,
              run |-> [version |-> r.was.version, policy |-> r.was.policy, scored |-> scored]]]
      /\ UNCHANGED <<goals, decision, item, runs, raced, loose>>

\* The commit; a queue row that is there by now is not inserted again (unique decision_id).
CommitDecision(s) ==
  LET r == session[s]
  IN  /\ r # NULL /\ r.op = "decision"
      /\ r.queue = "insert" => ~item
      /\ decision' = Merged(r.was, r.next, decision)
      /\ item' = IF r.queue = "none" THEN item ELSE r.queue = "insert"
      /\ runs' = IF r.run = NULL THEN runs ELSE Append(runs, r.run)
      /\ raced' = IF r.overtaken THEN raced \cup {"decision"} ELSE raced
      /\ loose' = IF r.sets = "both" THEN r.overtaken ELSE loose \/ r.sets = "status"
      /\ session' = [Overtake(s, "decision") EXCEPT ![s] =
           IF r.answers THEN [op |-> "answer"] ELSE NULL]
      /\ UNCHANGED goals

\* _latest_score_run takes scalar_one_or_none of all the runs.
Reading(s) ==
  session' = [session EXCEPT ![s] = IF Len(runs) > 1 THEN [op |-> "failed"] ELSE NULL]

\* GET of the decision: 403 when it is deleted.
GetDecision(s) ==
  /\ session[s] = NULL /\ decision # NULL
  /\ IF decision.deleted THEN UNCHANGED session ELSE Reading(s)
  /\ UNCHANGED <<goals, decision, item, runs, raced, loose>>

\* The answer to a creation or an update.
Answer(s) ==
  /\ session[s] = [op |-> "answer"]
  /\ Reading(s)
  /\ UNCHANGED <<goals, decision, item, runs, raced, loose>>

\* The database refuses, or the process dies: what was not committed is lost. A request
\* that failed ends.
Rollback(s) ==
  /\ session[s] # NULL
  /\ session' = [session EXCEPT ![s] = NULL]
  /\ UNCHANGED <<goals, decision, item, runs, raced, loose>>

---------------------------------------------------------------------------
Init ==
  /\ goals = [g \in Goals |-> NULL]
  /\ decision = NULL /\ item = FALSE /\ runs = <<>>
  /\ session = [s \in Sessions |-> NULL]
  /\ raced = {} /\ loose = FALSE

Next ==
  \/ CreateGoal
  \/ \E s \in Sessions :
    \/ UpdateGoal(s) \/ DeleteGoal(s) \/ CommitGoal(s)
    \/ CreateDecision(s) \/ UpdateDecision(s) \/ DeleteDecision(s)
    \/ QueueDecision(s) \/ UpdateStatus(s) \/ BeginScore(s) \/ Score(s)
    \/ CommitDecision(s)
    \/ GetDecision(s) \/ Answer(s)
    \/ Rollback(s)

Spec == Init /\ [][Next]_vars

---------------------------------------------------------------------------
(* Properties                                                              *)

\* Every row is one the tables can hold, and a score run names goals that were active
\* and of a scope that its policy counts (active_goal_for_scoring).
TypeOK ==
  /\ \A g \in Goals : goals[g] = NULL \/ goals[g] \in Goal
  /\ decision = NULL \/ decision \in Decision
  /\ item \in BOOLEAN /\ loose \in BOOLEAN
  /\ \A i \in 1..Len(runs) : \A g \in DOMAIN runs[i].scored :
       LET goal == runs[i].scored[g]
       IN  /\ goal \in Goal /\ goal.status = "active" /\ ~goal.deleted
           /\ goal.scope = "family" \/ runs[i].policy = "family_plus_person"

\* The goals a decision of this policy is scored against, by what is committed now.
Applicable(policy) ==
  {g \in Goals : goals[g] # NULL /\ ~goals[g].deleted /\ goals[g].status = "active"
       /\ (goals[g].scope = "family" \/ policy = "family_plus_person")}

\* A score run has a component for exactly the goals that apply to the decision, but for
\* those that changed between the two reads of the goals (_applicable_goals).
RunsCoverGoals ==
  [][\A s \in Sessions :
       LET r == session[s]
       IN  r # NULL /\ r.op = "score" /\ session'[s] # NULL /\ session'[s].op = "decision"
             => DOMAIN session'[s].run.scored \ r.moved = Applicable(r.was.policy) \ r.moved]_vars

\* A goal or a decision that still has the revision a score run names is as it was when
\* it was scored, unless overlapping updates gave one revision to two changes
\* (goal_revision and version, the audit trail of a score).
RunsPinRevisions ==
  \A i \in 1..Len(runs) :
    /\ \A g \in DOMAIN runs[i].scored :
         g \notin raced /\ goals[g].revision = runs[i].scored[g].revision
           => goals[g] = runs[i].scored[g]
    /\ "decision" \notin raced /\ decision.version = runs[i].version
         => decision.policy = runs[i].policy

\* The decision is in the queue exactly while its status says so, through scoring,
\* queueing and deletion in any order, unless the status was set by hand or transactions
\* overlapped (_upsert_queue_item and the deletes beside it).
QueueAgrees ==
  decision # NULL /\ ~loose => (item <=> decision.status = "Queued")

\* A decision can be read however often it was scored (_latest_score_run).
ScoredReadable ==
  \A s \in Sessions : session[s] # [op |-> "failed"]
=============================================================================
