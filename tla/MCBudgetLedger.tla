--------------------------- MODULE MCBudgetLedger ---------------------------
(***************************************************************************)
(* The decision-system API about budgets, roadmap, decisions and goals. In *)
(* a behaviour one of two instances runs, and the variables of the other   *)
(* stay as they began.                                                     *)
(*   - ledger: one request at a time, two persons, one of whom may join    *)
(*     late, both days of a short period and a change of the policy; or    *)
(*     two requests at once on the ledger of one person, the policy as it  *)
(*     is, a period and the day after it (Narrow);                         *)
(*   - decisions: two requests on a decision and a goal.                   *)
(***************************************************************************)
EXTENDS BudgetLedger, Sequences, TLC

CONSTANTS
  Goals, Posted, GoalStates,  \* goals; statuses that are asked for
  MaxRevision, MaxRuns  \* bounds: revisions of a goal or the decision, score runs

VARIABLES
  part,
  goals, decision, item, runs, request, raced, loose  \* Decisions

decisionVars == <<goals, decision, item, runs, request, raced, loose>>

Choices == INSTANCE Decisions WITH Chosen <- Posted, session <- request

ASSUME ChoicesAssumption == Choices!DecisionsAssumption

MCInit ==
  /\ part \in {"ledger", "decisions"}
  /\ Init /\ Choices!Init
  /\ part = "decisions" =>
       /\ members = Persons
       /\ \A p \in Persons : policy[p] = CHOOSE n \in Allowances : TRUE

MCNext ==
  \/ part = "ledger"    /\ Next /\ UNCHANGED <<part, decisionVars>>
  \/ part = "decisions" /\ Choices!Next /\ UNCHANGED <<part, vars>>

MCSpec == MCInit /\ [][MCNext]_<<part, vars, decisionVars>>

\* Requests, and persons, are interchangeable.
Symmetry == Permutations(Sessions) \cup Permutations(Persons)

\* Requests one after another are explored for two persons and a change of the policy, on the
\* first and the last day of a period; requests that overlap for one person, on the first day
\* of a period and the day after its last.
Narrow ==
  \/ rivals = 0 /\ day < PeriodDays
  \/ /\ policies = 0 /\ day \in {0, PeriodDays}
     /\ Cardinality(members) = 1 /\ \A p \in Persons \ members : policy[p] = 0

\* A goal or a decision that has the revision a score run names is as it was scored, and the
\* decision is in the queue exactly while its status says so, but for overlapping updates
\* (goal_revision, version, _upsert_queue_item and the deletes beside it).
DecisionsAgree ==
  part = "decisions" => Choices!TypeOK /\ Choices!RunsPinRevisions /\ Choices!QueueAgrees

\* A score run has a component for exactly the goals that apply to the decision, but for
\* those that changed between the two reads of the goals (_applicable_goals).
RunsCoverGoals == Choices!RunsCoverGoals

\* A decision can be read however often it was scored (_latest_score_run).
ScoredReadable == Choices!ScoredReadable
=============================================================================
