SPECIFICATION MCSpec
CONSTANTS
  Goals = {g1}
  Posted = {"Done"}
  GoalStates = {"active", "paused"}
  MaxRevision = 1
  Persons = {p1, p2}
  Decisions = {d1}
  Sessions = {s1, s2}
  Allowances = {0, 1}
  PeriodDays = 2
  NULL = NULL
  Days = {0, 1, 2}
  MaxPeriods = 2
  MaxItems = 2
  MaxPolicies = 1
  MaxRuns = 1
SYMMETRY Symmetry
CONSTRAINT Narrow
INVARIANTS OverdraftBounded LedgerBounded ActiveBounded DecisionsAgree
PROPERTIES RunsCoverGoals
CHECK_DEADLOCK FALSE
