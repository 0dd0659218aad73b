SPECIFICATION MCSpec
CONSTANTS
  Goals = {g1}
  Posted = {"Done"}
  GoalStates = {"active", "paused"}
  MaxRevision = 1
  Persons = {p1}
  Decisions = {d1}
  Sessions = {s1}
  Allowances = {0}
  PeriodDays = 7
  NULL = NULL
  Days = {0}
  MaxPeriods = 1
  MaxItems = 1
  MaxPolicies = 0
  MaxRuns = 2
INVARIANT ScoredReadable
CHECK_DEADLOCK FALSE
