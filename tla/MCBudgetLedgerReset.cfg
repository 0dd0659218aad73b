SPECIFICATION MCSpec
CONSTANTS
  Goals = {g1}
  Posted = {"Done"}
  GoalStates = {"active", "paused"}
  MaxRevision = 1
  Persons = {p1, p2}
  Decisions = {d1}
  Sessions = {s1}
  Allowances = {0, 1}
  PeriodDays = 7
  NULL = NULL
  Days = {0}
  MaxPeriods = 2
  MaxItems = 2
  MaxPolicies = 0
  MaxRuns = 1
PROPERTY ResetReallocates
CHECK_DEADLOCK FALSE
