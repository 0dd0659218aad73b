SPECIFICATION MCSpec
CONSTANTS
  NULL = NULL
  GONE = GONE
  UNREADABLE = UNREADABLE
  Tasks = {t1}
  MaxTime = 2
  Lookback = 1
  HookIds = {1, 2, 3}
  Runs = {r1, r2}
  MaxCalls = 1
  Events = {e1, e2, bad}
  Invalid = {bad}
  Published = {e1, bad}
  Posted = {e1, e2}
  Workers = {w1}
  Callers = {c1}
  StreamMax = 2
  BatchMax = 2
  MaxRestarts = 1
  MaxFailures = 1
CONSTRAINT Focus
INVARIANTS IngestInv AckedSettled CreatedIsStored SweepsMissNothing ReadersAgree
PROPERTIES StoreImplementsLog OneHookLeft
CHECK_DEADLOCK FALSE
