SPECIFICATION MCSpec
CONSTANTS
  NULL = NULL
  Items = {item}
  Decisions = {}
  LastDay = 9
  Dues = {8}
  Scores = {1}
  Persons = {ann}
  Edits <- SomeEdits
  Answers = {"done", "scheduled"}
  Sessions = {s1, s2}
  Window = 1
  Week = 2
  MaxTime = 2
  Ids = {i1, i2}
  Keys = {k1, k2}
  TaskKeys = {k1, k2}
  DomainOf <- OneDomain
  Topics = {"invoice"}
  Ranks = {1}
  Channels = {"discord_dm"}
  Tokens = {t1, t2}
  LeaseMax = 1
  ExpiryMax = 0
  Cooldown = 0
  PostAnswer = 0
  StaleAsked = 0
  StalePending = 2
  MergeLimit = 1
  TaskAutoCap = 1
  MaxAsked = 1
  TopicInputs = {"invoice"}
  LeaseInputs = {1}
  ExpiryInputs <- NoExpiry
  BackdateInputs = {0}
  PatchStatusInputs <- PatchesTo
SYMMETRY Symmetry
CONSTRAINT Unexcused
INVARIANTS TypeOK LeaseMutex LeaseHonoured ClaimsBounded AskedCountsAttempts Reminded PlansHold
CHECK_DEADLOCK FALSE
