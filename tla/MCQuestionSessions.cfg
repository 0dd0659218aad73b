SPECIFICATION Spec
CONSTANTS
  NULL = NULL
  Ids = {i1}
  Keys = {k1}
  TaskKeys = {k1}
  DomainOf <- OneDomain
  Topics = {"invoice"}
  Ranks = {1}
  Channels = {"discord_dm"}
  Tokens = {t1, t2}
  Sessions = {s1, s2}
  LeaseMax = 0
  ExpiryMax = 0
  Cooldown = 0
  PostAnswer = 0
  StaleAsked = 0
  StalePending = 1
  MergeLimit = 2
  MaxAsked = 1
  LeaseInputs = {0}
  ExpiryInputs = {0}
  PatchStatusInputs <- PatchesTo
SYMMETRY Symmetry
INVARIANT SessionsAgree
CHECK_DEADLOCK FALSE
