SPECIFICATION MCSpec
CONSTANTS
  p1 = p1
  a1 = a1
  a2 = a2
  f1 = f1
  f2 = f2
  Scopes = {math, music}
  Keys = {k1}
  Worker = worker
  MaxRecords = 2
  MaxEvents = 1
  MaxFailures = 1
  MaxCrashes = 0
  Persons = {p1}
  Assistants = {a1, a2}
  Inboxes = {a1}
  Openings <- MCOpenings
  Invitations <- MCInvitations
  Sessions = {s1, s2}
  NULL = NULL
  MaxChats = 2
  MaxParts = 4
  MaxMessages = 3
  MaxRuns = 2
  MaxProposals = 1
  MaxRestarts = 1
SYMMETRY Symmetry
CONSTRAINTS Upset Eventful
INVARIANTS ConversationsHold EducationAgrees PagesAgree
CHECK_DEADLOCK FALSE
