SPECIFICATION MCSpec
CONSTANTS
  NULL = NULL
  Persons = {ann}
  Contents = {one, two}
  Edges = {edge}
  Types = {"spouse", "parent"}
  MutualTypes = {"spouse"}
  Sessions = {s1, s2}
  Proposals = {patch, rival}
  Commits = {c1, c2}
  Addresses = {bobs, eves}
  Owners = {bob, eve}
  States = {old, new}
  Calls = {d1, d2}
  Users = {u1, u2}
  dotted = dotted
  dashed = dashed
  other = other
  joint = joint
  single = single
  Emails = {dotted, dashed, other}
  Keys = {joint, single}
  KeyOf <- MCKeyOf
  Requests = {r1}
  Syncs = {k1}
  MaxMembers = 2
SYMMETRY Symmetry
CONSTRAINT Bounds
INVARIANTS PersonFollows EventsTellRows SharedStateKept
PROPERTIES SyncMirrors
CHECK_DEADLOCK FALSE
