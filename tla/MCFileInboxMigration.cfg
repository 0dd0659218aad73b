SPECIFICATION MCSpec
CONSTANTS
  NULL = NULL
  none = none a = a b = b
  Paths = {left, right}
  Contents = {none, a, b}
  Owners = {ann, bob}
  Calls = {one, two}
  Near <- MCNear
  Words <- MCWords
  Weight <- MCWeight
  Stray = 6
  Nearby = 1
  Notes = {note, upload}
  Dashboard = {note}
  Older = {upload}
  Filers = {portal, script}
  Portals = {portal}
  Names = 2
  Listings = 1
  Edits <- MCEdits
  Docs = {d1}
  Texts = {a, b}
  Writers = {w1, w2}
  Runs = {r1, r2}
  Limit = 2
  MaxIndexed = 2
  MaxDeaths = 1
PROPERTY MigrationKeeps
CHECK_DEADLOCK FALSE
