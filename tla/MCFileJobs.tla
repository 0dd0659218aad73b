----------------------------- MODULE MCFileJobs -----------------------------
(***************************************************************************)
(* The files of a family: the documents and the jobs that index them, what *)
(* a search makes of them, and the notes of the inbox. In a behaviour one  *)
(* of the three runs, and the variables of the others stay as they began.  *)
(*   - jobs: one document of two texts, two requests or scans, two runs of *)
(*     the job;                                                            *)
(*   - search: two paths, and two texts of which one is closer to the      *)
(*     query and a stray embedding lies between them;                      *)
(*   - inbox: a dashboard note and an upload that may also be in the       *)
(*     legacy folder, a run of the portal and one of the script.           *)
(***************************************************************************)
EXTENDS FileJobs, TLC

CONSTANTS
  Notes, Dashboard, Older, Filers, Portals, Names, Listings, Edits(_), \* of the inbox
  none, a, b, Paths, Contents, Owners, Calls,     \* of the search
  Near(_), Words(_), Weight(_), Stray, Nearby

VARIABLES
  part,
  rows, cuts, tx,                      \* SearchIndex
  fs, edits, tagged, filing, disturbed \* FileInbox

searchVars == <<rows, cuts, tx>>
inboxVars == <<fs, edits, tagged, filing, disturbed>>

MCNear(x) == CASE x = a -> 8 [] x = b -> 4 [] OTHER -> 0
MCWords(x) == IF x = none THEN 0 ELSE 1
MCWeight(x) == 7

Search == INSTANCE SearchIndex WITH
  Texts <- Contents, NoText <- none, Sessions <- Calls, Limit <- Nearby, chunks <- cuts

ASSUME SearchAssumption == Search!SearchIndexAssumption

\* A note of the portal is written and edited once, an upload never edited.
MCEdits(n) == IF n \in Dashboard THEN 2 ELSE 1

Inbox == INSTANCE FileInbox WITH
  Files <- Notes, Rewritable <- Dashboard, Legacy <- Older, Runs <- Filers,
  Portal <- Portals, Slots <- Names, MaxListed <- Listings,
  MaxEdits <- [n \in Notes |-> Edits(n)], run <- filing

ASSUME InboxAssumption == Inbox!FileInboxAssumption

MCInit ==
  /\ part \in {"jobs", "search", "inbox"}
  /\ Init /\ Search!Init /\ Inbox!Init
  /\ part # "inbox" => \A n \in Notes : edits[n] = NULL

MCNext ==
  \/ part = "jobs"   /\ Next /\ UNCHANGED <<part, searchVars, inboxVars>>
  \/ part = "search" /\ Search!Next /\ UNCHANGED <<part, vars, inboxVars>>
  \/ part = "inbox"  /\ Inbox!Next /\ UNCHANGED <<part, vars, searchVars>>

MCSpec == MCInit /\ [][MCNext]_<<part, vars, searchVars, inboxVars>>

Symmetry == Permutations(Paths) \cup Permutations(Owners) \cup Permutations(Calls)

\* A dashboard note that overlaps have disturbed is followed while it is one note and
\* the others are undisturbed.
Watched ==
  \A n \in Dashboard \cap disturbed :
    /\ disturbed = {n}
    /\ edits[n] # NULL
    /\ Cardinality({x \in Inbox!Places : fs[x] # NULL /\ fs[x].file = n}) = 1

\* The chunks that a search finds are cut from the text of the row, but for overlapping
\* calls on its path.
ChunksMatchRow == Search!ChunksMatchRow

\* Of two documents that differ only in how close they are to the query the closer one is
\* found first.
CloserComesFirst == part = "search" => Search!TypeOK /\ Search!CloserComesFirst

\* A note that nobody disturbed is in one place and says what people last wrote or, of a
\* dashboard note, what a model made of just that, through runs that overlap, take the
\* same names, replay, migrate and die.
NotesKept == TypeOK /\ (part = "inbox" => Inbox!TypeOK /\ Inbox!NotesKept)

\* The migration loses no note: it skips those that are in conflict (the tests of
\* nextcloud_para_agent).
MigrationKeeps == Inbox!MigrationKeeps
=============================================================================
