------------------------------ MODULE FamilyDna ------------------------------
(***************************************************************************)
(* A family's DNA: one document under a version, changed by patches that   *)
(* are proposed first and committed later. A commit reads the document,    *)
(* applies the patch, and writes the next version with an event that names *)
(* it; the document is written when the commit stores a note about itself, *)
(* which takes the time of a call to the embeddings' provider, and is the  *)
(* writer's until the end of the transaction.                              *)
(*                                                                         *)
(* A document is the set of the patches in it: a patch does not depend on  *)
(* another. Patches with secrets are refused as invalid ones are.          *)
(***************************************************************************)
EXTENDS Integers, FiniteSets

CONSTANTS
  Proposals,
  Commits,   \* calls that can be in progress at a time
  NULL

VARIABLES
  snap,      \* NULL or the document: its version and the patches in it
  status,    \* proposal -> NULL, "proposed" or "committed"
  events,    \* what the history says: proposal and the version it made
  call,      \* call -> NULL or the commit in progress
  overlap    \* have two commits overlapped? (history)

vars == <<snap, status, events, call, overlap>>

Document == [version : Nat, patches : SUBSET Proposals]
Empty == [version |-> 0, patches |-> {}]

DnaAssumption == NULL \notin Document \cup {"proposed", "committed"}

TypeOK ==
  /\ snap # NULL => snap \in Document
  /\ status \in [Proposals -> {NULL, "proposed", "committed"}]
  /\ events \subseteq Proposals \X Nat
  /\ \A c \in Commits : call[c] # NULL =>
       /\ call[c].proposal \in Proposals /\ call[c].read \in Document
       /\ call[c].step \in {"read", "written"}

---------------------------------------------------------------------------
\* GET: a document that is not there yet is stored empty.
GetSnapshot ==
  /\ snap = NULL
  /\ \A c \in Commits : call[c] # NULL /\ call[c].step = "written" => ~call[c].new
  /\ snap' = Empty
  /\ UNCHANGED <<status, events, call, overlap>>

Propose(p) ==
  /\ status[p] = NULL
  /\ status' = [status EXCEPT ![p] = "proposed"]
  /\ UNCHANGED <<snap, events, call, overlap>>

\* Mutant: a proposal is committed whatever its status.
AnyKnown(p) == status[p] # NULL

Committable(p) == status[p] = "proposed"

\* A commit reads the proposal and the document.
BeginCommit(c, p) ==
  /\ call[c] = NULL
  /\ Committable(p)
  /\ call' = [call EXCEPT ![c] = [proposal |-> p, new |-> snap = NULL, step |-> "read",
                                  read |-> IF snap = NULL THEN Empty ELSE snap]]
  /\ overlap' = (overlap \/ \E d \in Commits : call[d] # NULL)
  /\ UNCHANGED <<snap, status, events>>

\* The document is written, after another that is written and not committed; a first one is
\* inserted, which fails when there is one.
WriteDocument(c) ==
  /\ call[c] # NULL /\ call[c].step = "read"
  /\ \A d \in Commits \ {c} : call[d] # NULL => call[d].step = "read"
  /\ call[c].new => snap = NULL
  /\ call' = [call EXCEPT ![c].step = "written"]
  /\ UNCHANGED <<snap, status, events, overlap>>

Commit(c) ==
  /\ call[c] # NULL /\ call[c].step = "written"
  /\ LET p == call[c].proposal
         v == call[c].read.version + 1
     IN  /\ snap' = [version |-> v, patches |-> call[c].read.patches \cup {p}]
         /\ status' = [status EXCEPT ![p] = "committed"]
         /\ events' = events \cup {<<p, v>>}
  /\ call' = [call EXCEPT ![c] = NULL]
  /\ UNCHANGED overlap

\* The patch does not apply, its document is not valid, or the call fails.
Fail(c) ==
  /\ call[c] # NULL
  /\ call' = [call EXCEPT ![c] = NULL]
  /\ UNCHANGED <<snap, status, events, overlap>>

---------------------------------------------------------------------------
Init ==
  /\ snap = NULL
  /\ status = [p \in Proposals |-> NULL]
  /\ events = {}
  /\ call = [c \in Commits |-> NULL]
  /\ overlap = FALSE

Next ==
  \/ GetSnapshot
  \/ \E p \in Proposals : Propose(p) \/ \E c \in Commits : BeginCommit(c, p)
  \/ \E c \in Commits : WriteDocument(c) \/ Commit(c) \/ Fail(c)

Spec == Init /\ [][Next]_vars

Committed == {p \in Proposals : status[p] = "committed"}

\* The document holds the patches of committed proposals only and its version never exceeds
\* the history; while no two commits have overlapped it holds them all, each under its own
\* version, in the history as well (commit_proposal, get_latest_snapshot).
VersionsTell ==
  LET doc == IF snap = NULL THEN Empty ELSE snap
  IN  /\ doc.patches \subseteq Committed
      /\ doc.version <= Cardinality(events)
      /\ ~overlap =>
           /\ doc.patches = Committed
           /\ doc.version = Cardinality(Committed)
           /\ {e[1] : e \in events} = Committed
           /\ {e[2] : e \in events} = 1 .. doc.version
=============================================================================
