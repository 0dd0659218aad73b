----------------------------- MODULE MCHouseholds -----------------------------
(***************************************************************************)
(* A family and what is kept of its persons. In a behaviour one of the     *)
(* instances runs, and the variables of the others stay as they began.     *)
(*   - households: two members, two users of the group, a request and a    *)
(*     synchronisation that overlap, two addresses with one normalised     *)
(*     form (alike) or two forms (apart);                                  *)
(*   - profiles: a person and an edge, two requests that overlap;          *)
(*   - document: two proposals, two commits that overlap;                  *)
(*   - agent: two addresses and two persons, two calls that overlap.       *)
(***************************************************************************)
EXTENDS Households, TLC

CONSTANTS
  dotted, dashed, other, \* addresses
  joint, single,         \* their normalised forms
  Persons, Contents, Edges, Types, MutualTypes, Sessions, \* Profiles
  Proposals, Commits,                                     \* FamilyDna
  Addresses, Owners, States, Calls                        \* AgentSessions

\* The normalised forms: a dot and a dash make no difference.
MCKeyOf == [e \in Emails |-> IF e = other THEN single ELSE joint]

VARIABLES
  part,
  active, row, told, editing, doubtful,  \* Profiles
  snap, status, log, commits, overlap,   \* FamilyDna
  owner, kept, call, latest            \* AgentSessions

profileVars  == <<active, row, told, editing, doubtful>>
documentVars == <<snap, status, log, commits, overlap>>
agentVars    == <<owner, kept, call, latest>>

Records == INSTANCE Profiles WITH session <- editing

Documents == INSTANCE FamilyDna WITH events <- log, call <- commits

Agents == INSTANCE AgentSessions WITH
  Emails <- Addresses, Persons <- Owners, person <- owner, row <- kept, last <- latest

ASSUME RecordsAssumption == Records!ProfilesAssumption
ASSUME SharedAssumption == Documents!DnaAssumption /\ Agents!AgentsAssumption

MCInit ==
  /\ part \in {"alike", "apart", "profiles", "document", "agent"}
  /\ Init /\ Records!Init /\ Documents!Init /\ Agents!Init
  /\ part # "agent" => owner = [e \in Addresses |-> CHOOSE o \in Owners : TRUE]

MCNext ==
  \/ /\ part \in {"alike", "apart"} /\ Next
     /\ UNCHANGED <<part, profileVars, documentVars, agentVars>>
  \/ /\ part = "profiles" /\ Records!Next
     /\ UNCHANGED <<part, vars, documentVars, agentVars>>
  \/ /\ part = "document" /\ Documents!Next
     /\ UNCHANGED <<part, vars, profileVars, agentVars>>
  \/ /\ part = "agent" /\ Agents!Next
     /\ UNCHANGED <<part, vars, profileVars, documentVars>>

MCSpec == MCInit /\ [][MCNext]_<<part, vars, profileVars, documentVars, agentVars>>

\* Bounds. What a decision keeps from being deleted is the question of another run. The
\* group changes between synchronisations: one in progress, the only one, looks at it no
\* more, so that a change during it does as well after it. At a time two addresses are in
\* use, alike or apart; users without one are there when they are alike.
Bounds ==
  LET used == {group[u] : u \in DOMAIN group} \cup {member[m].email : m \in Live}
  IN  /\ ~decided
      /\ \A s \in Syncs : sync[s] # NULL => sync[s].group = group
      /\ IF part = "alike" THEN other \notin used
         ELSE NULL \notin used /\ ~({dotted, dashed} \subseteq used)

\* Users are interchangeable, and so are addresses with one normalised form.
Symmetry ==
  Permutations(Users) \cup Permutations(Addresses)
  \cup {f \in Permutations(Emails) : \A e \in Emails : KeyOf[f[e]] = KeyOf[e]}

\* The last event about a profile or an edge says what its row is, but for requests that
\* overlap and events that are lost (_publish_profile_event).
EventsTellRows == TypeOK /\ (part = "profiles" => Records!TypeOK /\ Records!EventsTellRows)

\* The version of the family document counts its patches but for commits that overlapped,
\* and the session of an agent is what the last call of its own user left in it
\* (commit_proposal, upsert_agent_session).
SharedStateKept ==
  /\ part = "document" => Documents!TypeOK /\ Documents!VersionsTell
  /\ part = "agent" => Agents!TypeOK /\ Agents!StateIsOwn
=============================================================================
