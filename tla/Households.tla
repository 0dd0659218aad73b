----------------------------- MODULE Households -----------------------------
(***************************************************************************)
(* One family of the decision-system API: its members, the persons and     *)
(* addresses that stand for them (services/identity.py), the requests that *)
(* change them (routers/families.py), the deletion of the whole family     *)
(* (services/purge.py) and the synchronisation with the members of its     *)
(* Keycloak group (services/keycloak_sync.py).                             *)
(*                                                                         *)
(* A synchronisation awaits Keycloak between its reads of the database and *)
(* its one commit; a request reads its member, then the member's person,   *)
(* and commits. There are no row locks. A row is refused when another has  *)
(* its key (family and address; family and Keycloak user), an update when  *)
(* its row is gone, a delete while other rows refer to it.                 *)
(*                                                                         *)
(* An account is found by its normalised address, which several addresses  *)
(* may have: a.b@x and a-b@x are one account, of the person that was made  *)
(* sure of last.                                                           *)
(*                                                                         *)
(* Abstractions: a person is named after the member it was made for; of a  *)
(* member the address, the Keycloak user and whether it is an admin are    *)
(* kept; no other family takes an account of this one. Aliases, feature    *)
(* switches, slugs, seeded accounts and events are left out; roles let     *)
(* requests through.                                                       *)
(***************************************************************************)
EXTENDS Integers, FiniteSets

CONSTANTS
  Users,      \* Keycloak users
  Emails,
  Keys,       \* normalised addresses
  KeyOf,      \* address -> its normalised one (normalize_alias)
  Requests,   \* requests that may be in progress at once
  Syncs,      \* synchronisations that may be in progress at once
  MaxMembers, \* bound: members ever made
  NULL

ASSUME HouseholdsAssumption ==
  MaxMembers \in Nat /\ IsFiniteSet(Users) /\ KeyOf \in [Emails -> Keys]

Ids == 1..MaxMembers

VARIABLES
  group,   \* user in the family's Keycloak group -> address, or NULL when it has none
  family,  \* NULL, "keycloak" (made by a synchronisation) or "manual"
  made,    \* members ever made
  member,  \* id -> NULL or its row
  person,  \* id -> NULL or its row
  account, \* normalised address -> NULL or the person it is an account of
  decided, \* whether a person of the family is the author of a decision
  request, \* per request NULL or what it is doing
  sync,    \* per synchronisation NULL or what it is doing
  unseen   \* members no request has looked at since their row, or their person's, was
           \* last written by an overtaken transaction or a synchronisation, or since
           \* their account was made another member's (history)

vars == <<group, family, made, member, person, account, decided, request, sync, unseen>>

Member == [email : Emails, user : Users \cup {NULL}, admin : BOOLEAN]
Person == [linked : BOOLEAN, admin : BOOLEAN]

\* A row is not the absence of one.
ASSUME NullAssumption ==
  /\ NULL \notin Member \cup Person \cup Emails
  /\ NULL \notin Users \cup {"keycloak", "manual"}

Live == {m \in Ids : member[m] # NULL}

\* The normalised addresses of the rows read.
KeysOf(read) == {KeyOf[read[m].email] : m \in DOMAIN read}

\* What is in progress: requests that read one of these members or accounts, and
\* synchronisations, are overtaken when these change.
Overtaken(requests, syncs, ms, keys) ==
  /\ request' = [r \in Requests |->
       IF requests[r] # NULL /\ (\/ DOMAIN requests[r].was \cap ms # {}
                                \/ KeysOf(requests[r].was) \cap keys # {})
       THEN [requests[r] EXCEPT !.alone = FALSE] ELSE requests[r]]
  /\ sync' = [k \in Syncs |->
       IF syncs[k] # NULL THEN [syncs[k] EXCEPT !.alone = FALSE] ELSE syncs[k]]

---------------------------------------------------------------------------
(* Outside                                                                 *)

\* Users join and leave the group, and get, change and lose their addresses; no two have
\* the same one.
ChangeGroup ==
  /\ \E u \in Users :
       \/ group' = [v \in DOMAIN group \ {u} |-> group[v]]
       \/ \E e \in Emails \cup {NULL} :
            /\ \A v \in DOMAIN group \ {u} : e = NULL \/ group[v] # e
            /\ group' = [v \in DOMAIN group \cup {u} |-> IF v = u THEN e ELSE group[v]]
  /\ UNCHANGED <<family, made, member, person, account, decided, request, sync, unseen>>

---------------------------------------------------------------------------
(* Requests                                                                *)

\* Whose the accounts of the rows read are made: of members with one normalised address,
\* the one whose turn comes last.
Winners(read) == {w \in [KeysOf(read) -> DOMAIN read] :
                    \A k \in KeysOf(read) : KeyOf[read[w[k]].email] = k}

\* Mutant: an address that is an account already stays with its person.
UpsertOnce(w, kept) ==
  account' = [k \in Keys |-> IF k \in DOMAIN w \ kept /\ account[k] = NULL
                              THEN w[k] ELSE account[k]]

\* upsert_person_account: the account of each address is made its member's person's,
\* whosever it was; those of `kept` are left, having been found so.
Upsert(w, kept) ==
  account' = [k \in Keys |-> IF k \in DOMAIN w \ kept THEN w[k] ELSE account[k]]

\* The members whose account is made another's.
Displaced(w) == {m \in Live : /\ KeyOf[member[m].email] \in DOMAIN w
                              /\ w[KeyOf[member[m].email]] # m}

HasEmail(e) == \E m \in Live : member[m].email = e

\* A member is inserted with the next id, and its person after it.
Insert(row) ==
  /\ made < MaxMembers
  /\ made' = made + 1
  /\ member' = [member EXCEPT ![made + 1] = row]
  /\ person' = [person EXCEPT ![made + 1] = [linked |-> TRUE, admin |-> row.admin]]
  /\ LET w == [k \in {KeyOf[row.email]} |-> made + 1]
     IN  /\ Upsert(w, {})
         /\ unseen' = unseen \cup Displaced(w)
         /\ Overtaken(request, sync, {}, DOMAIN w)
  /\ UNCHANGED <<group, decided>>

\* POST of a family: its creator becomes its admin.
CreateFamily ==
  \E e \in Emails :
    /\ family = NULL
    /\ family' = "manual"
    /\ Insert([email |-> e, user |-> NULL, admin |-> TRUE])

\* POST of a member: 409 when the family has the address.
CreateMember ==
  \E e \in Emails, admin \in BOOLEAN :
    /\ family # NULL /\ ~HasEmail(e)
    /\ Insert([email |-> e, user |-> NULL, admin |-> admin])
    /\ UNCHANGED family

\* Request r begins: it has read the members ms, and is to write the rows next.
Begin(r, ms, next) ==
  /\ request[r] = NULL
  /\ request' = [request EXCEPT ![r] = [was |-> [m \in ms |-> member[m]],
       persons |-> [m \in ms |-> person[m]], next |-> next, alone |-> TRUE,
       accounts |-> [k \in KeysOf([m \in ms |-> member[m]]) |-> account[k]]]]
  /\ UNCHANGED <<group, family, made, member, person, account, decided, sync, unseen>>

\* PATCH of a member.
UpdateMember(r) ==
  \E m \in Live, admin \in BOOLEAN :
    Begin(r, {m}, [n \in {m} |-> [member[m] EXCEPT !.admin = admin]])

\* require_family_member, in a request that commits: the caller's person is made sure of.
Visit(r) == \E m \in Live : Begin(r, {m}, [n \in {m} |-> member[m]])

\* list_family_persons: every member's person is.
ListPersons(r) == Live # {} /\ Begin(r, Live, [n \in Live |-> member[n]])

\* What ensure_person_for_member makes of the person of m, found as p; only what differs
\* from what was found is written.
Ensured(p, next, is) ==
  IF p = NULL THEN [linked |-> TRUE, admin |-> next.admin]
  ELSE IF p.admin # next.admin THEN [is EXCEPT !.admin = next.admin]
  ELSE is

\* ensure_person_for_member for the members of a request, whose persons and accounts it
\* has read at its beginning (early, kept) or reads now, and the commit.
Commit(r) ==
  LET q  == request[r]
      ms == DOMAIN q.was
      Found(m, early) == IF m \in early THEN q.persons[m] ELSE person[m]
  IN  /\ q # NULL
      /\ \E early \in SUBSET ms :
           /\ \A m \in ms :
                IF Found(m, early) = NULL THEN person[m] = NULL /\ m \in Live
                ELSE person[m] # NULL
           /\ person' = [m \in Ids |-> IF m \in ms
                           THEN Ensured(Found(m, early), q.next[m], person[m])
                           ELSE person[m]]
      /\ \A m \in ms : q.next[m] # q.was[m] => m \in Live
      /\ member' = [m \in Ids |-> IF m \in ms /\ q.next[m] # q.was[m]
                      THEN [member[m] EXCEPT !.admin = q.next[m].admin] ELSE member[m]]
      /\ \E w \in Winners(q.was) :
           /\ \E kept \in SUBSET {k \in DOMAIN w : q.accounts[k] = w[k]} : Upsert(w, kept)
           /\ unseen' = IF q.alone THEN (unseen \ ms) \cup Displaced(w)
                        ELSE unseen \cup {m \in Live : m \in ms \/ KeyOf[member[m].email] \in DOMAIN w}
      /\ Overtaken([request EXCEPT ![r] = NULL], sync, ms, KeysOf(q.was))
      /\ UNCHANGED <<group, family, made, decided>>

\* DELETE of a member: its person stays, for no member.
DeleteMember ==
  \E m \in Live :
    /\ member' = [member EXCEPT ![m] = NULL]
    /\ person' = IF person[m] = NULL THEN person ELSE [person EXCEPT ![m].linked = FALSE]
    /\ Overtaken(request, sync, {m}, {})
    /\ UNCHANGED <<group, family, made, account, decided, unseen>>

\* A person makes a decision; it keeps its author when it is deleted.
Decide ==
  /\ \E m \in Ids : person[m] # NULL
  /\ decided' = TRUE
  /\ UNCHANGED <<group, family, made, member, person, account, request, sync, unseen>>

\* purge_family deletes the persons before the decisions they are the decided of, and
\* nothing when the database refuses.
Purgeable == ~decided

\* DELETE of the family. What is in progress finds its rows gone.
DeleteFamily ==
  /\ family # NULL /\ Purgeable
  /\ family' = NULL
  /\ member' = [m \in Ids |-> NULL] /\ person' = [m \in Ids |-> NULL]
  /\ account' = [k \in Keys |-> NULL]
  /\ request' = [r \in Requests |-> NULL] /\ sync' = [k \in Syncs |-> NULL]
  /\ unseen' = {}
  /\ UNCHANGED <<group, made, decided>>

---------------------------------------------------------------------------
(* The synchronisation                                                     *)

\* sync_keycloak_families has the group's members from Keycloak, then reads those it
\* knows.
BeginSync(k) ==
  /\ sync[k] = NULL /\ family \in {NULL, "keycloak"}
  /\ sync' = [sync EXCEPT ![k] = [group |-> group, family |-> family, alone |-> TRUE,
       known |-> [m \in {n \in Live : member[n].user # NULL} |-> member[m]]]]
  /\ UNCHANGED <<group, family, made, member, person, account, decided, request, unseen>>

\* Mutant: members who lost their address are taken for gone.
LeftUnaddressed(r) ==
  {m \in DOMAIN r.known : \A u \in DOMAIN r.group : r.known[m].user = u => r.group[u] = NULL}

\* What it makes of what it read: users who joined, members who left, members who moved
\* to another address. A user without an address neither joins nor moves, and stays.
Joined(r) == {u \in DOMAIN r.group : /\ r.group[u] # NULL
                                     /\ \A m \in DOMAIN r.known : r.known[m].user # u}
Left(r)   == {m \in DOMAIN r.known : r.known[m].user \notin DOMAIN r.group}
Moved(r)  == {m \in DOMAIN r.known \ Left(r) :
                r.group[r.known[m].user] \notin {NULL, r.known[m].email}}
NewEmail(r, m) == r.group[r.known[m].user]

\* The unit of work updates one row after another, then inserts, then deletes; each
\* statement must leave one member with an address and a user.
Accepted(r) ==
  LET moved == Moved(r)
      After(m) == IF m \in moved THEN NewEmail(r, m) ELSE member[m].email
  IN  /\ family = r.family
      /\ moved \subseteq Live
      /\ \A m \in moved, n \in Live : m # n =>
           NewEmail(r, m) # (IF n < m THEN After(n) ELSE member[n].email)
      /\ \A u \in Joined(r), m \in Live : After(m) # r.group[u] /\ member[m].user # u

CommitSync(k) ==
  LET r == sync[k]
      joined == Joined(r)
      ids == made + 1..made + Cardinality(joined)
  IN  /\ r # NULL /\ Accepted(r) /\ ids \subseteq Ids
      /\ family' = "keycloak"
      /\ made' = made + Cardinality(joined)
      /\ \E user \in [ids -> joined] :
           /\ \A u \in joined : \E m \in ids : user[m] = u
           /\ member' = [m \in Ids |->
                IF m \in ids THEN [email |-> r.group[user[m]], user |-> user[m], admin |-> FALSE]
                ELSE IF m \in Left(r) THEN NULL
                ELSE IF m \in Moved(r) THEN [member[m] EXCEPT !.email = NewEmail(r, m)]
                ELSE member[m]]
      /\ person' = [m \in Ids |-> IF m \in Left(r) /\ person[m] # NULL
                      THEN [person[m] EXCEPT !.linked = FALSE] ELSE person[m]]
      /\ unseen' = unseen \cup ids \cup Moved(r)
      /\ Overtaken(request, [sync EXCEPT ![k] = NULL], Left(r) \cup Moved(r), {})
      /\ UNCHANGED <<group, account, decided>>

---------------------------------------------------------------------------
\* The database refuses, Keycloak fails, or the process dies.
Rollback ==
  /\ \/ \E r \in Requests : request[r] # NULL /\ request' = [request EXCEPT ![r] = NULL]
                            /\ UNCHANGED sync
     \/ \E k \in Syncs : sync[k] # NULL /\ sync' = [sync EXCEPT ![k] = NULL]
                         /\ UNCHANGED request
  /\ UNCHANGED <<group, family, made, member, person, account, decided, unseen>>

Init ==
  /\ group = [u \in {} |-> NULL] /\ family = NULL /\ made = 0
  /\ member = [m \in Ids |-> NULL] /\ person = [m \in Ids |-> NULL]
  /\ account = [k \in Keys |-> NULL]
  /\ decided = FALSE /\ unseen = {}
  /\ request = [r \in Requests |-> NULL] /\ sync = [k \in Syncs |-> NULL]

Next ==
  \/ ChangeGroup
  \/ CreateFamily \/ CreateMember \/ DeleteMember \/ Decide \/ DeleteFamily
  \/ \E r \in Requests : UpdateMember(r) \/ Visit(r) \/ ListPersons(r) \/ Commit(r)
  \/ \E k \in Syncs : BeginSync(k) \/ CommitSync(k)
  \/ Rollback

Spec == Init /\ [][Next]_vars

---------------------------------------------------------------------------
(* Properties                                                              *)

\* Members, persons and accounts are what the tables can hold: no two members of the
\* family share an address or a Keycloak user (the unique indexes of family_members).
TypeOK ==
  /\ \A m \in Ids : member[m] \in Member \cup {NULL} /\ person[m] \in Person \cup {NULL}
  /\ \A k \in Keys : account[k] \in Ids \cup {NULL}
  /\ decided \in BOOLEAN /\ unseen \subseteq Ids
  /\ \A m, n \in Live : m # n =>
       /\ member[m].email # member[n].email
       /\ member[m].user = NULL \/ member[m].user # member[n].user

\* The person of a member that a request has looked at since it last changed is linked to
\* it and an admin exactly when it is, and holds the account of its address, unless that was
\* made another member's with the same normalised address since: removals, new members under
\* an old address, synchronisations and overlapping requests never leave it otherwise
\* (ensure_person_for_member).
PersonFollows ==
  \A m \in Live \ unseen :
    /\ person[m] = [linked |-> TRUE, admin |-> member[m].admin]
    /\ account[KeyOf[member[m].email]] = m

\* The family's Keycloak members: who, and under which address.
Enrolled == {<<member[m].user, member[m].email>> : m \in {n \in Live : member[n].user # NULL}}

\* Who is to be: the users of the group with an address, under it, and of those without one
\* the members there are, under the address they have.
Mirrored(g) ==
  {<<u, g[u]>> : u \in {v \in DOMAIN g : g[v] # NULL}}
  \cup {x \in Enrolled : x[1] \in DOMAIN g /\ g[x[1]] = NULL}

\* A synchronisation that nothing overtook leaves as the family's Keycloak members exactly
\* those the group it found asks for, users without an address included
\* (sync_keycloak_families).
SyncMirrors ==
  [][\A k \in Syncs :
       CommitSync(k) /\ sync[k].alone => Enrolled' = Mirrored(sync[k].group)]_vars

\* A family can be deleted whatever it holds (delete_family_member refers to it).
FamilyDeletable ==
  family # NULL => Purgeable
=============================================================================
