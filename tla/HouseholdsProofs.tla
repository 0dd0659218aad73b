--------------------------- MODULE HouseholdsProofs ---------------------------
(***************************************************************************)
(* Proofs about Households, for every set of users and addresses and any   *)
(* number of requests and synchronisations in progress: no two members     *)
(* share an address or a user, a person follows its member and holds the   *)
(* account it was last given, and a synchronisation that nothing overtook  *)
(* mirrors the group it found, users without an address included. And      *)
(* about Profiles: the last event about a row says what the row is.        *)
(*                                                                         *)
(* Each needs what is in progress: what a request or a synchronisation has *)
(* read is still there unless it was overtaken (RequestOK, SyncOK). A      *)
(* synchronisation checks the rows it writes against those that are there, *)
(* one after another, and gives every user who joined one row of its own:  *)
(* a surjection between sets of one size is injective. RecordsInv says of  *)
(* a row nobody is changing that it was told as it is, or is doubtful.     *)
(*                                                                         *)
(* And about the family document and the agents' sessions: a call writes   *)
(* what it read only if nothing was written since (DocInv, AgentInv).      *)
(***************************************************************************)
EXTENDS MCHouseholds, FiniteSetTheorems, TLAPS

---------------------------------------------------------------------------
(* The inductive invariant                                                 *)

\* A group as Keycloak holds it: no two of its users have one address.
GroupOK(g) ==
  /\ DOMAIN g \subseteq Users
  /\ \A u \in DOMAIN g : g[u] \in Emails \cup {NULL}
  /\ \A u, v \in DOMAIN g : u # v => g[u] = NULL \/ g[u] # g[v]

\* The members among the rows mem.
Rows(mem) == {m \in Ids : mem[m] # NULL}

\* Rows of members and persons are for ids that were given out; the person of
\* a member is linked.
TablesOK(mem, per, n) ==
  /\ DOMAIN mem = Ids /\ DOMAIN per = Ids
  /\ \A m \in Ids : mem[m] \in Member \cup {NULL} /\ per[m] \in Person \cup {NULL}
  /\ \A m \in Ids : m > n => mem[m] = NULL /\ per[m] = NULL
  /\ \A m \in Rows(mem) : per[m] # NULL => per[m].linked = TRUE

Unique(mem) ==
  \A m, n \in Rows(mem) : m # n =>
    /\ mem[m].email # mem[n].email
    /\ mem[m].user = NULL \/ mem[m].user # mem[n].user

\* What a request has read is what is there, unless it was overtaken.
RequestOK(q, mem, per, acc, n) ==
  /\ DOMAIN q = {"was", "persons", "accounts", "next", "alone"}
  /\ DOMAIN q.was \subseteq 1..n
  /\ \A m \in DOMAIN q.was : /\ q.was[m] \in Member /\ q.next[m] \in Member
                             /\ q.persons[m] \in Person \cup {NULL}
                             /\ q.alone => mem[m] = q.was[m] /\ per[m] = q.persons[m]
  /\ q.alone => \A k \in KeysOf(q.was) : acc[k] = q.accounts[k]

\* What a synchronisation has read is the Keycloak members there are, unless
\* it was overtaken.
SyncOK(s, mem) ==
  /\ DOMAIN s = {"group", "family", "alone", "known"}
  /\ GroupOK(s.group)
  /\ DOMAIN s.known \subseteq Ids
  /\ \A m \in DOMAIN s.known : /\ s.known[m] \in Member /\ s.known[m].user # NULL
                               /\ s.alone => mem[m] = s.known[m]
  /\ s.alone => \A m \in Rows(mem) : mem[m].user # NULL => m \in DOMAIN s.known

ProgressOK(requests, syncs, mem, per, acc, n) ==
  /\ \A r \in Requests : requests[r] # NULL => RequestOK(requests[r], mem, per, acc, n)
  /\ \A k \in Syncs : syncs[k] # NULL => SyncOK(syncs[k], mem)

InProgress ==
  /\ DOMAIN request = Requests /\ DOMAIN sync = Syncs
  /\ ProgressOK(request, sync, member, person, account, made)

Others ==
  /\ made \in 0..MaxMembers /\ decided \in BOOLEAN /\ unseen \subseteq Ids
  /\ DOMAIN account = Keys /\ \A k \in Keys : account[k] \in Ids \cup {NULL}
  /\ GroupOK(group)
  /\ family = NULL => Rows(member) = {}

IInv ==
  /\ Others
  /\ TablesOK(member, person, made) /\ Unique(member)
  /\ InProgress
  /\ PersonFollows

---------------------------------------------------------------------------
(* Lemmas about the operators                                              *)

\* The person of a member is linked to it, is an admin when it is and has
\* the account of its address.
Follows(mem, per, acc, m) ==
  /\ per[m] \in Person /\ per[m].linked = TRUE /\ per[m].admin = mem[m].admin
  /\ acc[KeyOf[mem[m].email]] = m

LEMMA PersonRow ==
  ASSUME NEW p, NEW a, a \in BOOLEAN
  PROVE  p = [linked |-> TRUE, admin |-> a] <=>
           p \in Person /\ p.linked = TRUE /\ p.admin = a
<1>1. ASSUME p = [linked |-> TRUE, admin |-> a]
      PROVE  p \in Person /\ p.linked = TRUE /\ p.admin = a
  BY <1>1 DEF Person
<1>2. ASSUME p \in Person, p.linked = TRUE, p.admin = a
      PROVE  p = [linked |-> TRUE, admin |-> a]
  <2>1. p = [linked |-> p.linked, admin |-> p.admin]
    BY <1>2, Zenon DEF Person
  <2> QED
    BY <1>2, <2>1, Zenon
<1> QED
  BY <1>1, <1>2

LEMMA FollowsAll ==
  ASSUME TablesOK(member, person, made)
  PROVE  PersonFollows <=> \A m \in Rows(member) \ unseen :
                             Follows(member, person, account, m)
<1>1. ASSUME NEW m \in Rows(member)
      PROVE  person[m] = [linked |-> TRUE, admin |-> member[m].admin] <=>
               person[m] \in Person /\ person[m].linked = TRUE
               /\ person[m].admin = member[m].admin
  <2>1. member[m] \in Member
    BY DEF TablesOK, Rows
  <2>2. member[m].admin \in BOOLEAN
    BY <2>1 DEF Member
  <2> DEFINE a == member[m].admin
  <2> HIDE DEF a
  <2> QED
    BY <2>2, PersonRow, Zenon DEF a
<1> QED
  BY <1>1 DEF PersonFollows, Follows, Live, Rows

LEMMA UpsertOK ==
  ASSUME Others, NEW w, NEW left, Upsert(w, left), DOMAIN w \subseteq Keys,
         \A k \in DOMAIN w : w[k] \in Ids
  PROVE  /\ DOMAIN account' = Keys
         /\ \A k \in Keys : account'[k] \in Ids \cup {NULL}
         /\ \A k \in Keys : k \notin DOMAIN w => account'[k] = account[k]
         /\ \A k \in DOMAIN w : k \notin left => account'[k] = w[k]
         /\ \A k \in DOMAIN w : account[k] = w[k] => account'[k] = w[k]
BY DEF Upsert, Others

\* The rows of members have normalised addresses.
LEMMA KeysTyped ==
  ASSUME NEW read, \A m \in DOMAIN read : read[m] \in Member
  PROVE  /\ KeysOf(read) \subseteq Keys
         /\ \A m \in DOMAIN read : KeyOf[read[m].email] \in KeysOf(read)
<1>1. \A m \in DOMAIN read : read[m].email \in Emails
  BY DEF Member
<1> QED
  BY <1>1, HouseholdsAssumption DEF KeysOf

\* Members change but for ms, accounts but for keys, or are added: what is in progress is
\* as before.
LEMMA OvertakenOK ==
  ASSUME NEW requests, NEW syncs, NEW ms, NEW keys, Overtaken(requests, syncs, ms, keys),
         ProgressOK(requests, syncs, member, person, account, made),
         \A m \in (1..made) \ ms : member'[m] = member[m] /\ person'[m] = person[m],
         \A k \in Keys \ keys : account'[k] = account[k],
         1..made \subseteq 1..made'
  PROVE  InProgress'
<1>1. ASSUME NEW r \in Requests, request'[r] # NULL
      PROVE  RequestOK(request'[r], member', person', account', made')
  <2> DEFINE q == requests[r]
             p == request'[r]
  <2>1. p = IF q # NULL /\ (DOMAIN q.was \cap ms # {} \/ KeysOf(q.was) \cap keys # {})
            THEN [q EXCEPT !.alone = FALSE] ELSE q
    BY DEF Overtaken
  <2>2. q # NULL
    BY <1>1, <2>1
  <2>3. RequestOK(q, member, person, account, made)
    BY <2>2 DEF ProgressOK
  <2>4. DOMAIN q = {"was", "persons", "accounts", "next", "alone"}
    BY <2>3 DEF RequestOK
  <2>5. /\ DOMAIN p = DOMAIN q /\ p.was = q.was /\ p.persons = q.persons
        /\ p.next = q.next /\ p.accounts = q.accounts
        /\ p.alone => q.alone /\ DOMAIN q.was \cap ms = {} /\ KeysOf(q.was) \cap keys = {}
    BY <2>1, <2>2, <2>4
  <2>6. KeysOf(q.was) \subseteq Keys
    BY <2>3, KeysTyped DEF RequestOK
  <2> HIDE DEF p, q
  <2>7. RequestOK(p, member', person', account', made')
    <3>1. /\ DOMAIN p = {"was", "persons", "accounts", "next", "alone"}
          /\ DOMAIN p.was \subseteq 1..made'
      BY <2>3, <2>4, <2>5 DEF RequestOK
    <3>2. \A m \in DOMAIN p.was :
            /\ p.was[m] \in Member /\ p.next[m] \in Member /\ p.persons[m] \in Person \cup {NULL}
            /\ p.alone => member'[m] = p.was[m] /\ person'[m] = p.persons[m]
      BY <2>3, <2>5 DEF RequestOK
    <3>3. p.alone => \A k \in KeysOf(p.was) : account'[k] = p.accounts[k]
      BY <2>3, <2>5, <2>6 DEF RequestOK
    <3> QED
      BY <3>1, <3>2, <3>3 DEF RequestOK
  <2> QED
    BY <2>7 DEF p
<1>2. ASSUME NEW k \in Syncs, sync'[k] # NULL
      PROVE  SyncOK(sync'[k], member')
  <2> DEFINE s == syncs[k]
             p == sync'[k]
  <2>1. s # NULL /\ p = [s EXCEPT !.alone = FALSE]
    BY <1>2 DEF Overtaken
  <2>2. SyncOK(s, member)
    BY <2>1 DEF ProgressOK
  <2>3. DOMAIN s = {"group", "family", "alone", "known"}
    BY <2>2 DEF SyncOK
  <2>4. /\ DOMAIN p = DOMAIN s /\ p.group = s.group /\ p.known = s.known
        /\ ~p.alone
    BY <2>1, <2>3
  <2> HIDE DEF p, s
  <2>5. SyncOK(p, member')
    BY <2>2, <2>4 DEF SyncOK
  <2> QED
    BY <2>5 DEF p
<1> QED
  BY <1>1, <1>2 DEF Overtaken, InProgress, ProgressOK

\* A step that leaves the tables as they are.
LEMMA TablesKept ==
  ASSUME IInv, UNCHANGED <<family, made, member, person, account, unseen>>,
         decided' \in BOOLEAN, GroupOK(group'), InProgress'
  PROVE  IInv'
<1>1. Others'
  BY DEF IInv, Others
<1>2. TablesOK(member', person', made') /\ Unique(member')
  BY DEF IInv
<1>3. PersonFollows'
  BY DEF IInv, PersonFollows, Live
<1> QED
  BY <1>1, <1>2, <1>3 DEF IInv

---------------------------------------------------------------------------
(* The steps of the outside and of requests                                *)

LEMMA GroupStep ==
  ASSUME IInv, ChangeGroup
  PROVE  IInv'
<1>1. UNCHANGED <<family, made, member, person, account, decided, request, sync, unseen>>
  BY DEF ChangeGroup
<1>2. GroupOK(group)
  BY DEF IInv, Others
<1>3. GroupOK(group')
  <2>1. PICK u \in Users :
          \/ group' = [v \in DOMAIN group \ {u} |-> group[v]]
          \/ \E e \in Emails \cup {NULL} :
               /\ \A v \in DOMAIN group \ {u} : e = NULL \/ group[v] # e
               /\ group' = [v \in DOMAIN group \cup {u} |-> IF v = u THEN e ELSE group[v]]
    BY DEF ChangeGroup
  <2>2. CASE group' = [v \in DOMAIN group \ {u} |-> group[v]]
    BY <1>2, <2>2 DEF GroupOK
  <2>3. ASSUME NEW e \in Emails \cup {NULL},
               \A v \in DOMAIN group \ {u} : e = NULL \/ group[v] # e,
               group' = [v \in DOMAIN group \cup {u} |-> IF v = u THEN e ELSE group[v]]
        PROVE  GroupOK(group')
    <3>1. /\ DOMAIN group' = DOMAIN group \cup {u} /\ group'[u] = e
          /\ \A v \in DOMAIN group' \ {u} : v \in DOMAIN group /\ group'[v] = group[v]
      BY <2>3
    <3> QED
      BY <1>2, <2>3, <3>1 DEF GroupOK
  <2> QED
    BY <2>1, <2>2, <2>3
<1>4. InProgress'
  BY <1>1 DEF IInv, InProgress, ProgressOK
<1>5. decided' \in BOOLEAN
  BY <1>1 DEF IInv, Others
<1> QED
  BY <1>1, <1>3, <1>4, <1>5, TablesKept

LEMMA DecideStep ==
  ASSUME IInv, Decide
  PROVE  IInv'
<1>1. /\ decided' = TRUE
      /\ UNCHANGED <<group, family, made, member, person, account, request, sync, unseen>>
  BY DEF Decide
<1>2. InProgress' /\ GroupOK(group') /\ decided' \in BOOLEAN
  BY <1>1 DEF IInv, InProgress, ProgressOK, Others
<1> QED
  BY <1>1, <1>2, TablesKept

LEMMA RollbackStep ==
  ASSUME IInv, Rollback
  PROVE  IInv'
<1>1. UNCHANGED <<group, family, made, member, person, account, decided, unseen>>
  BY DEF Rollback
<1>2. GroupOK(group') /\ decided' \in BOOLEAN
  BY <1>1 DEF IInv, Others
<1>3. InProgress'
  BY <1>1 DEF Rollback, IInv, InProgress, ProgressOK
<1> QED
  BY <1>1, <1>2, <1>3, TablesKept

LEMMA BeginStep ==
  ASSUME IInv, NEW r \in Requests, NEW ms \in SUBSET Live, NEW next,
         \A m \in ms : next[m] \in Member, Begin(r, ms, next)
  PROVE  IInv'
<1> DEFINE rows == [m \in ms |-> member[m]]
           accounts == [k \in KeysOf(rows) |-> account[k]]
           q == [was |-> rows, persons |-> [m \in ms |-> person[m]], next |-> next,
                 alone |-> TRUE, accounts |-> accounts]
<1>1. /\ request' = [request EXCEPT ![r] = q]
      /\ UNCHANGED <<group, family, made, member, person, account, decided, sync, unseen>>
  BY DEF Begin
<1>2. /\ DOMAIN q = {"was", "persons", "accounts", "next", "alone"} /\ q.next = next
      /\ DOMAIN q.was = ms
      /\ q.was = rows /\ \A k \in KeysOf(rows) : q.accounts[k] = account[k]
      /\ \A m \in ms : q.was[m] = member[m] /\ q.persons[m] = person[m]
  OBVIOUS
<1>3. TablesOK(member, person, made) /\ made \in 0..MaxMembers
  BY DEF IInv, Others
<1>4. \A m \in ms : m \in 1..made /\ member[m] \in Member /\ person[m] \in Person \cup {NULL}
  BY <1>3, HouseholdsAssumption DEF TablesOK, Live, Ids
<1> HIDE DEF q, rows
<1>5. RequestOK(q, member, person, account, made)
  BY <1>2, <1>4 DEF RequestOK
<1>6. InProgress'
  BY <1>1, <1>5 DEF IInv, InProgress, ProgressOK
<1>7. GroupOK(group') /\ decided' \in BOOLEAN
  BY <1>1 DEF IInv, Others
<1> QED
  BY <1>1, <1>6, <1>7, TablesKept

LEMMA BeginSteps ==
  ASSUME IInv, NEW r \in Requests, UpdateMember(r) \/ Visit(r) \/ ListPersons(r)
  PROVE  IInv'
<1>1. \A m \in Live : member[m] \in Member
  BY DEF IInv, TablesOK, Live
<1>2. CASE UpdateMember(r)
  <2>1. PICK m \in Live, admin \in BOOLEAN :
          Begin(r, {m}, [n \in {m} |-> [member[m] EXCEPT !.admin = admin]])
    BY <1>2 DEF UpdateMember
  <2> DEFINE entry == [member[m] EXCEPT !.admin = admin]
             next == [n \in {m} |-> entry]
  <2>2. entry \in Member
    <3>1. member[m] \in Member
      BY <1>1
    <3> QED
      BY <3>1 DEF Member
  <2> HIDE DEF entry
  <2>3. Begin(r, {m}, next)
    BY <2>1 DEF entry
  <2>4. \A n \in {m} : next[n] \in Member
    BY <2>2
  <2>5. {m} \in SUBSET Live
    OBVIOUS
  <2> HIDE DEF next
  <2> QED
    BY <2>3, <2>4, <2>5, BeginStep
<1>3. CASE Visit(r)
  <2>1. PICK m \in Live : Begin(r, {m}, [n \in {m} |-> member[m]])
    BY <1>3 DEF Visit
  <2> DEFINE next == [n \in {m} |-> member[m]]
  <2>2. {m} \in SUBSET Live /\ \A n \in {m} : next[n] \in Member
    BY <1>1
  <2>3. Begin(r, {m}, next)
    BY <2>1
  <2> HIDE DEF next
  <2> QED
    BY <2>2, <2>3, BeginStep
<1>4. CASE ListPersons(r)
  <2> DEFINE next == [n \in Live |-> member[n]]
  <2>1. Begin(r, Live, next) /\ \A n \in Live : next[n] \in Member
    BY <1>1, <1>4 DEF ListPersons
  <2> HIDE DEF next
  <2> QED
    BY <2>1, BeginStep
<1> QED
  BY <1>2, <1>3, <1>4

LEMMA InsertStep ==
  ASSUME IInv, NEW entry \in Member, entry.user = NULL, Insert(entry), ~HasEmail(entry.email),
         family' # NULL
  PROVE  IInv'
<1> DEFINE new == made + 1
           p == [linked |-> TRUE, admin |-> entry.admin]
           key == KeyOf[entry.email]
           w == [k \in {key} |-> new]
<1>1. /\ made < MaxMembers /\ made' = new
      /\ member' = [member EXCEPT ![new] = entry]
      /\ person' = [person EXCEPT ![new] = p]
      /\ Upsert(w, {}) /\ unseen' = unseen \cup Displaced(w)
      /\ Overtaken(request, sync, {}, DOMAIN w)
      /\ UNCHANGED <<group, decided>>
  BY DEF Insert
<1>2. /\ Others /\ TablesOK(member, person, made) /\ Unique(member) /\ InProgress
      /\ PersonFollows
  BY DEF IInv
<1>3. /\ new \in Ids /\ new \in Nat /\ made \in 0..MaxMembers
      /\ new \notin 1..made /\ 1..made \subseteq 1..new /\ new > made
  BY <1>1, <1>2, HouseholdsAssumption DEF Others, Ids
<1>4. p \in Person /\ p.linked = TRUE /\ p # NULL /\ entry # NULL
  <2> DEFINE a == entry.admin
  <2>1. a \in BOOLEAN
    BY DEF Member
  <2>2. p = [linked |-> TRUE, admin |-> a]
    OBVIOUS
  <2> HIDE DEF a, p
  <2>3. p \in Person /\ p.linked = TRUE
    BY <2>1, <2>2, PersonRow
  <2> QED
    BY <2>3, NullAssumption
<1>5. key \in Keys /\ DOMAIN w = {key} /\ w[key] = new
  BY HouseholdsAssumption DEF Member
<1> HIDE DEF w, key
<1>6. /\ DOMAIN account' = Keys /\ \A k \in Keys : account'[k] \in Ids \cup {NULL}
      /\ account'[key] = new
      /\ \A k \in Keys \ {key} : account'[k] = account[k]
  BY <1>1, <1>2, <1>3, <1>5, UpsertOK
<1>7. /\ DOMAIN member' = Ids /\ DOMAIN person' = Ids
      /\ member'[new] = entry /\ person'[new] = p
      /\ \A m \in Ids \ {new} : member'[m] = member[m] /\ person'[m] = person[m]
      /\ member[new] = NULL
  BY <1>1, <1>2, <1>3 DEF TablesOK
<1>8. person'[new] = [linked |-> TRUE, admin |-> entry.admin]
  BY <1>7
<1> HIDE DEF new, p
<1>9. Rows(member') = Rows(member) \cup {new} /\ new \notin Rows(member)
  BY <1>3, <1>4, <1>7 DEF Rows
<1>10. \A m \in Rows(member) : member'[m] = member[m] /\ member[m].email # entry.email
  BY <1>7, <1>9 DEF HasEmail, Live, Rows
<1>11. TablesOK(member', person', made')
  <2>1. \A m \in Ids : m > new => m > made /\ m # new
    BY <1>3 DEF Ids
  <2> QED
    BY <1>1, <1>2, <1>4, <1>7, <1>9, <2>1 DEF TablesOK, Rows
<1>12. Unique(member')
  BY <1>2, <1>7, <1>9, <1>10 DEF Unique
<1>13. Others'
  <2>1. made' \in 0..MaxMembers
    BY <1>1, <1>3, HouseholdsAssumption DEF Ids
  <2>2. unseen' \subseteq Ids
    BY <1>1, <1>2 DEF Others, Displaced, Live
  <2> QED
    BY <1>1, <1>2, <1>6, <2>1, <2>2 DEF Others
<1>14. InProgress'
  <2>1. \A m \in (1..made) \ {} : member'[m] = member[m] /\ person'[m] = person[m]
    BY <1>3, <1>7, HouseholdsAssumption DEF Ids
  <2>2. ProgressOK(request, sync, member, person, account, made)
    BY <1>2 DEF InProgress
  <2>3. 1..made \subseteq 1..made'
    BY <1>1, <1>3
  <2>4. \A k \in Keys \ DOMAIN w : account'[k] = account[k]
    BY <1>5, <1>6
  <2> QED
    BY <1>1, <2>1, <2>2, <2>3, <2>4, OvertakenOK
<1>15. PersonFollows'
  <2> SUFFICES ASSUME NEW m \in Rows(member') \ unseen'
               PROVE  /\ person'[m] = [linked |-> TRUE, admin |-> member'[m].admin]
                      /\ account'[KeyOf[member'[m].email]] = m
    BY DEF PersonFollows, Live, Rows
  <2>1. CASE m = new
    BY <1>6, <1>7, <1>8, <2>1 DEF key
  <2>2. CASE m # new
    <3>1. m \in Rows(member) /\ m \in Live \ unseen /\ m \in Ids \ {new}
      BY <1>1, <1>9, <2>2 DEF Live, Rows
    <3>2. /\ person[m] = [linked |-> TRUE, admin |-> member[m].admin]
          /\ account[KeyOf[member[m].email]] = m
      BY <1>2, <3>1 DEF PersonFollows
    <3>3. member[m] \in Member
      BY <1>2, <3>1 DEF TablesOK, Rows
    <3>4. KeyOf[member[m].email] \in Keys
      BY <3>3, HouseholdsAssumption DEF Member
    <3>5. KeyOf[member[m].email] # key
      BY <1>1, <1>5, <2>2, <3>1 DEF Displaced
    <3> QED
      BY <1>6, <1>7, <1>10, <3>1, <3>2, <3>4, <3>5
  <2> QED
    BY <2>1, <2>2
<1> QED
  BY <1>11, <1>12, <1>13, <1>14, <1>15 DEF IInv

LEMMA CreateSteps ==
  ASSUME IInv, CreateFamily \/ CreateMember
  PROVE  IInv'
<1>1. CASE CreateFamily
  <2>1. PICK e \in Emails : /\ family = NULL /\ family' = "manual"
                            /\ Insert([email |-> e, user |-> NULL, admin |-> TRUE])
    BY <1>1 DEF CreateFamily
  <2> DEFINE entry == [email |-> e, user |-> NULL, admin |-> TRUE]
  <2>2. entry \in Member /\ entry.user = NULL
    BY DEF Member
  <2>3. Insert(entry)
    BY <2>1
  <2> HIDE DEF entry
  <2>4. ~HasEmail(entry.email)
    BY <2>1 DEF IInv, Others, HasEmail, Live, Rows
  <2>5. family' # NULL
    BY <2>1, NullAssumption
  <2> QED
    BY <2>2, <2>3, <2>4, <2>5, InsertStep
<1>2. CASE CreateMember
  <2>1. PICK e \in Emails, admin \in BOOLEAN :
          /\ family # NULL /\ ~HasEmail(e)
          /\ Insert([email |-> e, user |-> NULL, admin |-> admin])
          /\ UNCHANGED family
    BY <1>2 DEF CreateMember
  <2> DEFINE entry == [email |-> e, user |-> NULL, admin |-> admin]
  <2>2. entry \in Member /\ entry.user = NULL /\ entry.email = e
    BY DEF Member
  <2>3. Insert(entry)
    BY <2>1
  <2> HIDE DEF entry
  <2> QED
    BY <2>1, <2>2, <2>3, InsertStep
<1> QED
  BY <1>1, <1>2

LEMMA DeleteMemberStep ==
  ASSUME IInv, DeleteMember
  PROVE  IInv'
<1>1. PICK m \in Live :
        /\ member' = [member EXCEPT ![m] = NULL]
        /\ person' = IF person[m] = NULL THEN person ELSE [person EXCEPT ![m].linked = FALSE]
        /\ Overtaken(request, sync, {m}, {})
        /\ UNCHANGED <<group, family, made, account, decided, unseen>>
  BY DEF DeleteMember
<1>2. /\ Others /\ TablesOK(member, person, made) /\ Unique(member) /\ InProgress
      /\ PersonFollows
  BY DEF IInv
<1>3. /\ DOMAIN member' = Ids /\ DOMAIN person' = Ids /\ member'[m] = NULL
      /\ \A n \in Ids \ {m} : member'[n] = member[n] /\ person'[n] = person[n]
      /\ person'[m] \in Person \cup {NULL} /\ (person[m] = NULL => person'[m] = NULL)
  <2>1. m \in Ids /\ person[m] \in Person \cup {NULL}
    BY <1>2 DEF TablesOK, Live
  <2>2. /\ DOMAIN member' = Ids /\ member'[m] = NULL
        /\ \A n \in Ids \ {m} : member'[n] = member[n]
    BY <1>1, <1>2, <2>1 DEF TablesOK
  <2>3. CASE person[m] = NULL
    BY <1>1, <1>2, <2>2, <2>3 DEF TablesOK
  <2>4. CASE person[m] # NULL
    <3> DEFINE p == [person[m] EXCEPT !.linked = FALSE]
    <3>1. p \in Person
      BY <2>1, <2>4 DEF Person
    <3>2. person' = [person EXCEPT ![m] = p]
      BY <1>1, <2>4
    <3> HIDE DEF p
    <3> QED
      BY <1>2, <2>1, <2>2, <2>4, <3>1, <3>2 DEF TablesOK
  <2> QED
    BY <2>3, <2>4
<1>4. Rows(member') = Rows(member) \ {m} /\ m \in Ids
  BY <1>3 DEF Rows, Live
<1>5. m \in 1..made
  BY <1>2, <1>4, HouseholdsAssumption DEF TablesOK, Live, Others, Ids
<1>6. TablesOK(member', person', made')
  <2>1. ~(m > made)
    BY <1>2, <1>5 DEF Others
  <2>2. ASSUME NEW n \in Ids
        PROVE  /\ member'[n] \in Member \cup {NULL} /\ person'[n] \in Person \cup {NULL}
               /\ n > made => member'[n] = NULL /\ person'[n] = NULL
    BY <1>2, <1>3, <2>1 DEF TablesOK
  <2>3. \A n \in Rows(member') : person'[n] # NULL => person'[n].linked = TRUE
    BY <1>2, <1>3, <1>4 DEF TablesOK, Rows
  <2> QED
    BY <1>1, <1>3, <2>2, <2>3 DEF TablesOK
<1>7. Unique(member')
  BY <1>2, <1>3, <1>4 DEF Unique, Rows
<1>8. Others'
  BY <1>1, <1>2, <1>4 DEF Others
<1>9. InProgress'
  <2>1. \A n \in (1..made) \ {m} : member'[n] = member[n] /\ person'[n] = person[n]
    BY <1>2, <1>3, HouseholdsAssumption DEF Ids, Others
  <2>2. ProgressOK(request, sync, member, person, account, made)
    BY <1>2 DEF InProgress
  <2>3. 1..made \subseteq 1..made'
    BY <1>1
  <2>4. \A k \in Keys \ {} : account'[k] = account[k]
    BY <1>1
  <2> QED
    BY <1>1, <2>1, <2>2, <2>3, <2>4, OvertakenOK
<1>10. PersonFollows'
  BY <1>1, <1>2, <1>3 DEF PersonFollows, Live
<1> QED
  BY <1>6, <1>7, <1>8, <1>9, <1>10 DEF IInv

LEMMA DeleteFamilyStep ==
  ASSUME IInv, DeleteFamily
  PROVE  IInv'
<1>1. /\ member' = [m \in Ids |-> NULL] /\ person' = [m \in Ids |-> NULL]
      /\ account' = [k \in Keys |-> NULL]
      /\ request' = [r \in Requests |-> NULL] /\ sync' = [k \in Syncs |-> NULL]
      /\ unseen' = {} /\ UNCHANGED <<group, made, decided>>
  BY DEF DeleteFamily
<1>2. Rows(member') = {} /\ Live' = {}
  BY <1>1 DEF Rows, Live
<1>3. TablesOK(member', person', made')
  BY <1>1, <1>2 DEF TablesOK
<1>4. Others' /\ InProgress' /\ PersonFollows' /\ Unique(member')
  BY <1>1, <1>2 DEF IInv, Others, InProgress, ProgressOK, PersonFollows,
                     Unique
<1> QED
  BY <1>3, <1>4 DEF IInv

\* A person x made of one found as p that is there now as `is`: it is linked
\* if that one is, and an admin as next says if what was found is there.
Follower(x, p, next, is) ==
  /\ x \in Person
  /\ is = NULL \/ is.linked = TRUE => x.linked = TRUE
  /\ p = is => x.admin = next.admin

LEMMA EnsuredOK ==
  ASSUME NEW p \in Person \cup {NULL}, NEW is \in Person \cup {NULL}, NEW next \in Member,
         p = NULL <=> is = NULL
  PROVE  Follower(Ensured(p, next, is), p, next, is)
<1> DEFINE a == next.admin
           new == [linked |-> TRUE, admin |-> a]
           set == [is EXCEPT !.admin = a]
<1>1. a \in BOOLEAN
  BY DEF Member
<1>2. CASE p = NULL
  <2>1. Ensured(p, next, is) = new
    BY <1>2 DEF Ensured
  <2> HIDE DEF a
  <2>2. new = [linked |-> TRUE, admin |-> a]
    OBVIOUS
  <2> HIDE DEF new
  <2>3. new \in Person /\ new.linked = TRUE /\ new.admin = a
    BY <1>1, <2>2, PersonRow
  <2> QED
    BY <2>1, <2>3 DEF a, Follower
<1>3. CASE p # NULL
  <2>1. p \in Person /\ is \in Person
    BY <1>3
  <2>2. Ensured(p, next, is) = IF p.admin # a THEN set ELSE is
    BY <1>3 DEF Ensured
  <2> HIDE DEF a
  <2>3. set \in Person /\ set.linked = is.linked /\ set.admin = a
    BY <1>1, <2>1 DEF Person
  <2> HIDE DEF set
  <2> QED
    BY <1>3, <2>1, <2>2, <2>3, NullAssumption DEF a, Follower
<1> QED
  BY <1>2, <1>3

LEMMA CommitStep ==
  ASSUME IInv, NEW r \in Requests, Commit(r)
  PROVE  IInv'
<1> DEFINE q == request[r]
           ms == DOMAIN q.was
           Found(m, early) == IF m \in early THEN q.persons[m] ELSE person[m]
<1>1. /\ q # NULL
      /\ \A m \in ms : q.next[m] # q.was[m] => m \in Live
      /\ member' = [m \in Ids |-> IF m \in ms /\ q.next[m] # q.was[m]
                      THEN [member[m] EXCEPT !.admin = q.next[m].admin] ELSE member[m]]
      /\ Overtaken([request EXCEPT ![r] = NULL], sync, ms, KeysOf(q.was))
      /\ UNCHANGED <<group, family, made, decided>>
  BY DEF Commit
<1>2. PICK early \in SUBSET ms :
        /\ \A m \in ms :
             IF Found(m, early) = NULL THEN person[m] = NULL /\ m \in Live
             ELSE person[m] # NULL
        /\ person' = [m \in Ids |-> IF m \in ms
                        THEN Ensured(Found(m, early), q.next[m], person[m])
                        ELSE person[m]]
  BY DEF Commit
<1>17. PICK w \in Winners(q.was) :
        /\ \E left \in SUBSET {k \in DOMAIN w : q.accounts[k] = w[k]} : Upsert(w, left)
        /\ unseen' = IF q.alone THEN (unseen \ ms) \cup Displaced(w)
                     ELSE unseen \cup {m \in Live : m \in ms \/ KeyOf[member[m].email] \in DOMAIN w}
  BY DEF Commit
<1>18. PICK left \in SUBSET {k \in DOMAIN w : q.accounts[k] = w[k]} : Upsert(w, left)
  BY <1>17
<1>3. /\ Others /\ TablesOK(member, person, made) /\ Unique(member) /\ InProgress
      /\ PersonFollows
  BY DEF IInv
<1>4. RequestOK(q, member, person, account, made)
  BY <1>1, <1>3 DEF InProgress, ProgressOK
<1> HIDE DEF q
<1>5. /\ ms \subseteq 1..made /\ ms \subseteq Ids
      /\ \A m \in ms : /\ q.was[m] \in Member /\ q.next[m] \in Member
                       /\ q.persons[m] \in Person \cup {NULL}
                       /\ q.alone => member[m] = q.was[m] /\ person[m] = q.persons[m]
      /\ q.alone => \A k \in KeysOf(q.was) : account[k] = q.accounts[k]
  BY <1>3, <1>4, HouseholdsAssumption DEF RequestOK, Others, Ids
<1>19. /\ KeysOf(q.was) \subseteq Keys
       /\ \A m \in ms : KeyOf[q.was[m].email] \in KeysOf(q.was)
  BY <1>5, KeysTyped
<1>20. /\ DOMAIN w = KeysOf(q.was)
       /\ \A k \in DOMAIN w : w[k] \in ms /\ KeyOf[q.was[w[k]].email] = k
  BY <1>17 DEF Winners
<1> HIDE DEF ms
<1>6. ASSUME NEW m \in ms
      PROVE  /\ person'[m] \in Person
             /\ person[m] = NULL \/ person[m].linked = TRUE => person'[m].linked = TRUE
             /\ q.alone => person'[m].admin = q.next[m].admin
             /\ person[m] = NULL => m \in Live
  <2> DEFINE p == Found(m, early)
             is == person[m]
             next == q.next[m]
  <2>1. p \in Person \cup {NULL} /\ is \in Person \cup {NULL} /\ next \in Member
    BY <1>3, <1>5 DEF TablesOK
  <2>2. (p = NULL <=> is = NULL) /\ (p = NULL => m \in Live)
    BY <1>2
  <2>3. q.alone => p = is
    BY <1>5
  <2>4. person'[m] = Ensured(p, next, is)
    BY <1>2, <1>5
  <2> HIDE DEF p, is, next
  <2>5. Follower(person'[m], p, next, is)
    BY <2>1, <2>2, <2>4, EnsuredOK
  <2> QED
    BY <2>2, <2>3, <2>5 DEF is, next, Follower
<1>7. /\ DOMAIN person' = Ids
      /\ \A m \in Ids \ ms : person'[m] = person[m]
  BY <1>2
<1>8. ASSUME NEW m \in Ids
      PROVE  /\ member'[m] \in Member \cup {NULL} /\ (member'[m] = NULL <=> member[m] = NULL)
             /\ member[m] # NULL => /\ member'[m].email = member[m].email
                                    /\ member'[m].user = member[m].user
             /\ m \notin ms => member'[m] = member[m]
             /\ m \in ms /\ m \in Live /\ q.alone => member'[m].admin = q.next[m].admin
  <2>1. member[m] \in Member \cup {NULL}
    BY <1>3 DEF TablesOK
  <2>2. CASE m \in ms /\ q.next[m] # q.was[m]
    <3> DEFINE a == q.next[m].admin
    <3>1. member[m] \in Member /\ member[m] # NULL
      BY <1>1, <2>1, <2>2 DEF Live
    <3>2. member'[m] = [member[m] EXCEPT !.admin = a]
      BY <1>1, <2>2
    <3>3. a \in BOOLEAN
      BY <1>5, <2>2 DEF Member
    <3> HIDE DEF a
    <3>4. /\ member'[m] \in Member /\ member'[m].email = member[m].email
          /\ member'[m].user = member[m].user /\ member'[m].admin = a
      BY <3>1, <3>2, <3>3 DEF Member
    <3> QED
      BY <2>2, <3>1, <3>4, NullAssumption DEF a
  <2>3. CASE ~(m \in ms /\ q.next[m] # q.was[m])
    <3>1. member'[m] = member[m]
      BY <1>1, <2>3
    <3> QED
      BY <1>5, <2>1, <2>3, <3>1
  <2> QED
    BY <2>2, <2>3
<1>9. DOMAIN member' = Ids
  BY <1>1
<1>10. Rows(member') = Rows(member) /\ Live = Rows(member) /\ Live' = Rows(member)
  BY <1>8 DEF Rows, Live
<1>11. TablesOK(member', person', made')
  <2>1. ASSUME NEW n \in Ids
        PROVE  /\ member'[n] \in Member \cup {NULL} /\ person'[n] \in Person \cup {NULL}
               /\ n > made => member'[n] = NULL /\ person'[n] = NULL
    <3>1. n > made => n \notin ms
      BY <1>3, <1>5, HouseholdsAssumption DEF Others, Ids
    <3> QED
      BY <1>3, <1>6, <1>7, <1>8, <3>1 DEF TablesOK
  <2>2. \A n \in Rows(member') : person'[n] # NULL => person'[n].linked = TRUE
    BY <1>3, <1>6, <1>7, <1>10 DEF TablesOK, Rows
  <2> QED
    BY <1>1, <1>7, <1>9, <2>1, <2>2 DEF TablesOK
<1>12. Unique(member')
  BY <1>3, <1>8, <1>10 DEF Unique, Rows
<1>13. /\ DOMAIN account' = Keys /\ \A k \in Keys : account'[k] \in Ids \cup {NULL}
       /\ \A k \in Keys \ KeysOf(q.was) : account'[k] = account[k]
       /\ \A k \in KeysOf(q.was) : q.alone => account'[k] = w[k]
  <2>1. /\ DOMAIN w \subseteq Keys
        /\ \A k \in DOMAIN w : w[k] \in Ids
    BY <1>5, <1>19, <1>20
  <2>2. /\ DOMAIN account' = Keys
        /\ \A k \in Keys : account'[k] \in Ids \cup {NULL}
        /\ \A k \in Keys : k \notin DOMAIN w => account'[k] = account[k]
        /\ \A k \in DOMAIN w : k \notin left => account'[k] = w[k]
        /\ \A k \in DOMAIN w : account[k] = w[k] => account'[k] = w[k]
    BY <1>3, <1>18, <2>1, UpsertOK
  <2>3. \A k \in KeysOf(q.was) : q.alone /\ k \in left => account[k] = w[k]
    BY <1>5, <1>18
  <2> QED
    BY <1>20, <2>2, <2>3
<1>14. Others'
  <2>1. unseen' \subseteq Ids
    BY <1>3, <1>17 DEF Others, Live, Displaced
  <2> QED
    BY <1>1, <1>3, <1>10, <1>13, <2>1 DEF Others
<1>15. InProgress'
  <2> DEFINE requests == [request EXCEPT ![r] = NULL]
  <2>1. ProgressOK(requests, sync, member, person, account, made)
    BY <1>3 DEF InProgress, ProgressOK
  <2>2. \A m \in (1..made) \ ms : member'[m] = member[m] /\ person'[m] = person[m]
    BY <1>3, <1>7, <1>8, HouseholdsAssumption DEF Ids, Others
  <2>3. 1..made \subseteq 1..made' /\ Overtaken(requests, sync, ms, KeysOf(q.was))
    BY <1>1
  <2> HIDE DEF requests
  <2> QED
    BY <1>13, <2>1, <2>2, <2>3, OvertakenOK
<1>16. PersonFollows'
  <2> SUFFICES ASSUME NEW m \in Rows(member) \ unseen'
               PROVE  /\ person'[m] = [linked |-> TRUE, admin |-> member'[m].admin]
                      /\ account'[KeyOf[member'[m].email]] = m
    BY <1>10 DEF PersonFollows
  <2> DEFINE key == KeyOf[member[m].email]
  <2>1. /\ m \in Ids /\ member[m] \in Member /\ key \in Keys
        /\ member'[m].email = member[m].email
    BY <1>3, <1>8, HouseholdsAssumption DEF TablesOK, Rows, Member
  <2>2. CASE m \in ms
    <3>1. q.alone
      BY <1>10, <1>17, <2>2
    <3>2. q.was[m] = member[m] /\ key \in KeysOf(q.was)
      BY <1>5, <1>19, <2>2, <3>1
    <3>3. account'[key] = m
      <4>1. w[key] = m
        BY <1>10, <1>17, <1>20, <3>1, <3>2 DEF Displaced
      <4> QED
        BY <1>13, <3>1, <3>2, <4>1
    <3>4. person[m] # NULL => person[m].linked = TRUE
      BY <1>3 DEF TablesOK
    <3>5. person'[m] \in Person /\ person'[m].linked = TRUE
          /\ person'[m].admin = member'[m].admin
      BY <1>6, <1>8, <1>10, <2>1, <2>2, <3>1, <3>4
    <3> DEFINE a == member'[m].admin
    <3>6. a \in BOOLEAN
      <4>1. member'[m] \in Member
        BY <1>8, <2>1, NullAssumption
      <4> QED
        BY <4>1 DEF Member
    <3> HIDE DEF a
    <3>7. person'[m] = [linked |-> TRUE, admin |-> a]
      BY <3>5, <3>6, PersonRow, Zenon DEF a
    <3> QED
      BY <2>1, <3>3, <3>7 DEF a
  <2>3. CASE m \notin ms
    <3>1. /\ m \in Live \ unseen
          /\ key \in KeysOf(q.was) => q.alone /\ w[key] = m
      BY <1>10, <1>17, <1>20, <2>3 DEF Displaced
    <3>2. /\ person[m] = [linked |-> TRUE, admin |-> member[m].admin]
          /\ account[key] = m
      BY <1>3, <3>1 DEF PersonFollows
    <3>3. key \notin KeysOf(q.was)
      BY <1>20, <2>3, <3>1
    <3>4. account'[key] = account[key]
      BY <1>13, <2>1, <3>3
    <3> QED
      BY <1>7, <1>8, <2>1, <2>3, <3>2, <3>4
  <2> QED
    BY <2>2, <2>3
<1> QED
  BY <1>11, <1>12, <1>14, <1>15, <1>16 DEF IInv

---------------------------------------------------------------------------
(* The synchronisation                                                     *)

LEMMA BeginSyncStep ==
  ASSUME IInv, NEW k \in Syncs, BeginSync(k)
  PROVE  IInv'
<1> DEFINE ms == {n \in Live : member[n].user # NULL}
           known == [m \in ms |-> member[m]]
           s == [group |-> group, family |-> family, alone |-> TRUE, known |-> known]
<1>1. /\ sync' = [sync EXCEPT ![k] = s]
      /\ UNCHANGED <<group, family, made, member, person, account, decided, request, unseen>>
  BY DEF BeginSync
<1>2. /\ DOMAIN s = {"group", "family", "alone", "known"}
      /\ s.group = group /\ s.known = known
  OBVIOUS
<1>3. /\ DOMAIN known \subseteq Ids
      /\ \A m \in DOMAIN known : /\ known[m] \in Member /\ known[m].user # NULL
                                 /\ member[m] = known[m]
      /\ \A m \in Rows(member) : member[m].user # NULL => m \in DOMAIN known
  BY DEF IInv, TablesOK, Live, Rows
<1> HIDE DEF known, s
<1>4. SyncOK(s, member)
  BY <1>2, <1>3 DEF SyncOK, IInv, Others
<1>5. InProgress'
  BY <1>1, <1>4 DEF IInv, InProgress, ProgressOK
<1>6. GroupOK(group') /\ decided' \in BOOLEAN
  BY <1>1 DEF IInv, Others
<1> QED
  BY <1>1, <1>5, <1>6, TablesKept

\* Every user who joined gets one row: no two rows are for one user.
LEMMA SurjectionInjects ==
  ASSUME NEW S, NEW ids, IsFiniteSet(ids), Cardinality(ids) = Cardinality(S),
         NEW f \in Surjection(ids, S)
  PROVE  IsInjective(f)
<1>1. f \in Injection(ids, S)
  BY FS_SurjSameCardinalityImpliesInj
<1> QED
  BY <1>1 DEF Injection

LEMMA IntervalSize ==
  ASSUME NEW n \in Nat, NEW c \in Nat
  PROVE  IsFiniteSet(n + 1..n + c) /\ Cardinality(n + 1..n + c) = c
<1> DEFINE i == n + 1  j == n + c
<1>1. i \in Int /\ j \in Int
  OBVIOUS
<1>2. IsFiniteSet(i..j) /\ Cardinality(i..j) = IF i > j THEN 0 ELSE j - i + 1
  BY <1>1, FS_Interval
<1>3. (IF i > j THEN 0 ELSE j - i + 1) = c
  OBVIOUS
<1> QED
  BY <1>2, <1>3

\* The address of a member when the synchronisation r has moved it.
After(r, m) == IF m \in Moved(r) THEN NewEmail(r, m) ELSE member[m].email

\* What the synchronisation r makes of the rows; user: who joined as whom.
SyncedRows(r, ids, user) ==
  /\ ids \subseteq Ids /\ ids \cap 1..made = {}
  /\ \A m \in ids : /\ user[m] \in Joined(r) /\ member'[m] \in Member
                    /\ member'[m].user = user[m]
                    /\ member'[m].email = r.group[user[m]]
  /\ \A u \in Joined(r) : \E m \in ids : user[m] = u
  /\ \A m, n \in ids : m # n => user[m] # user[n]
  /\ \A m \in Ids \ ids :
       /\ m \in Left(r) \/ member[m] = NULL => member'[m] = NULL
       /\ m \notin Left(r) /\ member[m] # NULL =>
            /\ member'[m] \in Member /\ member'[m].user = member[m].user
            /\ member'[m].email = After(r, m)
       /\ m \notin Left(r) \cup Moved(r) => member'[m] = member[m]

LEMMA CommitSyncRows ==
  ASSUME IInv, NEW k \in Syncs, CommitSync(k), NEW ids,
         ids = made + 1..made + Cardinality(Joined(sync[k]))
  PROVE  /\ SyncOK(sync[k], member)
         /\ made + Cardinality(Joined(sync[k])) \in Nat
         /\ \A u \in Joined(sync[k]) : /\ u \in Users /\ u # NULL /\ u \in DOMAIN sync[k].group
                                        /\ sync[k].group[u] # NULL
         /\ \E user : SyncedRows(sync[k], ids, user)
<1> DEFINE r == sync[k]
           joined == Joined(r)
<1>1. /\ r # NULL /\ Accepted(r) /\ ids \subseteq Ids
      /\ \E user \in [ids -> joined] :
           /\ \A u \in joined : \E m \in ids : user[m] = u
           /\ member' = [m \in Ids |->
                IF m \in ids THEN [email |-> r.group[user[m]], user |-> user[m], admin |-> FALSE]
                ELSE IF m \in Left(r) THEN NULL
                ELSE IF m \in Moved(r) THEN [member[m] EXCEPT !.email = NewEmail(r, m)]
                ELSE member[m]]
  BY DEF CommitSync
<1>2. SyncOK(r, member)
  BY <1>1 DEF IInv, InProgress, ProgressOK
<1> HIDE DEF r
<1>3. /\ GroupOK(r.group) /\ DOMAIN r.known \subseteq Ids
      /\ \A m \in DOMAIN r.known : r.known[m] \in Member /\ r.known[m].user # NULL
  BY <1>2 DEF SyncOK
<1>4. /\ joined \subseteq Users /\ joined \subseteq DOMAIN r.group
      /\ \A u \in joined : u # NULL /\ r.group[u] # NULL /\ r.group[u] \in Emails
  BY <1>3, NullAssumption DEF Joined, GroupOK
<1>5. IsFiniteSet(joined) /\ made \in Nat
  BY <1>4, HouseholdsAssumption, FS_Subset DEF IInv, Others
<1>6. Cardinality(joined) \in Nat
  BY <1>5, FS_CardinalityType
<1> HIDE DEF joined
<1>7. ids = made + 1..made + Cardinality(joined)
  BY DEF joined, r
<1>8. ids \cap 1..made = {}
  BY <1>5, <1>6, <1>7
<1>9. PICK user \in [ids -> joined] :
        /\ \A u \in joined : \E m \in ids : user[m] = u
        /\ member' = [m \in Ids |->
             IF m \in ids THEN [email |-> r.group[user[m]], user |-> user[m], admin |-> FALSE]
             ELSE IF m \in Left(r) THEN NULL
             ELSE IF m \in Moved(r) THEN [member[m] EXCEPT !.email = NewEmail(r, m)]
             ELSE member[m]]
  BY <1>1
<1>10. \A m, n \in ids : m # n => user[m] # user[n]
  <2>1. IsFiniteSet(ids) /\ Cardinality(ids) = Cardinality(joined)
    BY <1>5, <1>6, <1>7, IntervalSize
  <2>2. user \in Surjection(ids, joined)
    BY <1>9 DEF Surjection
  <2>3. IsInjective(user) /\ DOMAIN user = ids
    BY <2>1, <2>2, SurjectionInjects
  <2> QED
    BY <2>3 DEF IsInjective
<1>11. ASSUME NEW m \in ids
       PROVE  /\ user[m] \in joined /\ member'[m] \in Member
              /\ member'[m].user = user[m] /\ member'[m].email = r.group[user[m]]
  <2> DEFINE u == user[m]  e == r.group[u]
  <2>1. u \in joined /\ u \in Users /\ e \in Emails
    BY <1>4, <1>9
  <2>2. member'[m] = [email |-> e, user |-> u, admin |-> FALSE]
    BY <1>1, <1>9
  <2> HIDE DEF u, e
  <2> QED
    BY <2>1, <2>2 DEF u, e, Member
<1>12. ASSUME NEW m \in Ids \ ids
       PROVE  /\ m \in Left(r) \/ member[m] = NULL => member'[m] = NULL
              /\ m \notin Left(r) /\ member[m] # NULL =>
                   /\ member'[m] \in Member /\ member'[m].user = member[m].user
                   /\ member'[m].email = After(r, m)
              /\ m \notin Left(r) \cup Moved(r) => member'[m] = member[m]
  <2>1. member[m] \in Member \cup {NULL}
    BY DEF IInv, TablesOK
  <2>2. m \in Moved(r) => member[m] # NULL
    BY <1>1 DEF Accepted, Live
  <2>3. CASE m \in Left(r)
    BY <1>9, <2>3 DEF Left
  <2>4. CASE m \notin Left(r) /\ m \in Moved(r)
    <3> DEFINE e == NewEmail(r, m)
    <3>1. e \in Emails
      BY <1>3, <2>4 DEF Moved, Left, NewEmail, GroupOK
    <3>2. member'[m] = [member[m] EXCEPT !.email = e]
      BY <1>9, <2>4
    <3> HIDE DEF e
    <3>3. member'[m] \in Member /\ member'[m].user = member[m].user /\ member'[m].email = e
      BY <2>1, <2>2, <2>4, <3>1, <3>2 DEF Member
    <3> QED
      BY <2>2, <2>4, <3>3 DEF e, After
  <2>5. CASE m \notin Left(r) /\ m \notin Moved(r)
    BY <1>9, <2>1, <2>5 DEF After
  <2> QED
    BY <2>3, <2>4, <2>5
<1>13. SyncedRows(r, ids, user)
  BY <1>1, <1>8, <1>9, <1>10, <1>11, <1>12 DEF SyncedRows, joined
<1> QED
  BY <1>2, <1>4, <1>5, <1>6, <1>13 DEF r, joined

LEMMA CommitSyncStep ==
  ASSUME IInv, NEW k \in Syncs, CommitSync(k)
  PROVE  IInv'
<1> DEFINE r == sync[k]
           n == made + Cardinality(Joined(r))
           ids == made + 1..n
<1>1. SyncOK(r, member) /\ n \in Nat
      /\ \A u \in Joined(r) : /\ u \in Users /\ u # NULL /\ u \in DOMAIN r.group
                             /\ r.group[u] # NULL
  BY CommitSyncRows
<1>2. PICK user : SyncedRows(r, ids, user)
  BY CommitSyncRows
<1>3. /\ Accepted(r) /\ ids \subseteq Ids /\ family' = "keycloak" /\ made' = n
      /\ person' = [m \in Ids |-> IF m \in Left(r) /\ person[m] # NULL
                      THEN [person[m] EXCEPT !.linked = FALSE] ELSE person[m]]
      /\ unseen' = unseen \cup ids \cup Moved(r)
      /\ Overtaken(request, [sync EXCEPT ![k] = NULL], Left(r) \cup Moved(r), {})
      /\ UNCHANGED <<group, account, decided>>
      /\ DOMAIN member' = Ids
  BY DEF CommitSync
<1>4. /\ Others /\ TablesOK(member, person, made) /\ Unique(member) /\ InProgress
      /\ PersonFollows
  BY DEF IInv
<1>5. made' \in 0..MaxMembers /\ made <= made'
  <2>1. made \in Nat /\ MaxMembers \in Nat
    BY <1>4, HouseholdsAssumption DEF Others
  <2>2. Cardinality(Joined(r)) \in Nat
    <3>1. GroupOK(r.group)
      BY <1>1 DEF SyncOK
    <3>2. IsFiniteSet(Joined(r))
      BY <1>1, HouseholdsAssumption, FS_Subset
    <3> QED
      BY <3>2, FS_CardinalityType
  <2>3. CASE Cardinality(Joined(r)) = 0
    BY <1>3, <1>4, <2>1, <2>3 DEF Others
  <2>4. CASE Cardinality(Joined(r)) # 0
    <3>1. n \in ids
      BY <2>1, <2>2, <2>4
    <3> QED
      BY <1>3, <2>1, <2>2, <3>1 DEF Ids
  <2> QED
    BY <2>3, <2>4
<1> HIDE DEF ids, r
<1>6. /\ ids \subseteq Ids /\ ids \cap 1..made = {}
      /\ \A m \in ids : m <= made'
  <2> USE DEF ids
  <2>1. \A m \in ids : m <= made'
    BY <1>3, <1>4, <1>5, HouseholdsAssumption DEF Others
  <2> QED
    BY <1>2, <2>1 DEF SyncedRows
<1> HIDE DEF n
<1>7. /\ DOMAIN person' = Ids
      /\ \A m \in Ids : /\ person'[m] \in Person \cup {NULL}
                        /\ person[m] = NULL => person'[m] = NULL
                        /\ m \notin Left(r) => person'[m] = person[m]
  <2>1. ASSUME NEW m \in Ids
        PROVE  /\ person'[m] \in Person \cup {NULL}
               /\ person[m] = NULL => person'[m] = NULL
               /\ m \notin Left(r) => person'[m] = person[m]
    <3>1. person[m] \in Person \cup {NULL}
      BY <1>4 DEF TablesOK
    <3>2. CASE m \in Left(r) /\ person[m] # NULL
      <4> DEFINE p == [person[m] EXCEPT !.linked = FALSE]
      <4>1. p \in Person
        BY <3>1, <3>2 DEF Person
      <4>2. person'[m] = p
        BY <1>3, <3>2
      <4> HIDE DEF p
      <4> QED
        BY <3>2, <4>1, <4>2
    <3>3. CASE ~(m \in Left(r) /\ person[m] # NULL)
      BY <1>3, <3>1, <3>3
    <3> QED
      BY <3>2, <3>3
  <2> QED
    BY <1>3, <2>1
<1>8. /\ \A m \in ids : member'[m] \in Member /\ member[m] = NULL /\ person[m] = NULL
      /\ \A m \in Ids \ ids : member'[m] \in Member \cup {NULL}
      /\ \A m \in Ids \ ids : member[m] = NULL => member'[m] = NULL
      /\ \A m \in Ids \ ids : member'[m] # NULL => m \in Rows(member) /\ m \notin Left(r)
  <2>1. \A m \in ids : m > made
    BY <1>4, <1>6, HouseholdsAssumption DEF Others, Ids
  <2>2. \A m \in ids : member[m] = NULL /\ person[m] = NULL
    BY <1>4, <1>6, <2>1 DEF TablesOK
  <2> QED
    BY <1>2, <2>2 DEF SyncedRows, Rows
<1>9. TablesOK(member', person', made')
  <2>1. ASSUME NEW m \in Ids
        PROVE  /\ member'[m] \in Member \cup {NULL} /\ person'[m] \in Person \cup {NULL}
               /\ m > made' => member'[m] = NULL /\ person'[m] = NULL
    <3>1. m > made' => m \notin ids /\ m > made
      BY <1>4, <1>5, <1>6, HouseholdsAssumption DEF Others, Ids
    <3> QED
      BY <1>4, <1>7, <1>8, <3>1 DEF TablesOK
  <2>2. ASSUME NEW m \in Rows(member'), person'[m] # NULL
        PROVE  person'[m].linked = TRUE
    <3>1. m \in Ids /\ member'[m] # NULL /\ person[m] # NULL
      BY <1>7, <2>2 DEF Rows
    <3>2. m \in Rows(member) /\ m \notin Left(r)
      BY <1>8, <3>1
    <3> QED
      BY <1>4, <1>7, <3>1, <3>2 DEF TablesOK
  <2> QED
    BY <1>3, <1>7, <2>1, <2>2 DEF TablesOK
<1>10. Unique(member')
  <2>1. ASSUME NEW m \in Rows(member) \ ids, m \notin Left(r),
               NEW l \in Rows(member) \ ids, l \notin Left(r), l < m
        PROVE  After(r, m) # After(r, l)
    <3>1. member[m].email # member[l].email
      BY <1>4, <2>1 DEF Unique, Rows, Ids
    <3>2. \A a \in Moved(r), b \in Live : a # b =>
            NewEmail(r, a) # (IF b < a THEN After(r, b) ELSE member[b].email)
      BY <1>3 DEF Accepted, After
    <3>3. m \in Live /\ l \in Live /\ m # l /\ ~(m < l)
      BY <2>1, HouseholdsAssumption DEF Live, Rows, Ids
    <3>4. m \in Moved(r) => NewEmail(r, m) # After(r, l)
      BY <2>1, <3>2, <3>3
    <3>5. l \in Moved(r) => NewEmail(r, l) # member[m].email
      BY <2>1, <3>2, <3>3
    <3> QED
      BY <3>1, <3>4, <3>5 DEF After
  <2>2. ASSUME NEW m \in Rows(member') \ ids
        PROVE  /\ m \in Rows(member) \ ids /\ m \notin Left(r) /\ m \in Live
               /\ member'[m].email = After(r, m) /\ member'[m].user = member[m].user
    BY <1>2, <1>8 DEF SyncedRows, Rows, Live
  <2>3. ASSUME NEW m \in Rows(member') \ ids, NEW l \in ids
        PROVE  member'[m].email # member'[l].email /\ member'[m].user # member'[l].user
    <3>1. /\ user[l] \in Joined(r) /\ member'[l].user = user[l]
          /\ member'[l].email = r.group[user[l]]
      BY <1>2 DEF SyncedRows
    <3>2. After(r, m) # r.group[user[l]] /\ member[m].user # user[l]
      BY <1>3, <2>2, <3>1 DEF Accepted, After
    <3> QED
      BY <2>2, <3>1, <3>2
  <2>4. ASSUME NEW m \in ids, NEW l \in ids, m # l
        PROVE  member'[m].email # member'[l].email /\ member'[m].user # member'[l].user
    <3>1. /\ user[m] \in Joined(r) /\ user[l] \in Joined(r) /\ user[m] # user[l]
          /\ member'[m].user = user[m] /\ member'[m].email = r.group[user[m]]
          /\ member'[l].user = user[l] /\ member'[l].email = r.group[user[l]]
      BY <1>2, <2>4 DEF SyncedRows
    <3>2. r.group[user[m]] # r.group[user[l]]
      BY <1>1, <3>1 DEF SyncOK, GroupOK
    <3> QED
      BY <3>1, <3>2
  <2>5. ASSUME NEW m \in Rows(member') \ ids, NEW l \in Rows(member') \ ids, m # l
        PROVE  /\ member'[m].email # member'[l].email
               /\ member'[m].user = NULL \/ member'[m].user # member'[l].user
    <3>1. m < l \/ l < m
      BY <2>5, HouseholdsAssumption DEF Rows, Ids
    <3>2. After(r, m) # After(r, l)
      BY <2>1, <2>2, <3>1
    <3>3. member[m].user = NULL \/ member[m].user # member[l].user
      BY <1>4, <2>2, <2>5 DEF Unique
    <3> QED
      BY <2>2, <3>2, <3>3
  <2> QED
    BY <2>3, <2>4, <2>5 DEF Unique
<1>11. Others'
  <2>1. unseen' \subseteq Ids
    BY <1>3, <1>4, <1>6 DEF Others, Accepted, Live
  <2>2. family' # NULL
    BY <1>3, NullAssumption
  <2> QED
    BY <1>3, <1>4, <1>5, <2>1, <2>2 DEF Others
<1>12. InProgress'
  <2> DEFINE syncs == [sync EXCEPT ![k] = NULL]
             ms == Left(r) \cup Moved(r)
  <2>1. ProgressOK(request, syncs, member, person, account, made)
    BY <1>4 DEF InProgress, ProgressOK
  <2>2. \A m \in (1..made) \ ms : member'[m] = member[m] /\ person'[m] = person[m]
    <3>1. 1..made \subseteq Ids \ ids
      BY <1>4, <1>6, HouseholdsAssumption DEF Ids, Others
    <3> QED
      BY <1>2, <1>7, <3>1 DEF SyncedRows
  <2>3. 1..made \subseteq 1..made'
    BY <1>4, <1>5, HouseholdsAssumption DEF Others
  <2>4. Overtaken(request, syncs, ms, {}) /\ \A x \in Keys \ {} : account'[x] = account[x]
    BY <1>3
  <2> HIDE DEF syncs, ms
  <2> QED
    BY <2>1, <2>2, <2>3, <2>4, OvertakenOK
<1>13. PersonFollows'
  <2> SUFFICES ASSUME NEW m \in Rows(member') \ unseen'
               PROVE  /\ person'[m] = [linked |-> TRUE, admin |-> member'[m].admin]
                      /\ account'[KeyOf[member'[m].email]] = m
    BY DEF PersonFollows, Live, Rows
  <2>1. /\ m \in Ids \ ids /\ m \notin Moved(r) /\ m \notin unseen
        /\ m \in Rows(member) /\ m \notin Left(r)
    BY <1>3, <1>8 DEF Rows
  <2>2. member'[m] = member[m] /\ person'[m] = person[m]
    BY <1>2, <1>7, <2>1 DEF SyncedRows
  <2> QED
    BY <1>3, <1>4, <2>1, <2>2 DEF PersonFollows, Live, Rows
<1> QED
  BY <1>9, <1>10, <1>11, <1>12, <1>13 DEF IInv

---------------------------------------------------------------------------
(* Theorems                                                                *)

LEMMA InitIInv == Init => IInv
<1> SUFFICES ASSUME Init PROVE IInv
  OBVIOUS
<1>1. Rows(member) = {} /\ Live = {} /\ DOMAIN group = {}
  BY DEF Init, Rows, Live
<1>2. Others
  <2>1. GroupOK(group)
    BY <1>1, Zenon DEF GroupOK
  <2>2. made = 0 /\ 0 \in 0..MaxMembers /\ decided = FALSE /\ unseen = {}
    BY HouseholdsAssumption DEF Init
  <2>3. DOMAIN account = Keys /\ \A x \in Keys : account[x] = NULL
    BY DEF Init
  <2> QED
    BY <1>1, <2>1, <2>2, <2>3 DEF Others
<1>3. TablesOK(member, person, made) /\ Unique(member) /\ PersonFollows
  BY <1>1 DEF Init, TablesOK, Unique, PersonFollows
<1>4. InProgress
  BY DEF Init, InProgress, ProgressOK
<1> QED
  BY <1>2, <1>3, <1>4 DEF IInv

LEMMA NextIInv == IInv /\ [Next]_vars => IInv'
<1> SUFFICES ASSUME IInv, [Next]_vars PROVE IInv'
  OBVIOUS
<1>1. CASE ChangeGroup
  BY <1>1, GroupStep
<1>2. CASE CreateFamily \/ CreateMember
  BY <1>2, CreateSteps
<1>3. CASE DeleteMember
  BY <1>3, DeleteMemberStep
<1>4. CASE Decide
  BY <1>4, DecideStep
<1>5. CASE DeleteFamily
  BY <1>5, DeleteFamilyStep
<1>6. ASSUME NEW r \in Requests, UpdateMember(r) \/ Visit(r) \/ ListPersons(r) PROVE IInv'
  BY <1>6, BeginSteps
<1>7. ASSUME NEW r \in Requests, Commit(r) PROVE IInv'
  BY <1>7, CommitStep
<1>8. ASSUME NEW k \in Syncs, BeginSync(k) PROVE IInv'
  BY <1>8, BeginSyncStep
<1>9. ASSUME NEW k \in Syncs, CommitSync(k) PROVE IInv'
  BY <1>9, CommitSyncStep
<1>10. CASE Rollback
  BY <1>10, RollbackStep
<1>11. CASE UNCHANGED vars
  <2>1. GroupOK(group') /\ decided' \in BOOLEAN /\ InProgress'
    BY <1>11 DEF vars, IInv, Others, InProgress, ProgressOK
  <2> QED
    BY <1>11, <2>1, TablesKept DEF vars
<1> QED
  BY <1>1, <1>2, <1>3, <1>4, <1>5, <1>6, <1>7, <1>8, <1>9, <1>10, <1>11 DEF Next

\* The invariant says what the tables can hold.
LEMMA TypedRows == IInv => TypeOK
<1> SUFFICES ASSUME IInv PROVE TypeOK
  OBVIOUS
<1>1. \A m, n \in Live : m # n =>
        /\ member[m].email # member[n].email
        /\ member[m].user = NULL \/ member[m].user # member[n].user
  BY DEF IInv, Unique, Live, Rows
<1>2. \A m \in Ids : member[m] \in Member \cup {NULL} /\ person[m] \in Person \cup {NULL}
  BY DEF IInv, TablesOK
<1> QED
  BY <1>1, <1>2 DEF TypeOK, IInv, Others

\* No two members of the family share an address or a Keycloak user, whatever
\* synchronisations and requests overlap (the unique indexes refuse no row
\* that these steps write).
THEOREM HouseholdTyped == Spec => []TypeOK
BY TypedRows, InitIInv, NextIInv, PTL DEF Spec

\* The person of a member that a request has looked at since it last changed
\* is linked to it, is an admin when it is and has the account of its address,
\* unless that was made another member's since.
THEOREM PersonsFollow == Spec => []PersonFollows
<1>1. IInv => PersonFollows
  BY DEF IInv
<1> QED
  BY <1>1, InitIInv, NextIInv, PTL DEF Spec

LEMMA MirrorsStep ==
  ASSUME IInv, NEW k \in Syncs, CommitSync(k), sync[k].alone
  PROVE  Enrolled' = Mirrored(sync[k].group)
<1> DEFINE r == sync[k]
           ids == made + 1..made + Cardinality(Joined(r))
           g == r.group
<1>1. /\ SyncOK(r, member)
      /\ \A u \in Joined(r) : u \in Users /\ u # NULL /\ u \in DOMAIN g /\ g[u] # NULL
  BY CommitSyncRows
<1>2. PICK user : SyncedRows(r, ids, user)
  BY CommitSyncRows
<1>3. r.alone
  OBVIOUS
<1> HIDE DEF ids, r
<1>4. /\ \A m \in DOMAIN r.known : m \in Ids /\ r.known[m] = member[m] /\ member[m] # NULL
      /\ \A m \in Rows(member) : member[m].user # NULL => m \in DOMAIN r.known
      /\ \A m \in DOMAIN r.known : member[m].user # NULL
  BY <1>1, <1>3, NullAssumption DEF SyncOK
<1>5. ASSUME NEW m \in DOMAIN r.known
      PROVE  m \notin ids
  <2>1. \A l \in Ids : l \notin 1..made => member[l] = NULL
    BY HouseholdsAssumption DEF IInv, TablesOK, Others, Ids
  <2> QED
    BY <1>2, <1>4, <2>1 DEF SyncedRows
\* A member there was stays unless its user left, under the address it is given.
<1>6. ASSUME NEW m \in DOMAIN r.known, member[m].user \in DOMAIN g
      PROVE  /\ member'[m] # NULL /\ member'[m].user = member[m].user
             /\ g[member[m].user] = NULL => member'[m].email = member[m].email
             /\ g[member[m].user] # NULL => member'[m].email = g[member[m].user]
  <2>1. m \notin Left(r) /\ r.known[m] = member[m] /\ m \in Ids \ ids /\ member[m] # NULL
    BY <1>4, <1>5, <1>6 DEF Left
  <2>2. /\ member'[m] \in Member /\ member'[m].user = member[m].user
        /\ member'[m].email = After(r, m)
    BY <1>2, <2>1 DEF SyncedRows
  <2>3. m \in Moved(r) <=> g[member[m].user] \notin {NULL, member[m].email}
    BY <2>1 DEF Moved
  <2>4. After(r, m) = IF m \in Moved(r) THEN g[member[m].user] ELSE member[m].email
    BY <2>1 DEF After, NewEmail
  <2> QED
    BY <2>2, <2>3, <2>4, NullAssumption
<1>7. ASSUME NEW m \in Ids, member'[m] # NULL, member'[m].user # NULL
      PROVE  <<member'[m].user, member'[m].email>> \in Mirrored(g)
  <2>1. CASE m \in ids
    <3>1. /\ member'[m].user \in DOMAIN g /\ g[member'[m].user] # NULL
          /\ member'[m].email = g[member'[m].user]
      BY <1>1, <1>2, <2>1 DEF SyncedRows
    <3> QED
      BY <3>1 DEF Mirrored
  <2>2. CASE m \notin ids
    <3>1. m \notin Left(r) /\ member[m] # NULL /\ member'[m].user = member[m].user
      BY <1>2, <1>7, <2>2 DEF SyncedRows
    <3>2. m \in DOMAIN r.known /\ r.known[m] = member[m]
      BY <1>4, <1>7, <3>1 DEF Rows
    <3>3. member[m].user \in DOMAIN g
      BY <3>1, <3>2 DEF Left
    <3>4. CASE g[member[m].user] = NULL
      <4>1. <<member[m].user, member[m].email>> \in Enrolled
        BY <1>7, <3>1 DEF Enrolled, Live
      <4> QED
        BY <1>6, <3>1, <3>2, <3>3, <3>4, <4>1 DEF Mirrored
    <3>5. CASE g[member[m].user] # NULL
      BY <1>6, <3>1, <3>2, <3>3, <3>5 DEF Mirrored
    <3> QED
      BY <3>4, <3>5
  <2> QED
    BY <2>1, <2>2
<1>8. ASSUME NEW u \in DOMAIN g, g[u] # NULL
      PROVE  \E m \in Ids : /\ member'[m] # NULL /\ member'[m].user # NULL
                            /\ member'[m].user = u /\ member'[m].email = g[u]
  <2>1. CASE u \in Joined(r)
    <3>1. PICK m \in ids : user[m] = u
      BY <1>2, <2>1 DEF SyncedRows
    <3> QED
      BY <1>1, <1>2, <2>1, <3>1, NullAssumption DEF SyncedRows
  <2>2. CASE u \notin Joined(r)
    <3>1. PICK m \in DOMAIN r.known : r.known[m].user = u
      BY <1>8, <2>2 DEF Joined
    <3>2. m \in Ids /\ member[m].user = u /\ u # NULL
      BY <1>4, <3>1
    <3> QED
      BY <1>6, <1>8, <3>2
  <2> QED
    BY <2>1, <2>2
<1>9. ASSUME NEW m \in Live, member[m].user # NULL, member[m].user \in DOMAIN g,
             g[member[m].user] = NULL
      PROVE  /\ m \in Ids /\ member'[m] # NULL /\ member'[m].user # NULL
             /\ <<member[m].user, member[m].email>> = <<member'[m].user, member'[m].email>>
  <2>1. m \in DOMAIN r.known
    BY <1>4, <1>9 DEF Rows, Live
  <2> QED
    BY <1>6, <1>9, <2>1 DEF Live
<1> DEFINE after == {<<member'[m].user, member'[m].email>> :
                       m \in {n \in Ids : member'[n] # NULL /\ member'[n].user # NULL}}
<1>10. Enrolled' = after
  BY DEF Enrolled, Live
<1>11. after \subseteq Mirrored(g)
  BY <1>7
<1>12. ASSUME NEW x \in Mirrored(g)
       PROVE  x \in after
  <2>1. CASE x \in {<<u, g[u]>> : u \in {v \in DOMAIN g : g[v] # NULL}}
    BY <1>8, <2>1
  <2>2. CASE x \in {y \in Enrolled : y[1] \in DOMAIN g /\ g[y[1]] = NULL}
    <3>1. PICK m \in {n \in Live : member[n].user # NULL} :
            x = <<member[m].user, member[m].email>>
      BY <2>2 DEF Enrolled
    <3>2. member[m].user \in DOMAIN g /\ g[member[m].user] = NULL
      BY <2>2, <3>1
    <3> QED
      BY <1>9, <3>1, <3>2
  <2> QED
    BY <2>1, <2>2 DEF Mirrored
<1> QED
  BY <1>10, <1>11, <1>12 DEF r

\* A synchronisation that nothing overtook leaves as the family's Keycloak
\* members those the group it found asks for: its users with an address, and
\* the members whose users have none.
THEOREM SyncsMirror == Spec => SyncMirrors
<1>1. IInv /\ [Next]_vars =>
        [\A k \in Syncs :
           CommitSync(k) /\ sync[k].alone => Enrolled' = Mirrored(sync[k].group)]_vars
  BY MirrorsStep
<1> QED
  BY <1>1, InitIInv, NextIInv, PTL DEF Spec, SyncMirrors

---------------------------------------------------------------------------
(* Profiles and relationship edges, beside the family (MCHouseholds)        *)

\* What a profile or an edge may be.
Value(x) == IF x \in Persons THEN Contents \cup {NULL} ELSE Records!Edge \cup {NULL}

\* What a request is to publish is what the row is, once it has written and if it was
\* alone; what it has written is doubtful until then.
EditOK(r, rows, doubts) ==
  /\ DOMAIN r = {"pc", "subject", "was", "next", "alone"}
  /\ r.pc \in {"open", "refresh", "publish"}
  /\ r.subject \in Records!Subjects
  /\ {r.was, r.next} \subseteq Value(r.subject)
  /\ r.pc # "open" => r.subject \in doubts
  /\ r.alone /\ r.pc = "publish" => r.next = rows[r.subject]

\* No other request is on the subject of a request that is alone.
EditsOK(edits, rows, doubts) ==
  /\ DOMAIN edits = Sessions
  /\ \A s \in Sessions : edits[s] # NULL => EditOK(edits[s], rows, doubts)
  /\ \A s, t \in Sessions : s # t /\ edits[s] # NULL /\ edits[t] # NULL /\ edits[s].alone
       => edits[t].subject # edits[s].subject

RowsOK(rows) ==
  /\ DOMAIN rows = Records!Subjects
  /\ \A x \in Records!Subjects : rows[x] \in Value(x)

\* The last event about x says what its row is, or x is doubtful.
Tells(rows, tells, doubts) ==
  \A x \in Records!Subjects : x \notin doubts => tells[x] = rows[x]

RecordsInv ==
  /\ active \subseteq Persons /\ doubtful \subseteq Records!Subjects
  /\ RowsOK(row) /\ RowsOK(told)
  /\ EditsOK(editing, row, doubtful)
  /\ Tells(row, told, doubtful)

\* A request that begins on x leaves no other on x alone, and is alone when there is none.
LEMMA BeginEdit ==
  ASSUME RecordsInv, NEW s \in Sessions, NEW x \in Records!Subjects, NEW next \in Value(x),
         Records!Begin(s, x, next)
  PROVE  RecordsInv'
<1> DEFINE new == [pc |-> "open", subject |-> x, was |-> row[x], next |-> next,
                   alone |-> Records!On(x) = {}]
           later == [t \in Sessions |->
                       IF t = s THEN new
                       ELSE IF t \in Records!On(x) THEN [editing[t] EXCEPT !.alone = FALSE]
                       ELSE editing[t]]
<1>1. /\ editing[s] = NULL /\ editing' = later
      /\ UNCHANGED <<active, row, told, doubtful>>
  BY DEF Records!Begin
<1>2. EditOK(new, row, doubtful)
  BY DEF EditOK, RecordsInv, RowsOK
<1>3. ASSUME NEW t \in Sessions, t # s, later[t] # NULL
      PROVE  /\ editing[t] # NULL
             /\ EditOK(later[t], row, doubtful) /\ later[t].subject = editing[t].subject
             /\ later[t].alone => editing[t].alone /\ editing[t].subject # x
  <2>1. CASE t \in Records!On(x)
    <3>1. later[t] = [editing[t] EXCEPT !.alone = FALSE] /\ editing[t] # NULL
      BY <1>3, <2>1 DEF Records!On
    <3>2. EditOK(editing[t], row, doubtful)
      BY <3>1 DEF RecordsInv, EditsOK
    <3> HIDE DEF later
    <3> QED
      BY <3>1, <3>2 DEF EditOK
  <2>2. CASE t \notin Records!On(x)
    <3>1. later[t] = editing[t] /\ editing[t].subject # x
      BY <1>3, <2>2 DEF Records!On
    <3> HIDE DEF later
    <3> QED
      BY <1>3, <3>1 DEF RecordsInv, EditsOK
  <2> QED
    BY <2>1, <2>2
<1>4. new.alone => \A t \in Sessions : editing[t] # NULL => editing[t].subject # x
  BY DEF Records!On
<1>5. later[s] = new /\ new.subject = x /\ DOMAIN later = Sessions
  OBVIOUS
<1> HIDE DEF new, later
<1>6. EditsOK(later, row, doubtful)
  BY <1>2, <1>3, <1>4, <1>5 DEF EditsOK, RecordsInv
<1> QED
  BY <1>1, <1>6 DEF RecordsInv

\* Each route begins a change to a row its table can hold.
LEMMA BeginEdits ==
  ASSUME RecordsInv, NEW s \in Sessions,
         \/ Records!PutProfile(s) \/ Records!PostRelationship(s)
         \/ Records!PutRelationship(s) \/ Records!RemoveRelationship(s)
  PROVE  RecordsInv'
<1> USE DEF Records!Subjects
<1>1. Persons \cap Edges = {} /\ MutualTypes \subseteq Types
  BY RecordsAssumption DEF Records!ProfilesAssumption
<1>2. CASE Records!PutProfile(s)
  <2>1. PICK p \in active, c \in Contents : Records!Begin(s, p, c)
    BY <1>2 DEF Records!PutProfile
  <2>2. p \in Records!Subjects /\ c \in Value(p)
    BY DEF RecordsInv, Value
  <2> QED
    BY <2>1, <2>2, BeginEdit
<1>3. CASE Records!PostRelationship(s)
  <2>1. PICK e \in Edges, source \in active, target \in active, type \in Types,
             mutual \in BOOLEAN \cup {NULL} :
          Records!Begin(s, e, [source |-> source, target |-> target, type |-> type,
                               mutual |-> IF mutual = NULL THEN type \in MutualTypes
                                          ELSE mutual])
    BY <1>3 DEF Records!PostRelationship
  <2> DEFINE flag == IF mutual = NULL THEN type \in MutualTypes ELSE mutual
             next == [source |-> source, target |-> target, type |-> type, mutual |-> flag]
  <2>2. flag \in BOOLEAN
    <3>1. (type \in MutualTypes) \in BOOLEAN
      OBVIOUS
    <3>2. mutual # NULL => mutual \in BOOLEAN
      OBVIOUS
    <3> QED
      BY <3>1, <3>2, Zenon
  <2> HIDE DEF flag
  <2>3. next \in Records!Edge
    BY <2>2 DEF Records!Edge, RecordsInv
  <2>4. e \in Records!Subjects /\ next \in Value(e)
    BY <1>1, <2>3 DEF Value
  <2>5. Records!Begin(s, e, next)
    BY <2>1 DEF flag
  <2> QED
    BY <2>4, <2>5, BeginEdit
<1>4. CASE Records!PutRelationship(s)
  <2>1. PICK e \in Edges, target \in active, type \in Types :
          /\ row[e] # NULL
          /\ Records!Begin(s, e, [row[e] EXCEPT !.target = target, !.type = type,
                                                !.mutual = @ \/ type \in MutualTypes])
    BY <1>4 DEF Records!PutRelationship
  <2> DEFINE next == [row[e] EXCEPT !.target = target, !.type = type,
                                    !.mutual = @ \/ type \in MutualTypes]
  <2>2. row[e] \in Records!Edge
    BY <1>1, <2>1 DEF RecordsInv, RowsOK, Value
  <2>3. next \in Records!Edge
    BY <2>2 DEF Records!Edge, RecordsInv
  <2>4. e \in Records!Subjects /\ next \in Value(e)
    BY <1>1, <2>3 DEF Value
  <2> QED
    BY <2>1, <2>4, BeginEdit
<1>5. CASE Records!RemoveRelationship(s)
  <2>1. PICK e \in Edges : Records!Begin(s, e, NULL)
    BY <1>5 DEF Records!RemoveRelationship
  <2>2. e \in Records!Subjects /\ NULL \in Value(e)
    BY DEF Value
  <2> QED
    BY <2>1, <2>2, BeginEdit
<1> QED
  BY <1>2, <1>3, <1>4, <1>5

\* What the database accepts is a row of its table, whatever columns changed.
LEMMA WrittenTyped ==
  ASSUME RecordsInv, NEW r, NEW x \in Records!Subjects, EditOK(r, row, doubtful),
         r.subject = x, Records!Accepted(x, r)
  PROVE  Records!Written(x, r) \in Value(x)
<1>1. CASE x \in Persons \/ NULL \in {r.was, r.next}
  BY <1>1 DEF Records!Written, EditOK
<1>2. CASE ~(x \in Persons \/ NULL \in {r.was, r.next})
  <2>1. {r.was, r.next, row[x]} \subseteq Records!Edge
    BY <1>2 DEF EditOK, Value, RecordsInv, RowsOK, Records!Accepted
  <2>2. \A c \in DOMAIN r.was : TRUE
    OBVIOUS
  <2>3. Records!Written(x, r) \in Records!Edge
    BY <1>2, <2>1 DEF Records!Written, Records!Edge, Records!Column
  <2> QED
    BY <1>2, <2>3 DEF Value
<1> QED
  BY <1>1, <1>2

\* A commit writes the row of its subject, which is doubtful from then on.
LEMMA CommitEdit ==
  ASSUME RecordsInv, NEW s \in Sessions, Records!Commit(s)
  PROVE  RecordsInv'
<1> DEFINE r == editing[s]
           x == r.subject
           pc == IF r.next = NULL THEN "publish" ELSE "refresh"
           new == [r EXCEPT !.pc = pc]
           later == [editing EXCEPT ![s] = new]
           rows == [row EXCEPT ![x] = Records!Written(x, r)]
           doubts == doubtful \cup {x}
<1>1. /\ r # NULL /\ r.pc = "open" /\ Records!Accepted(x, r)
      /\ row' = rows /\ editing' = later /\ doubtful' = doubts
      /\ UNCHANGED <<active, told>>
  BY DEF Records!Commit
<1>2. EditOK(r, row, doubtful)
  BY <1>1 DEF RecordsInv, EditsOK
<1>3. x \in Records!Subjects
  BY <1>2 DEF EditOK
<1>4. Records!Written(x, r) \in Value(x)
  BY <1>1, <1>2, <1>3, WrittenTyped
<1>5. r.next = NULL => Records!Written(x, r) = NULL
  BY DEF Records!Written
<1>6. rows[x] = Records!Written(x, r) /\ DOMAIN rows = Records!Subjects
      /\ \A y \in Records!Subjects \ {x} : rows[y] = row[y]
  BY <1>3 DEF RecordsInv, RowsOK
<1>7. EditOK(new, rows, doubts)
  BY <1>2, <1>5, <1>6 DEF EditOK
<1>8. /\ later[s] = new /\ new.subject = x /\ new.alone = r.alone
      /\ DOMAIN later = Sessions /\ \A t \in Sessions \ {s} : later[t] = editing[t]
  BY <1>2 DEF RecordsInv, EditsOK, EditOK
<1> HIDE DEF rows, new, later, x
<1>9. ASSUME NEW t \in Sessions \ {s}, editing[t] # NULL
      PROVE  EditOK(editing[t], rows, doubts)
  <2>1. EditOK(editing[t], row, doubtful) /\ (editing[t].alone => editing[t].subject # x)
    BY <1>1, <1>9 DEF RecordsInv, EditsOK, x
  <2> QED
    BY <1>6, <2>1 DEF EditOK
<1>10. EditsOK(later, rows, doubts)
  BY <1>1, <1>7, <1>8, <1>9 DEF EditsOK, RecordsInv, x
<1>11. RowsOK(rows) /\ Tells(rows, told, doubts)
  BY <1>4, <1>6 DEF RowsOK, Tells, RecordsInv
<1> QED
  BY <1>1, <1>3, <1>10, <1>11 DEF RecordsInv

\* A request that reads its row again is to publish what the row is.
LEMMA RefreshEdit ==
  ASSUME RecordsInv, NEW s \in Sessions, Records!Refresh(s)
  PROVE  RecordsInv'
<1> DEFINE r == editing[s]
           new == [r EXCEPT !.pc = "publish", !.next = row[r.subject]]
           later == [editing EXCEPT ![s] = new]
<1>1. /\ r # NULL /\ r.pc = "refresh"
      /\ editing' = [editing EXCEPT ![s].pc = "publish", ![s].next = row[editing[s].subject]]
      /\ UNCHANGED <<active, row, told, doubtful>>
  BY DEF Records!Refresh
<1>2. EditOK(r, row, doubtful) /\ DOMAIN editing = Sessions
  BY <1>1 DEF RecordsInv, EditsOK
<1>3. editing' = later
  BY <1>1, <1>2
<1>4. EditOK(new, row, doubtful) /\ new.subject = r.subject /\ new.alone = r.alone
  BY <1>1, <1>2 DEF EditOK, RecordsInv, RowsOK
<1>5. later[s] = new /\ DOMAIN later = Sessions
      /\ \A t \in Sessions \ {s} : later[t] = editing[t]
  BY <1>2
<1> HIDE DEF new, later
<1>6. EditsOK(later, row, doubtful)
  BY <1>1, <1>4, <1>5 DEF EditsOK, RecordsInv
<1> QED
  BY <1>1, <1>3, <1>6 DEF RecordsInv

\* An event of a request that was alone says what the row is.
LEMMA PublishEdit ==
  ASSUME RecordsInv, NEW s \in Sessions, Records!Publish(s)
  PROVE  RecordsInv'
<1> DEFINE r == editing[s]
           x == r.subject
           later == [editing EXCEPT ![s] = NULL]
           tells == [told EXCEPT ![x] = r.next]
           doubts == IF r.alone THEN doubtful \ {x} ELSE doubtful
<1>1. /\ r # NULL /\ r.pc = "publish"
      /\ told' = tells /\ editing' = later /\ doubtful' = doubts
      /\ UNCHANGED <<active, row>>
  BY DEF Records!Publish
<1>2. EditOK(r, row, doubtful)
  BY <1>1 DEF RecordsInv, EditsOK
<1>3. x \in doubtful /\ x \in Records!Subjects /\ r.next \in Value(x)
      /\ (r.alone => r.next = row[x])
  BY <1>1, <1>2 DEF EditOK
<1>4. RowsOK(tells) /\ Tells(row, tells, doubts)
  BY <1>3 DEF RowsOK, Tells, RecordsInv
<1>5. ASSUME NEW t \in Sessions \ {s}, editing[t] # NULL
      PROVE  EditOK(editing[t], row, doubts)
  <2>1. EditOK(editing[t], row, doubtful) /\ (r.alone => editing[t].subject # x)
    BY <1>1, <1>5 DEF RecordsInv, EditsOK
  <2> QED
    BY <2>1 DEF EditOK
<1>6. later[s] = NULL /\ DOMAIN later = Sessions
      /\ \A t \in Sessions \ {s} : later[t] = editing[t]
  BY DEF RecordsInv, EditsOK
<1> HIDE DEF later, tells, doubts, x
<1>7. EditsOK(later, row, doubts)
  BY <1>5, <1>6 DEF EditsOK, RecordsInv
<1>8. doubts \subseteq Records!Subjects
  BY DEF doubts, RecordsInv
<1> QED
  BY <1>1, <1>4, <1>7, <1>8 DEF RecordsInv

\* Every step of the profile service keeps its invariant.
LEMMA RecordsStep ==
  ASSUME RecordsInv, Records!Next
  PROVE  RecordsInv'
<1>1. CASE Records!ChangePerson
  BY <1>1 DEF Records!ChangePerson, RecordsInv
<1>2. ASSUME NEW s \in Sessions, Records!Fail(s)
      PROVE  RecordsInv'
  BY <1>2 DEF Records!Fail, RecordsInv, EditsOK
<1> QED
  BY <1>1, <1>2, BeginEdits, CommitEdit, RefreshEdit, PublishEdit DEF Records!Next

\* The invariant of the profile service holds when nothing is written yet.
LEMMA RecordsInit == Records!Init => RecordsInv
BY DEF Records!Init, RecordsInv, RowsOK, EditsOK, Tells, Value, Records!Subjects

\* The invariant says what the run checks of profiles and edges.
LEMMA RecordsTyped == RecordsInv => Records!TypeOK /\ Records!EventsTellRows
<1>1. Persons \cap Edges = {}
  BY RecordsAssumption DEF Records!ProfilesAssumption
<1> QED
  BY <1>1 DEF RecordsInv, RowsOK, Tells, Value, Records!TypeOK, Records!EventsTellRows,
              Records!Subjects

---------------------------------------------------------------------------
(* The family document                                                     *)

\* A commit in progress.
DocCall == [proposal : Proposals, new : BOOLEAN, step : {"read", "written"},
            read : Documents!Document]

\* The document as it is read.
Doc(s) == IF s = NULL THEN Documents!Empty ELSE s

\* The proposals that are committed, and in the history the proposals and the versions.
Done(st)     == {p \in Proposals : st[p] = "committed"}
Told(ev)     == {e[1] : e \in ev}
Versions(ev) == {e[2] : e \in ev}

DocTypes ==
  /\ snap \in Documents!Document \cup {NULL}
  /\ status \in [Proposals -> {NULL, "proposed", "committed"}]
  /\ log \in SUBSET (Proposals \X Nat) /\ IsFiniteSet(log)
  /\ commits \in [Commits -> DocCall \cup {NULL}]
  /\ overlap \in BOOLEAN

\* A document d holds committed patches only, and every version it went through is told.
Grounded(d, st, ev) == d.patches \subseteq Done(st) /\ 1 .. d.version \subseteq Versions(ev)

\* Commit c is alone: it read the document d as it is, for a proposal that is not committed.
Lone(c, d, st, cs) ==
  /\ cs[c].read = d /\ st[cs[c].proposal] = "proposed"
  /\ \A b \in Commits : cs[b] # NULL => b = c

\* Nothing overlapped: the document d is what the history makes of it.
Exact(d, st, ev, cs) ==
  /\ d.patches = Done(st) /\ d.version = Cardinality(Done(st))
  /\ Told(ev) = Done(st) /\ Versions(ev) = 1 .. d.version
  /\ \A c \in Commits : cs[c] # NULL => Lone(c, d, st, cs)

DocInv ==
  /\ DocTypes
  /\ Grounded(Doc(snap), status, log)
  /\ \A c \in Commits : commits[c] # NULL => Grounded(commits[c].read, status, log)
  /\ ~overlap => Exact(Doc(snap), status, log, commits)

\* NULL is no document and no status.
LEMMA DocNull == NULL \notin Documents!Document /\ NULL # "proposed" /\ NULL # "committed"
BY SharedAssumption DEF Documents!DnaAssumption

\* The document as it is read is a document.
LEMMA DocTyped == DocTypes => Doc(snap) \in Documents!Document
BY DEF DocTypes, Doc, Documents!Document, Documents!Empty

\* Versions that are all told are no more than the events that tell them.
LEMMA VersionsBounded ==
  ASSUME NEW ev \in SUBSET (Proposals \X Nat), IsFiniteSet(ev), NEW n \in Nat,
         1 .. n \subseteq Versions(ev)
  PROVE  n <= Cardinality(ev)
<1>1. \A v \in 1 .. n : \E e \in ev : e[2] = v
  BY DEF Versions
<1>2. PICK f : f = [v \in 1 .. n |-> CHOOSE e \in ev : e[2] = v]
  OBVIOUS
<1>3. \A v \in 1 .. n : f[v] \in ev /\ f[v][2] = v
  BY <1>1, <1>2
<1>4. f \in [1 .. n -> ev]
  BY <1>2, <1>3
<1>5. \A v, w \in 1 .. n : f[v] = f[w] => v = w
  <2>1. SUFFICES ASSUME NEW v \in 1 .. n, NEW w \in 1 .. n, f[v] = f[w]
                 PROVE  v = w
    OBVIOUS
  <2>2. f[v][2] = v /\ f[w][2] = w
    BY <1>3
  <2> QED
    BY <2>1, <2>2
<1>6. f \in Injection(1 .. n, ev)
  BY <1>4, <1>5 DEF Injection, IsInjective
<1>7. Cardinality(1 .. n) <= Cardinality(ev)
  BY <1>6, FS_Injection
<1>8. Cardinality(1 .. n) = n
  BY IntervalSize
<1> QED
  BY <1>7, <1>8

\* The invariant says what the run checks of the document.
LEMMA DocsTell == DocInv => Documents!TypeOK /\ Documents!VersionsTell
<1> SUFFICES ASSUME DocInv
             PROVE  Documents!TypeOK /\ Documents!VersionsTell
  OBVIOUS
<1>1. Documents!TypeOK
  BY DEF DocInv, DocTypes, DocCall, Documents!TypeOK
<1>2. Documents!Committed = Done(status)
  BY DEF Documents!Committed, Done
<1>3. Doc(snap) = IF snap = NULL THEN Documents!Empty ELSE snap
  BY DEF Doc
<1>4. Doc(snap).version \in Nat /\ Doc(snap).version <= Cardinality(log)
  <2>1. Doc(snap).version \in Nat
    BY DocTyped DEF DocInv, Documents!Document
  <2> QED
    BY <2>1, VersionsBounded DEF DocInv, DocTypes, Grounded
<1>5. Doc(snap).patches \subseteq Done(status)
  BY DEF DocInv, Grounded
<1>6. ~overlap => /\ Doc(snap).patches = Done(status)
                  /\ Doc(snap).version = Cardinality(Done(status))
                  /\ {e[1] : e \in log} = Done(status)
                  /\ {e[2] : e \in log} = 1 .. Doc(snap).version
  BY DEF DocInv, Exact, Told, Versions
<1>7. /\ Documents!Cardinality(log) = Cardinality(log)
      /\ Documents!Cardinality(Done(status)) = Cardinality(Done(status))
  BY DEF Documents!Cardinality, Cardinality
<1>8. Documents!VersionsTell
  BY <1>2, <1>3, <1>4, <1>5, <1>6, <1>7 DEF Documents!VersionsTell
<1> QED
  BY <1>1, <1>8

\* A document of fewer commits is grounded in more.
LEMMA GroundedGrows ==
  ASSUME NEW d, NEW st, NEW su, NEW ev, NEW ew, Grounded(d, st, ev),
         \A p \in Proposals : st[p] = "committed" => su[p] = "committed", ev \subseteq ew
  PROVE  Grounded(d, su, ew)
BY DEF Grounded, Done, Versions

\* The first read stores an empty document.
LEMMA GetSnapshotStep ==
  ASSUME DocInv, Documents!GetSnapshot
  PROVE  DocInv'
<1>1. snap = NULL /\ snap' = Documents!Empty /\ UNCHANGED <<status, log, commits, overlap>>
  BY DEF Documents!GetSnapshot
<1>2. Doc(snap') = Doc(snap)
  BY <1>1, DocNull DEF Doc
<1>3. Documents!Empty \in Documents!Document
  BY DEF Documents!Empty, Documents!Document
<1> QED
  BY <1>1, <1>2, <1>3 DEF DocInv, DocTypes

\* A proposal changes nothing that is committed, and none that a commit has read.
LEMMA ProposeStep ==
  ASSUME DocInv, NEW p \in Proposals, Documents!Propose(p)
  PROVE  DocInv'
<1>1. /\ status[p] = NULL /\ status' = [status EXCEPT ![p] = "proposed"]
      /\ UNCHANGED <<snap, log, commits, overlap>>
  BY DEF Documents!Propose
<1>2. status \in [Proposals -> {NULL, "proposed", "committed"}]
  BY DEF DocInv, DocTypes
<1>3. /\ status' \in [Proposals -> {NULL, "proposed", "committed"}]
      /\ \A q \in Proposals : status[q] # NULL => status'[q] = status[q]
      /\ \A q \in Proposals : (status'[q] = "committed") = (status[q] = "committed")
  BY <1>1, <1>2, DocNull
<1>4. Done(status') = Done(status)
  BY <1>3 DEF Done
<1>5. DocTypes'
  BY <1>1, <1>3 DEF DocInv, DocTypes
<1>6. Grounded(Doc(snap'), status', log')
  BY <1>1, <1>4 DEF DocInv, Grounded
<1>7. \A c \in Commits : commits'[c] # NULL => Grounded(commits'[c].read, status', log')
  BY <1>1, <1>4 DEF DocInv, Grounded
<1>8. ASSUME ~overlap'
      PROVE  Exact(Doc(snap'), status', log', commits')
  <2>1. Exact(Doc(snap), status, log, commits)
    BY <1>1, <1>8 DEF DocInv
  <2>2. \A c \in Commits : commits[c] # NULL => commits[c].proposal \in Proposals
    BY DEF DocInv, DocTypes, DocCall
  <2>3. ASSUME NEW c \in Commits, commits[c] # NULL
        PROVE  Lone(c, Doc(snap), status', commits)
    <3>1. Lone(c, Doc(snap), status, commits)
      BY <2>1, <2>3 DEF Exact
    <3> QED
      BY <3>1, <2>2, <2>3, <1>3, DocNull DEF Lone
  <2> QED
    BY <2>1, <2>3, <1>1, <1>4 DEF Exact
<1> QED
  BY <1>5, <1>6, <1>7, <1>8 DEF DocInv

\* A commit reads the document as it is; a second one in progress is an overlap.
LEMMA BeginCommitStep ==
  ASSUME DocInv, NEW c \in Commits, NEW p \in Proposals, Documents!BeginCommit(c, p)
  PROVE  DocInv'
<1>1. PICK k : k = [proposal |-> p, new |-> snap = NULL, step |-> "read", read |-> Doc(snap)]
  OBVIOUS
<1>2. /\ commits[c] = NULL /\ status[p] = "proposed"
      /\ commits' = [commits EXCEPT ![c] = k]
      /\ overlap' = (overlap \/ \E d \in Commits : commits[d] # NULL)
      /\ UNCHANGED <<snap, status, log>>
  BY <1>1 DEF Documents!BeginCommit, Documents!Committable, Doc
<1>3. commits \in [Commits -> DocCall \cup {NULL}] /\ overlap \in BOOLEAN
  BY DEF DocInv, DocTypes
<1>4. k \in DocCall /\ k.proposal = p /\ k.read = Doc(snap)
  <2>1. Doc(snap) \in Documents!Document
    BY DocTyped DEF DocInv
  <2>2. (snap = NULL) \in BOOLEAN
    OBVIOUS
  <2> QED
    BY <1>1, <2>1, <2>2 DEF DocCall
<1>5. /\ commits' \in [Commits -> DocCall \cup {NULL}]
      /\ commits'[c] = k
      /\ \A d \in Commits \ {c} : commits'[d] = commits[d]
  BY <1>2, <1>3, <1>4
<1>6. overlap' \in BOOLEAN
  BY <1>2, <1>3
<1>7. DocTypes'
  BY <1>2, <1>5, <1>6 DEF DocInv, DocTypes
<1>8. Grounded(Doc(snap'), status', log')
  BY <1>2 DEF DocInv
<1>9. \A d \in Commits : commits'[d] # NULL => Grounded(commits'[d].read, status', log')
  <2>1. SUFFICES ASSUME NEW d \in Commits, commits'[d] # NULL
                 PROVE  Grounded(commits'[d].read, status, log)
    BY <1>2
  <2>2. CASE d = c
    BY <2>2, <1>4, <1>5 DEF DocInv
  <2>3. CASE d # c
    BY <2>1, <2>3, <1>5 DEF DocInv
  <2> QED
    BY <2>2, <2>3
<1>10. ASSUME ~overlap'
       PROVE  Exact(Doc(snap'), status', log', commits')
  <2>1. ~overlap /\ \A d \in Commits : commits[d] = NULL
    BY <1>2, <1>3, <1>10
  <2>2. Exact(Doc(snap), status, log, commits)
    BY <2>1 DEF DocInv
  <2>3. \A d \in Commits : commits'[d] # NULL => d = c
    BY <2>1, <1>5
  <2>4. Lone(c, Doc(snap), status, commits')
    BY <2>3, <1>2, <1>4, <1>5 DEF Lone
  <2> QED
    BY <2>2, <2>3, <2>4, <1>2 DEF Exact
<1> QED
  BY <1>7, <1>8, <1>9, <1>10 DEF DocInv

\* A commit writes its note about the document, or begins to wait for one that has.
LEMMA WriteDocumentStep ==
  ASSUME DocInv, NEW c \in Commits, Documents!WriteDocument(c)
  PROVE  DocInv'
<1>1. /\ commits[c] # NULL
      /\ commits' = [commits EXCEPT ![c].step = "written"]
      /\ UNCHANGED <<snap, status, log, overlap>>
  BY DEF Documents!WriteDocument
<1>2. commits \in [Commits -> DocCall \cup {NULL}]
  BY DEF DocInv, DocTypes
<1>3. PICK k : k = [commits[c] EXCEPT !.step = "written"]
  OBVIOUS
<1>4. /\ k \in DocCall
      /\ k.proposal = commits[c].proposal /\ k.read = commits[c].read
  BY <1>1, <1>2, <1>3 DEF DocCall
<1>5. /\ commits' \in [Commits -> DocCall \cup {NULL}]
      /\ commits'[c] = k
      /\ \A d \in Commits \ {c} : commits'[d] = commits[d]
  BY <1>1, <1>2, <1>3, <1>4
<1>6. \A d \in Commits : commits'[d] # NULL =>
        /\ commits[d] # NULL
        /\ commits'[d].read = commits[d].read
        /\ commits'[d].proposal = commits[d].proposal
  BY <1>1, <1>4, <1>5
<1>7. DocTypes'
  BY <1>1, <1>5 DEF DocInv, DocTypes
<1>8. ASSUME ~overlap'
      PROVE  Exact(Doc(snap'), status', log', commits')
  <2>1. Exact(Doc(snap), status, log, commits)
    BY <1>1, <1>8 DEF DocInv
  <2> QED
    BY <2>1, <1>1, <1>6 DEF Exact, Lone
<1> QED
  BY <1>1, <1>6, <1>7, <1>8 DEF DocInv

\* A commit in progress that is gone leaves the others as they are.
LEMMA DocCallEnds ==
  ASSUME DocInv, NEW c \in Commits, commits' = [commits EXCEPT ![c] = NULL]
  PROVE  /\ commits' \in [Commits -> DocCall \cup {NULL}]
         /\ \A d \in Commits : commits'[d] # NULL => d # c /\ commits[d] # NULL /\ commits'[d] = commits[d]
BY DEF DocInv, DocTypes

\* One event more tells one proposal and one version more.
LEMMA ToldGrows ==
  ASSUME NEW ev, NEW x
  PROVE  /\ Told(ev \cup {x}) = Told(ev) \cup {x[1]}
         /\ Versions(ev \cup {x}) = Versions(ev) \cup {x[2]}
<1>1. Told(ev \cup {x}) = Told(ev) \cup {x[1]}
  BY Zenon DEF Told
<1>2. Versions(ev \cup {x}) = Versions(ev) \cup {x[2]}
  BY Zenon DEF Versions
<1> QED
  BY <1>1, <1>2

\* Finitely many events tell finitely many proposals.
LEMMA ToldFinite ==
  ASSUME NEW ev, IsFiniteSet(ev)
  PROVE  IsFiniteSet(Told(ev))
<1>1. PICK f : f = [e \in ev |-> e[1]]
  OBVIOUS
<1>2. \A e \in ev : f[e] = e[1]
  BY <1>1
<1>3. f \in [ev -> Told(ev)] /\ \A x \in Told(ev) : \E e \in ev : f[e] = x
  BY <1>1, <1>2 DEF Told
<1>4. f \in Surjection(ev, Told(ev))
  BY <1>3 DEF Surjection
<1> QED
  BY <1>4, FS_Surjection

\* A commit writes the next version of what it read, and an event that names it.
LEMMA CommitDocumentStep ==
  ASSUME DocInv, NEW c \in Commits, Documents!Commit(c)
  PROVE  DocInv'
<1>1. PICK p, v, new :
        /\ p = commits[c].proposal /\ v = commits[c].read.version + 1
        /\ new = [version |-> v, patches |-> commits[c].read.patches \cup {p}]
  OBVIOUS
<1>2. /\ commits[c] # NULL /\ snap' = new
      /\ status' = [status EXCEPT ![p] = "committed"]
      /\ log' = log \cup {<<p, v>>}
      /\ commits' = [commits EXCEPT ![c] = NULL] /\ UNCHANGED overlap
  BY <1>1 DEF Documents!Commit
<1>3. /\ status \in [Proposals -> {NULL, "proposed", "committed"}]
      /\ log \in SUBSET (Proposals \X Nat) /\ IsFiniteSet(log)
      /\ commits[c] \in DocCall
  BY <1>2 DEF DocInv, DocTypes
<1>4. /\ p \in Proposals /\ v \in Nat /\ v = commits[c].read.version + 1
      /\ commits[c].read.version \in Nat /\ commits[c].read.patches \subseteq Proposals
  BY <1>1, <1>3 DEF DocCall, Documents!Document
<1>5. new \in Documents!Document /\ new.version = v
      /\ new.patches = commits[c].read.patches \cup {p}
  BY <1>1, <1>4 DEF Documents!Document
<1>6. Doc(snap') = new
  BY <1>2, <1>5, DocNull DEF Doc
<1>7. /\ status' \in [Proposals -> {NULL, "proposed", "committed"}]
      /\ status'[p] = "committed"
      /\ \A q \in Proposals : status[q] = "committed" => status'[q] = "committed"
      /\ Done(status') = Done(status) \cup {p}
  BY <1>2, <1>3, <1>4 DEF Done
<1>8. /\ log' \in SUBSET (Proposals \X Nat) /\ IsFiniteSet(log')
      /\ Told(log') = Told(log) \cup {p} /\ Versions(log') = Versions(log) \cup {v}
  <2>1. IsFiniteSet(log')
    BY <1>2, <1>3, FS_AddElement
  <2>2. log' \in SUBSET (Proposals \X Nat)
    BY <1>2, <1>3, <1>4
  <2>3. Told(log') = Told(log) \cup {p} /\ Versions(log') = Versions(log) \cup {v}
    <3>1. PICK x : x = <<p, v>>
      OBVIOUS
    <3>2. x[1] = p /\ x[2] = v /\ log' = log \cup {x}
      BY <1>2, <3>1
    <3>3. Told(log') = Told(log) \cup {x[1]} /\ Versions(log') = Versions(log) \cup {x[2]}
      BY <3>2, ToldGrows
    <3> QED
      BY <3>2, <3>3
  <2> QED
    BY <2>1, <2>2, <2>3
<1>9. DocTypes'
  BY <1>2, <1>5, <1>7, <1>8, DocCallEnds DEF DocInv, DocTypes
<1>10. Grounded(commits[c].read, status, log)
  BY <1>2 DEF DocInv
<1>11. Grounded(Doc(snap'), status', log')
  <2>1. new.patches \subseteq Done(status')
    BY <1>5, <1>7, <1>10 DEF Grounded
  <2>2. 1 .. v \subseteq (1 .. commits[c].read.version) \cup {v}
    BY <1>4
  <2>3. 1 .. new.version \subseteq Versions(log')
    BY <2>2, <1>5, <1>8, <1>10 DEF Grounded
  <2> QED
    BY <2>1, <2>3, <1>6 DEF Grounded
<1>12. \A d \in Commits : commits'[d] # NULL => Grounded(commits'[d].read, status', log')
  <2>1. SUFFICES ASSUME NEW d \in Commits, commits'[d] # NULL
                 PROVE  Grounded(commits'[d].read, status', log')
    OBVIOUS
  <2>2. commits[d] # NULL /\ commits'[d] = commits[d]
    BY <1>2, <2>1, DocCallEnds
  <2>3. Grounded(commits[d].read, status, log)
    BY <2>2 DEF DocInv
  <2>4. log \subseteq log'
    BY <1>2
  <2> QED
    BY <2>2, <2>3, <2>4, <1>7, GroundedGrows
<1>13. ASSUME ~overlap'
       PROVE  Exact(Doc(snap'), status', log', commits')
  <2>1. Exact(Doc(snap), status, log, commits)
    BY <1>2, <1>13 DEF DocInv
  <2>2. Lone(c, Doc(snap), status, commits)
    BY <2>1, <1>2 DEF Exact
  <2>3. /\ commits[c].read.patches = Done(status)
        /\ commits[c].read.version = Cardinality(Done(status))
        /\ Told(log) = Done(status) /\ Versions(log) = 1 .. commits[c].read.version
        /\ status[p] = "proposed"
    BY <2>1, <2>2, <1>1 DEF Exact, Lone
  <2>4. p \notin Done(status)
    BY <2>3, DocNull DEF Done
  <2>5. IsFiniteSet(Done(status))
    <3>1. IsFiniteSet(Told(log))
      BY <1>3, ToldFinite
    <3> QED
      BY <3>1, <2>3
  <2>6. Cardinality(Done(status')) = v
    BY <2>3, <2>4, <2>5, <1>4, <1>7, FS_AddElement
  <2>7. Versions(log') = 1 .. v
    <3>1. 1 .. v = (1 .. commits[c].read.version) \cup {v}
      BY <1>4
    <3> QED
      BY <3>1, <2>3, <1>8
  <2>8. \A d \in Commits : commits'[d] = NULL
    BY <2>2, <1>2, DocCallEnds DEF Lone
  <2> QED
    BY <2>3, <2>6, <2>7, <2>8, <1>5, <1>6, <1>7, <1>8 DEF Exact
<1> QED
  BY <1>9, <1>11, <1>12, <1>13 DEF DocInv

\* A commit that fails leaves the document as it was.
LEMMA FailDocumentStep ==
  ASSUME DocInv, NEW c \in Commits, Documents!Fail(c)
  PROVE  DocInv'
<1>1. commits' = [commits EXCEPT ![c] = NULL] /\ UNCHANGED <<snap, status, log, overlap>>
  BY DEF Documents!Fail
<1>2. /\ commits' \in [Commits -> DocCall \cup {NULL}]
      /\ \A d \in Commits : commits'[d] # NULL => commits[d] # NULL /\ commits'[d] = commits[d]
  BY <1>1, DocCallEnds
<1>3. DocTypes'
  BY <1>1, <1>2 DEF DocInv, DocTypes
<1>4. ASSUME ~overlap'
      PROVE  Exact(Doc(snap'), status', log', commits')
  <2>1. Exact(Doc(snap), status, log, commits)
    BY <1>1, <1>4 DEF DocInv
  <2> QED
    BY <2>1, <1>1, <1>2 DEF Exact, Lone
<1> QED
  BY <1>1, <1>2, <1>3, <1>4 DEF DocInv

\* Every step of the document keeps its invariant.
LEMMA DocStep ==
  ASSUME DocInv, Documents!Next
  PROVE  DocInv'
BY GetSnapshotStep, ProposeStep, BeginCommitStep, WriteDocumentStep, CommitDocumentStep,
   FailDocumentStep DEF Documents!Next

\* The invariant of the document holds when nothing is stored.
LEMMA DocInit == Documents!Init => DocInv
<1> SUFFICES ASSUME Documents!Init
             PROVE  DocInv
  OBVIOUS
<1>1. /\ snap = NULL /\ status = [p \in Proposals |-> NULL] /\ log = {}
      /\ commits = [c \in Commits |-> NULL] /\ overlap = FALSE
  BY DEF Documents!Init
<1>2. DocTypes
  BY <1>1, FS_EmptySet DEF DocTypes
<1>3. Doc(snap).version = 0 /\ Doc(snap).patches = {}
  BY <1>1 DEF Doc, Documents!Empty
<1>4. Done(status) = {} /\ Told(log) = {} /\ Versions(log) = {} /\ 1 .. 0 = {}
  BY <1>1, DocNull DEF Done, Told, Versions
<1>5. Grounded(Doc(snap), status, log)
  BY <1>3, <1>4 DEF Grounded
<1>6. Exact(Doc(snap), status, log, commits)
  BY <1>1, <1>3, <1>4, FS_EmptySet DEF Exact
<1> QED
  BY <1>1, <1>2, <1>5, <1>6 DEF DocInv

---------------------------------------------------------------------------
(* The sessions of agents                                                  *)

\* A PUT or DELETE in progress.
AgentCall == [of : Addresses, put : States \cup {NULL}, as : Owners, found : BOOLEAN, alone : BOOLEAN]

\* Call q knows whose the address is and whether its row is that person's.
Undisturbed(q, rows, own) ==
  /\ q.as = own[q.of]
  /\ q.found = (rows[q.of] # NULL /\ rows[q.of].person = own[q.of])

\* Two calls about one address are not alone.
Apart(cs) ==
  \A c, d \in Calls : c # d /\ cs[c] # NULL /\ cs[d] # NULL /\ cs[c].of = cs[d].of =>
    ~cs[c].alone

\* The row of address e is that of its person, with what the last call left.
OwnRow(e, rows, own, left) ==
  left[e] # NULL => rows[e] # NULL /\ rows[e].person = own[e] /\ rows[e].state = left[e]

AgentTypes ==
  /\ owner \in [Addresses -> Owners]
  /\ kept \in [Addresses -> Agents!Row \cup {NULL}]
  /\ latest \in [Addresses -> States \cup {NULL}]
  /\ call \in [Calls -> AgentCall \cup {NULL}]

AgentInv ==
  /\ AgentTypes
  /\ Apart(call)
  /\ \A c \in Calls : call[c] # NULL /\ call[c].alone => Undisturbed(call[c], kept, owner)
  /\ \A e \in Addresses : OwnRow(e, kept, owner, latest)

\* NULL is no row and no state.
LEMMA AgentNull == NULL \notin Agents!Row /\ NULL \notin States
BY SharedAssumption DEF Agents!AgentsAssumption

\* The invariant says what the run checks of the sessions.
LEMMA AgentsKept == AgentInv => Agents!TypeOK /\ Agents!StateIsOwn
BY DEF AgentInv, AgentTypes, OwnRow, AgentCall, Agents!TypeOK, Agents!StateIsOwn

\* An address that gets another person disturbs the calls about it, and what is in its row
\* is nobody's any more.
LEMMA ReplaceStep ==
  ASSUME AgentInv, NEW e \in Addresses, Agents!Replace(e)
  PROVE  AgentInv'
<1>1. PICK p \in Owners :
        /\ owner' = [owner EXCEPT ![e] = p]
        /\ latest' = [latest EXCEPT ![e] = NULL]
        /\ call' = [c \in Calls |-> IF call[c] # NULL /\ call[c].of = e
                                    THEN [call[c] EXCEPT !.alone = FALSE] ELSE call[c]]
        /\ UNCHANGED kept
  BY DEF Agents!Replace
<1>2. AgentTypes /\ Apart(call)
  BY DEF AgentInv
<1>3. /\ owner' \in [Addresses -> Owners]
      /\ latest' \in [Addresses -> States \cup {NULL}] /\ latest'[e] = NULL
      /\ \A f \in Addresses \ {e} : owner'[f] = owner[f] /\ latest'[f] = latest[f]
  BY <1>1, <1>2 DEF AgentTypes
<1>4. ASSUME NEW c \in Calls, call[c] # NULL, call[c].of = e
      PROVE  /\ call'[c] \in AgentCall /\ call'[c].of = e /\ ~call'[c].alone
  <2>1. call[c] \in AgentCall /\ call'[c] = [call[c] EXCEPT !.alone = FALSE]
    BY <1>1, <1>2, <1>4 DEF AgentTypes
  <2> QED
    BY <1>4, <2>1 DEF AgentCall
<1>5. ASSUME NEW c \in Calls, ~(call[c] # NULL /\ call[c].of = e)
      PROVE  call'[c] = call[c]
  BY <1>1, <1>5
<1>6. call' \in [Calls -> AgentCall \cup {NULL}]
  <2>1. \A c \in Calls : call'[c] \in AgentCall \cup {NULL}
    BY <1>2, <1>4, <1>5 DEF AgentTypes
  <2> QED
    BY <2>1, <1>1
<1>7. AgentTypes'
  BY <1>1, <1>2, <1>3, <1>6 DEF AgentTypes
<1>8. \A c \in Calls : call'[c] # NULL /\ call'[c].alone =>
        call[c] # NULL /\ call'[c] = call[c] /\ call[c].of # e
  BY <1>4, <1>5
<1>9. \A c \in Calls : call'[c] # NULL => call[c] # NULL /\ call'[c].of = call[c].of
  BY <1>4, <1>5
<1>10. Apart(call')
  BY <1>2, <1>8, <1>9 DEF Apart
<1>11. ASSUME NEW c \in Calls, call'[c] # NULL, call'[c].alone
       PROVE  Undisturbed(call'[c], kept', owner')
  <2>1. call[c] # NULL /\ call'[c] = call[c] /\ call[c].of # e /\ call[c].alone
    BY <1>8, <1>11
  <2>2. Undisturbed(call[c], kept, owner)
    BY <2>1 DEF AgentInv
  <2>3. call[c].of \in Addresses
    BY <1>2, <2>1 DEF AgentTypes, AgentCall
  <2>4. owner'[call[c].of] = owner[call[c].of] /\ kept' = kept
    BY <1>1, <1>3, <2>1, <2>3
  <2> QED
    BY <2>1, <2>2, <2>4 DEF Undisturbed
<1>12. \A f \in Addresses : OwnRow(f, kept', owner', latest')
  BY <1>1, <1>3 DEF AgentInv, OwnRow
<1> QED
  BY <1>7, <1>10, <1>11, <1>12 DEF AgentInv

\* A call reads what is there; others about the address are no longer alone.
LEMMA BeginAgentStep ==
  ASSUME AgentInv, NEW c \in Calls, NEW e \in Addresses, NEW put \in States \cup {NULL},
         Agents!Begin(c, e, put)
  PROVE  AgentInv'
<1>1. PICK others, q :
        /\ others = {d \in Calls : call[d] # NULL /\ call[d].of = e}
        /\ q = [of |-> e, put |-> put, as |-> owner[e],
                found |-> kept[e] # NULL /\ kept[e].person = owner[e], alone |-> others = {}]
  OBVIOUS
<1>2. /\ call[c] = NULL
      /\ call' = [d \in Calls |-> IF d = c THEN q
                   ELSE IF d \in others THEN [call[d] EXCEPT !.alone = FALSE] ELSE call[d]]
      /\ UNCHANGED <<owner, kept, latest>>
  BY <1>1 DEF Agents!Begin, Agents!Found
<1>3. AgentTypes /\ Apart(call)
  BY DEF AgentInv
<1>4. /\ q \in AgentCall /\ q.of = e /\ q.as = owner[e]
      /\ q.found = (kept[e] # NULL /\ kept[e].person = owner[e])
      /\ q.alone = (others = {})
  <2>1. (kept[e] # NULL /\ kept[e].person = owner[e]) \in BOOLEAN /\ (others = {}) \in BOOLEAN
    OBVIOUS
  <2>2. owner[e] \in Owners
    BY <1>3 DEF AgentTypes
  <2> QED
    BY <1>1, <2>1, <2>2 DEF AgentCall
<1>5. call'[c] = q
  BY <1>2
<1>6. ASSUME NEW d \in Calls, d # c, d \in others
      PROVE  call[d] # NULL /\ call'[d] \in AgentCall /\ call'[d].of = e /\ call[d].of = e
             /\ ~call'[d].alone
  <2>1. /\ call[d] \in AgentCall /\ call[d].of = e
        /\ call'[d] = [call[d] EXCEPT !.alone = FALSE]
    BY <1>1, <1>2, <1>3, <1>6 DEF AgentTypes
  <2>2. call[d] # NULL
    BY <1>1, <1>6
  <2> QED
    BY <2>1, <2>2 DEF AgentCall
<1>7. ASSUME NEW d \in Calls, d # c, d \notin others
      PROVE  call'[d] = call[d] /\ (call[d] # NULL => call[d].of # e)
  BY <1>1, <1>2, <1>7
<1>8. call' \in [Calls -> AgentCall \cup {NULL}]
  <2>1. \A d \in Calls : call'[d] \in AgentCall \cup {NULL}
    BY <1>3, <1>4, <1>5, <1>6, <1>7 DEF AgentTypes
  <2> QED
    BY <2>1, <1>2
<1>9. AgentTypes'
  BY <1>2, <1>3, <1>8 DEF AgentTypes
<1>10. \A d \in Calls \ {c} : call'[d] # NULL =>
         /\ call[d] # NULL /\ call'[d].of = call[d].of
         /\ call'[d].alone => d \notin others /\ call'[d] = call[d]
  BY <1>6, <1>7
<1>11. Apart(call')
  <2>1. SUFFICES ASSUME NEW d \in Calls, NEW f \in Calls, d # f, call'[d] # NULL,
                        call'[f] # NULL, call'[d].of = call'[f].of
                 PROVE  ~call'[d].alone
    BY DEF Apart
  <2>2. CASE d = c
    <3>1. f \in others
      BY <2>1, <2>2, <1>4, <1>5, <1>7
    <3> QED
      BY <3>1, <2>2, <1>4, <1>5
  <2>3. CASE f = c
    BY <2>1, <2>3, <1>4, <1>5, <1>6, <1>7
  <2>4. CASE d # c /\ f # c
    <3>1. call[d] # NULL /\ call[f] # NULL /\ call[d].of = call[f].of
      BY <2>1, <2>4, <1>10
    <3>2. ~call[d].alone
      BY <3>1, <2>1, <1>3 DEF Apart
    <3> QED
      BY <3>2, <2>1, <2>4, <1>10
  <2> QED
    BY <2>2, <2>3, <2>4
<1>12. ASSUME NEW d \in Calls, call'[d] # NULL, call'[d].alone
       PROVE  Undisturbed(call'[d], kept', owner')
  <2>1. CASE d = c
    BY <2>1, <1>2, <1>4, <1>5 DEF Undisturbed
  <2>2. CASE d # c
    <3>1. call[d] # NULL /\ call'[d] = call[d] /\ call[d].alone
      BY <2>2, <1>10, <1>12
    <3> QED
      BY <3>1, <1>2 DEF AgentInv
  <2> QED
    BY <2>1, <2>2
<1>13. \A f \in Addresses : OwnRow(f, kept', owner', latest')
  BY <1>2 DEF AgentInv
<1> QED
  BY <1>9, <1>11, <1>12, <1>13 DEF AgentInv

\* A call that ends writes its row; the others that are alone are about other addresses.
LEMMA EndStep ==
  ASSUME AgentInv, NEW c \in Calls, call[c] # NULL, NEW new \in Agents!Row \cup {NULL},
         Agents!End(c, call[c].of, new),
         call[c].alone /\ call[c].put # NULL =>
           new # NULL /\ new.person = owner[call[c].of] /\ new.state = call[c].put
  PROVE  AgentInv'
<1>1. PICK e, left : e = call[c].of /\ left = IF call[c].alone THEN call[c].put ELSE NULL
  OBVIOUS
<1>2. /\ kept' = [kept EXCEPT ![e] = new] /\ latest' = [latest EXCEPT ![e] = left]
      /\ call' = [call EXCEPT ![c] = NULL] /\ UNCHANGED owner
  BY <1>1 DEF Agents!End
<1>3. AgentTypes /\ Apart(call)
  BY DEF AgentInv
<1>4. e \in Addresses /\ left \in States \cup {NULL}
  <2>1. call[c] \in AgentCall
    BY <1>3 DEF AgentTypes
  <2> QED
    BY <2>1, <1>1 DEF AgentCall
<1>5. /\ kept' \in [Addresses -> Agents!Row \cup {NULL}] /\ kept'[e] = new
      /\ latest' \in [Addresses -> States \cup {NULL}] /\ latest'[e] = left
      /\ \A f \in Addresses \ {e} : kept'[f] = kept[f] /\ latest'[f] = latest[f]
  BY <1>2, <1>3, <1>4 DEF AgentTypes
<1>6. /\ call' \in [Calls -> AgentCall \cup {NULL}]
      /\ \A d \in Calls : call'[d] # NULL => d # c /\ call[d] # NULL /\ call'[d] = call[d]
  BY <1>2, <1>3 DEF AgentTypes
<1>7. AgentTypes'
  BY <1>2, <1>3, <1>5, <1>6 DEF AgentTypes
<1>8. Apart(call')
  BY <1>3, <1>6 DEF Apart
<1>9. ASSUME NEW d \in Calls, call'[d] # NULL, call'[d].alone
      PROVE  Undisturbed(call'[d], kept', owner')
  <2>1. d # c /\ call[d] # NULL /\ call'[d] = call[d] /\ call[d].alone
    BY <1>6, <1>9
  <2>2. call[d].of # e /\ call[d].of \in Addresses
    BY <2>1, <1>1, <1>3 DEF Apart, AgentTypes, AgentCall
  <2>3. Undisturbed(call[d], kept, owner)
    BY <2>1 DEF AgentInv
  <2>4. kept'[call[d].of] = kept[call[d].of] /\ owner' = owner
    BY <2>2, <1>2, <1>5
  <2> QED
    BY <2>1, <2>3, <2>4 DEF Undisturbed
<1>10. ASSUME NEW f \in Addresses
       PROVE  OwnRow(f, kept', owner', latest')
  <2>1. CASE f = e
    BY <2>1, <1>1, <1>2, <1>5 DEF OwnRow
  <2>2. CASE f # e
    BY <2>2, <1>2, <1>5 DEF OwnRow, AgentInv
  <2> QED
    BY <2>1, <2>2
<1> QED
  BY <1>7, <1>8, <1>9, <1>10 DEF AgentInv

\* What is known of a call in progress and of the row it is about.
LEMMA CallFacts ==
  ASSUME AgentInv, NEW c \in Calls, call[c] # NULL
  PROVE  /\ call[c].of \in Addresses /\ call[c].put \in States \cup {NULL} /\ call[c].as \in Owners
         /\ kept[call[c].of] \in Agents!Row \cup {NULL}
         /\ call[c].alone =>
              /\ call[c].as = owner[call[c].of]
              /\ call[c].found = (/\ kept[call[c].of] # NULL
                                  /\ kept[call[c].of].person = owner[call[c].of])
<1>1. call[c] \in AgentCall
  BY DEF AgentInv, AgentTypes
<1>2. call[c].of \in Addresses /\ call[c].put \in States \cup {NULL} /\ call[c].as \in Owners
  BY <1>1 DEF AgentCall
<1>3. kept[call[c].of] \in Agents!Row \cup {NULL}
  BY <1>2 DEF AgentInv, AgentTypes
<1> QED
  BY <1>2, <1>3 DEF AgentInv, Undisturbed

\* A row that is changed in place was found, and stays its person's.
LEMMA UpdateStep ==
  ASSUME AgentInv, NEW c \in Calls, Agents!Update(c)
  PROVE  AgentInv'
<1>1. PICK old, new : old = kept[call[c].of] /\ new = [old EXCEPT !.state = call[c].put]
  OBVIOUS
<1>2. /\ call[c] # NULL /\ call[c].found /\ call[c].put # NULL /\ old # NULL
      /\ Agents!End(c, call[c].of, new)
  BY <1>1 DEF Agents!Update
<1>3. old \in Agents!Row /\ call[c].put \in States
  BY <1>1, <1>2, CallFacts
<1>4. new \in Agents!Row /\ new.person = old.person /\ new.state = call[c].put
  BY <1>1, <1>3 DEF Agents!Row
<1>5. call[c].alone => old.person = owner[call[c].of]
  BY <1>1, <1>2, CallFacts
<1>6. new # NULL
  BY <1>4, AgentNull
<1> QED
  BY <1>2, <1>4, <1>5, <1>6, EndStep

\* A row that is inserted is that of the person the address was.
LEMMA InsertRowStep ==
  ASSUME AgentInv, NEW c \in Calls, Agents!Insert(c)
  PROVE  AgentInv'
<1>1. PICK new : new = [person |-> call[c].as, state |-> call[c].put]
  OBVIOUS
<1>2. call[c] # NULL /\ call[c].put # NULL /\ Agents!End(c, call[c].of, new)
  BY <1>1 DEF Agents!Insert
<1>3. new \in Agents!Row /\ new.person = call[c].as /\ new.state = call[c].put
  BY <1>1, <1>2, CallFacts DEF Agents!Row
<1>4. call[c].alone => call[c].as = owner[call[c].of]
  BY <1>2, CallFacts
<1>5. new # NULL
  BY <1>3, AgentNull
<1> QED
  BY <1>2, <1>3, <1>4, <1>5, EndStep

\* A row that is deleted leaves nothing behind.
LEMMA DeleteRowStep ==
  ASSUME AgentInv, NEW c \in Calls, Agents!Delete(c)
  PROVE  AgentInv'
<1>1. PICK new : new = IF call[c].found THEN NULL ELSE kept[call[c].of]
  OBVIOUS
<1>2. call[c] # NULL /\ call[c].put = NULL /\ Agents!End(c, call[c].of, new)
  BY <1>1 DEF Agents!Delete
<1>3. new \in Agents!Row \cup {NULL}
  BY <1>1, <1>2, CallFacts
<1> QED
  BY <1>2, <1>3, EndStep

\* Every step of the sessions keeps their invariant.
LEMMA AgentStep ==
  ASSUME AgentInv, Agents!Next
  PROVE  AgentInv'
<1>1. ASSUME NEW c \in Calls, Agents!Fail(c)
      PROVE  AgentInv'
  <2>1. call' = [call EXCEPT ![c] = NULL] /\ UNCHANGED <<owner, kept, latest>>
    BY <1>1 DEF Agents!Fail
  <2>2. AgentTypes /\ Apart(call)
    BY DEF AgentInv
  <2>3. /\ call' \in [Calls -> AgentCall \cup {NULL}]
        /\ \A d \in Calls : call'[d] # NULL => call[d] # NULL /\ call'[d] = call[d]
    BY <2>1, <2>2 DEF AgentTypes
  <2>4. AgentTypes' /\ Apart(call')
    BY <2>1, <2>2, <2>3 DEF AgentTypes, Apart
  <2> QED
    BY <2>1, <2>3, <2>4 DEF AgentInv
<1> QED
  BY <1>1, ReplaceStep, BeginAgentStep, UpdateStep, InsertRowStep, DeleteRowStep
  DEF Agents!Next

\* The invariant of the sessions holds when nothing is stored.
LEMMA AgentInit == Agents!Init => AgentInv
BY DEF Agents!Init, AgentInv, AgentTypes, Apart, OwnRow

---------------------------------------------------------------------------
(* The behaviours of one or the other                                      *)

\* What holds of a family, of its profiles, of its document and of its agents' sessions.
MCInv == IInv /\ RecordsInv /\ DocInv /\ AgentInv

\* Each begins with nothing written, and a step of one leaves the others as they are.
LEMMA MCKept ==
  /\ MCInit => MCInv
  /\ MCInv /\ [MCNext]_<<part, vars, profileVars, documentVars, agentVars>> => MCInv'
<1>1. MCInit => MCInv
  BY InitIInv, RecordsInit, DocInit, AgentInit DEF MCInit, MCInv
<1>2. ASSUME RecordsInv, UNCHANGED profileVars
      PROVE  RecordsInv'
  BY <1>2 DEF profileVars, RecordsInv
<1>3. ASSUME DocInv, UNCHANGED documentVars
      PROVE  DocInv'
  BY <1>3 DEF documentVars, DocInv, DocTypes
<1>4. ASSUME AgentInv, UNCHANGED agentVars
      PROVE  AgentInv'
  BY <1>4 DEF agentVars, AgentInv, AgentTypes
<1>5. ASSUME MCInv, [MCNext]_<<part, vars, profileVars, documentVars, agentVars>>
      PROVE  MCInv'
  <2>1. CASE Next /\ UNCHANGED <<part, profileVars, documentVars, agentVars>>
    BY <1>2, <1>3, <1>4, <1>5, <2>1, NextIInv DEF MCInv
  <2>2. CASE Records!Next /\ UNCHANGED <<part, vars, documentVars, agentVars>>
    BY <1>3, <1>4, <1>5, <2>2, NextIInv, RecordsStep DEF MCInv
  <2>3. CASE Documents!Next /\ UNCHANGED <<part, vars, profileVars, agentVars>>
    BY <1>2, <1>4, <1>5, <2>3, NextIInv, DocStep DEF MCInv
  <2>4. CASE Agents!Next /\ UNCHANGED <<part, vars, profileVars, documentVars>>
    BY <1>2, <1>3, <1>5, <2>4, NextIInv, AgentStep DEF MCInv
  <2>5. CASE UNCHANGED <<part, vars, profileVars, documentVars, agentVars>>
    BY <1>2, <1>3, <1>4, <1>5, <2>5, NextIInv DEF MCInv
  <2> QED
    BY <1>5, <2>1, <2>2, <2>3, <2>4, <2>5 DEF MCNext
<1> QED
  BY <1>1, <1>5

\* The last event about a profile or an edge says what its row is, for any persons, edges
\* and number of requests, but for requests that overlapped on it and events that were lost.
THEOREM EventsTell == MCSpec => []EventsTellRows
<1>1. MCInv => EventsTellRows
  BY RecordsTyped, TypedRows DEF MCInv, EventsTellRows
<1> QED
  BY <1>1, MCKept, PTL DEF MCSpec

\* For any proposals, addresses, persons and number of calls, the version of the family
\* document counts its patches but for commits that overlapped, and the session of an agent
\* is what the last call of its own user left in it.
THEOREM SharedStateStays == MCSpec => []SharedStateKept
<1>1. MCInv => SharedStateKept
  BY DocsTell, AgentsKept DEF MCInv, SharedStateKept
<1> QED
  BY <1>1, MCKept, PTL DEF MCSpec
=============================================================================
