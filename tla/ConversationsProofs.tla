-------------------------- MODULE ConversationsProofs --------------------------
(***************************************************************************)
(* Proofs about Conversations, for any number of people, assistants,       *)
(* chats, requests and deaths of the process: every turn is settled once,  *)
(* turns never overlap, who speaks takes part, and lists and memberships   *)
(* are right unless two requests about them overlapped.                    *)
(*                                                                         *)
(* The inductive invariant adds what open requests know: the run a request *)
(* handles is running and handled by no other (RequestOK, TurnsInv), the   *)
(* turn under way is the one that holds the event loop, a list still finds *)
(* no chat where it is about to seed one (InboxesInv), and an invitation   *)
(* or removal has read what its chat still is (MembershipInv).             *)
(*                                                                         *)
(* And about the education service of MCEducation: EduInv adds that what a *)
(* transaction is to write would be right if it committed now, unless      *)
(* another commit overtook it (Right), and that a publication marks only   *)
(* what the broker took (Marked).                                          *)
(***************************************************************************)
EXTENDS MCEducation, SequenceTheorems, FiniteSetTheorems,
        WellFoundedInduction, TLAPS

---------------------------------------------------------------------------
(* The inductive invariant                                                 *)

\* The rows of the tables, within their bounds.
TablesOK ==
  /\ chats \in Seq(Chat) /\ Len(chats) <= MaxChats
  /\ parts \in Seq(Part) /\ Len(parts) <= MaxParts
  /\ messages \in Seq(Message)
  /\ runs \in Seq(Run) /\ Len(runs) <= MaxRuns
  /\ proposals \in Seq(Proposal)

\* Rows refer to rows that are there.
RefsOK ==
  /\ \A i \in DOMAIN parts : parts[i].chat \in DOMAIN chats
  /\ \A m \in DOMAIN messages : messages[m].run # 0 => messages[m].run \in DOMAIN runs
  /\ \A r \in DOMAIN runs : runs[r].trigger \in DOMAIN messages

\* A participant of chat c that is w.
IsPart(i, c, w) == i \in DOMAIN parts /\ parts[i].chat = c /\ parts[i].who = w

\* Request q of session s knows rows that are there; the run it handles is running,
\* and a turn holds the event loop.
RequestOK(s, q) ==
  /\ q.op \in Membership => q.chat \in DOMAIN chats
  /\ q.op = "invite" /\ q.part # 0 => IsPart(q.part, q.chat, q.who)
  /\ q.op = "remove" => q.part \in DOMAIN parts /\ parts[q.part].chat = q.chat
  /\ q.op = "posted" => q.message \in DOMAIN messages
  /\ q.op \in {"running", "turn"} =>
       /\ q.run \in DOMAIN runs
       /\ runs[q.run].status = "running" /\ runs[q.run].chat = q.chat
  /\ q.op = "turn" =>
       /\ loop = s
       /\ q.speaker # 0 => IsPart(q.speaker, q.chat, runs[q.run].assistant)

SessionsOK ==
  /\ session \in [Sessions -> Request \cup {NULL}]
  /\ loop \in Sessions \cup {NULL}
  /\ chatter \subseteq Assistants
  /\ orphans \subseteq DOMAIN runs
  /\ raced \subseteq DOMAIN chats /\ doubled \subseteq Persons
  /\ \A s \in Sessions : session[s] # NULL => RequestOK(s, session[s])

Handles(s, r) == session[s] # NULL /\ session[s].op \in {"running", "turn"} /\ session[s].run = r

\* Run r is under way or settled by one reply.
RunOK(r) ==
  IF runs[r].status = "running"
  THEN /\ runs[r].acts \in {"none", "running"}
       /\ \A m \in DOMAIN messages : messages[m].run # r
       /\ r \in orphans \/ \E s \in Sessions : Handles(s, r)
  ELSE /\ runs[r].acts \in {"none", runs[r].status}
       /\ \E m \in DOMAIN messages : /\ messages[m].run = r
                                     /\ m > runs[r].trigger
                                     /\ messages[m].chat = runs[r].chat
                                     /\ \A n \in DOMAIN messages : messages[n].run = r => n = m

TurnsInv ==
  /\ \A s, t \in Sessions, r \in DOMAIN runs : Handles(s, r) /\ Handles(t, r) => s = t
  /\ \A r \in DOMAIN runs : RunOK(r)

RepliesInv ==
  \A m \in DOMAIN messages : messages[m].run # 0 /\ messages[m].by # 0 =>
    IsPart(messages[m].by, messages[m].chat, runs[messages[m].run].assistant)

\* What a list is about to seed is not there, unless another list of the person overlapped.
ListOK(q) ==
  q.op = "list" => /\ q.missing \subseteq Inboxes
                   /\ q.who \notin doubled => \A a \in q.missing : OpenInboxes(q.who, a) = {}

\* A chat of a person with an assistant stays one: a request that changes kinds read another.
KindOK(q) ==
  /\ q.op = "invite" /\ q.hybrid => chats[q.chat].kind # "assistant"
  /\ q.op = "remove" /\ q.family => chats[q.chat].kind # "assistant"

InboxesInv ==
  /\ \A c \in DOMAIN chats : chats[c].seeded => chats[c].kind = "assistant"
  /\ \A i \in DOMAIN parts : chats[parts[i].chat].seeded /\ parts[i].who \in Persons =>
                                i + 1 \in DOMAIN parts
  /\ \A s \in Sessions : session[s] # NULL => ListOK(session[s]) /\ KindOK(session[s])
  /\ \A p \in Persons \ doubled, a \in Inboxes :
       \A c, d \in OpenInboxes(p, a) : c = d

ChatOK(c) ==
  /\ chats[c].kind = "family" => ActiveAssistants(c) = {}
  /\ chats[c].primary # 0 => chats[c].primary \in ActiveAssistants(c)

\* A membership request has read what its chat still is, unless another overlapped.
ReadOK(q) ==
  /\ q.op = "invite" /\ q.chat \notin raced =>
       /\ q.part # 0 => q.part \in ActiveAssistants(q.chat)
       /\ chats[q.chat].kind = "family" => q.hybrid
       /\ chats[q.chat].primary = 0 => q.primary
  /\ q.op = "remove" /\ q.chat \notin raced =>
       /\ chats[q.chat].primary = q.part => q.repoint
       /\ q.repoint => \/ q.next = 0
                       \/ q.next \in ActiveAssistants(q.chat) \ {q.part}
       /\ q.family => ActiveAssistants(q.chat) \ {q.part} = {}

MembershipInv ==
  /\ \A c \in DOMAIN chats \ raced : ChatOK(c)
  /\ \A s \in Sessions : session[s] # NULL => ReadOK(session[s])

IInv ==
  /\ TablesOK /\ RefsOK /\ SessionsOK /\ TurnsInv /\ RepliesInv /\ InboxesInv /\ MembershipInv
---------------------------------------------------------------------------
(* Rows that only grow                                                     *)

\* A table that gets one row more keeps the others.
LEMMA OneMore ==
  ASSUME NEW S, NEW q \in Seq(S), NEW e \in S
  PROVE  /\ Append(q, e) \in Seq(S)
         /\ Len(q) \in Nat /\ Len(Append(q, e)) = Len(q) + 1
         /\ DOMAIN q = 1..Len(q) /\ DOMAIN Append(q, e) = 1..(Len(q) + 1)
         /\ \A i \in DOMAIN q : Append(q, e)[i] = q[i]
         /\ Append(q, e)[Len(q) + 1] = e
BY AppendProperties, LenProperties

\* Table n is table q with the rows of t after its own.
Extended(n, q, t) ==
  /\ Len(q) \in Nat /\ Len(t) \in Nat /\ Len(n) = Len(q) + Len(t)
  /\ DOMAIN q = 1..Len(q) /\ DOMAIN t = 1..Len(t) /\ DOMAIN n = 1..(Len(q) + Len(t))
  /\ \A i \in DOMAIN q : i \in DOMAIN n /\ n[i] = q[i]
  /\ \A i \in DOMAIN n \ DOMAIN q : i - Len(q) \in 1..Len(t) /\ n[i] = t[i - Len(q)]

LEMMA ManyMore ==
  ASSUME NEW S, NEW q \in Seq(S), NEW t \in Seq(S)
  PROVE  q \o t \in Seq(S) /\ Extended(q \o t, q, t)
<1>1. /\ q \o t \in Seq(S) /\ Len(q \o t) = Len(q) + Len(t)
      /\ \A i \in 1..(Len(q) + Len(t)) :
            (q \o t)[i] = IF i <= Len(q) THEN q[i] ELSE t[i - Len(q)]
  BY ConcatProperties
<1>2. /\ Len(q) \in Nat /\ DOMAIN q = 1..Len(q)
      /\ Len(t) \in Nat /\ DOMAIN t = 1..Len(t)
      /\ DOMAIN (q \o t) = 1..(Len(q) + Len(t))
  BY <1>1, LenProperties
<1>3. \A i \in DOMAIN q : i \in DOMAIN (q \o t) /\ i <= Len(q)
  BY <1>2
<1>4. \A i \in DOMAIN (q \o t) \ DOMAIN q : ~(i <= Len(q)) /\ i - Len(q) \in 1..Len(t)
  BY <1>2
<1>5. QED
  BY <1>1, <1>2, <1>3, <1>4 DEF Extended

\* A row of a table is replaced.
LEMMA Replaced ==
  ASSUME NEW S, NEW q \in Seq(S), NEW i \in DOMAIN q, NEW e \in S
  PROVE  /\ [q EXCEPT ![i] = e] \in Seq(S)
         /\ Len([q EXCEPT ![i] = e]) = Len(q)
         /\ DOMAIN [q EXCEPT ![i] = e] = DOMAIN q
         /\ [q EXCEPT ![i] = e][i] = e
         /\ \A j \in DOMAIN q : j # i => [q EXCEPT ![i] = e][j] = q[j]
BY LenProperties, ExceptSeq

\* What no step undoes: rows stay, and with them who takes part in which chat, what
\* was said where, and what a run is about.
Grown ==
  /\ DOMAIN chats \subseteq DOMAIN chats'
  /\ \A i \in DOMAIN parts : /\ i \in DOMAIN parts'
                             /\ parts'[i].chat = parts[i].chat /\ parts'[i].who = parts[i].who
  /\ \A m \in DOMAIN messages : m \in DOMAIN messages' /\ messages'[m] = messages[m]
  /\ \A r \in DOMAIN runs : /\ r \in DOMAIN runs'
                            /\ runs'[r].chat = runs[r].chat
                            /\ runs'[r].trigger = runs[r].trigger
                            /\ runs'[r].assistant = runs[r].assistant

\* What a request knows of its rows stays true while its run is running.
LEMMA RequestKept ==
  ASSUME Grown, NEW s, NEW q, RequestOK(s, q),
         q.op = "turn" => loop' = s,
         q.op \in {"running", "turn"} => runs'[q.run].status = "running"
  PROVE  RequestOK(s, q)'
<1>1. \A i, c, w : IsPart(i, c, w) => IsPart(i, c, w)'
  BY DEF Grown, IsPart
<1>2. q.op \in Membership => q.chat \in DOMAIN chats'
  BY DEF Grown, RequestOK
<1>3. q.op = "invite" /\ q.part # 0 => IsPart(q.part, q.chat, q.who)'
  BY <1>1 DEF RequestOK
<1>4. q.op = "remove" => q.part \in DOMAIN parts' /\ parts'[q.part].chat = q.chat
  BY DEF Grown, RequestOK
<1>5. q.op = "posted" => q.message \in DOMAIN messages'
  BY DEF Grown, RequestOK
<1>6. q.op \in {"running", "turn"} =>
        /\ q.run \in DOMAIN runs'
        /\ runs'[q.run].status = "running" /\ runs'[q.run].chat = q.chat
        /\ runs'[q.run].assistant = runs[q.run].assistant
  BY DEF Grown, RequestOK
<1>7. q.op = "turn" =>
        /\ loop' = s
        /\ q.speaker # 0 => /\ q.speaker \in DOMAIN parts'
                            /\ parts'[q.speaker].chat = q.chat
                            /\ parts'[q.speaker].who = runs[q.run].assistant
  BY DEF RequestOK, IsPart, Grown
<1>8. QED
  BY <1>2, <1>3, <1>4, <1>5, <1>6, <1>7 DEF RequestOK, IsPart

\* The references between rows survive as long as the new rows refer to rows.
LEMMA RefsKept ==
  ASSUME Grown, RefsOK,
         \A i \in DOMAIN parts' \ DOMAIN parts : parts'[i].chat \in DOMAIN chats',
         \A m \in DOMAIN messages' \ DOMAIN messages :
            messages'[m].run # 0 => messages'[m].run \in DOMAIN runs',
         \A r \in DOMAIN runs' \ DOMAIN runs : runs'[r].trigger \in DOMAIN messages'
  PROVE  RefsOK'
<1>1. \A i \in DOMAIN parts' : parts'[i].chat \in DOMAIN chats'
  BY DEF Grown, RefsOK
<1>2. \A m \in DOMAIN messages' : messages'[m].run # 0 => messages'[m].run \in DOMAIN runs'
  BY DEF Grown, RefsOK
<1>3. \A r \in DOMAIN runs' : runs'[r].trigger \in DOMAIN messages'
  BY DEF Grown, RefsOK
<1>4. QED
  BY <1>1, <1>2, <1>3 DEF RefsOK

\* Runs stay settled, or under way, when only messages outside of runs are added and
\* the same requests handle them.
LEMMA TurnsKept ==
  ASSUME Grown, RefsOK, TurnsInv, UNCHANGED <<runs, orphans>>,
         \A m \in DOMAIN messages' \ DOMAIN messages : messages'[m].run = 0,
         0 \notin DOMAIN runs,
         \A s \in Sessions, r \in DOMAIN runs : Handles(s, r)' <=> Handles(s, r)
  PROVE  TurnsInv'
<1>1. \A s, t \in Sessions, r \in DOMAIN runs' : Handles(s, r)' /\ Handles(t, r)' => s = t
  BY DEF TurnsInv
<1>2. ASSUME NEW r \in DOMAIN runs'
      PROVE  RunOK(r)'
  <2>1. RunOK(r) /\ runs'[r] = runs[r] /\ r # 0 /\ orphans' = orphans
    BY <1>2 DEF TurnsInv
  <2>2. \A m \in DOMAIN messages' : messages'[m].run = r =>
           m \in DOMAIN messages /\ messages[m].run = r
    BY <2>1 DEF Grown
  <2>3. CASE runs[r].status = "running"
    <3>1. \A m \in DOMAIN messages' : messages'[m].run # r
      BY <2>1, <2>2, <2>3 DEF RunOK
    <3>2. r \in orphans' \/ \E s \in Sessions : Handles(s, r)'
      BY <2>1, <2>3 DEF RunOK
    <3>3. QED
      BY <2>1, <2>3, <3>1, <3>2 DEF RunOK
  <2>4. CASE runs[r].status # "running"
    <3>1. PICK m \in DOMAIN messages :
             /\ messages[m].run = r /\ m > runs[r].trigger
             /\ messages[m].chat = runs[r].chat
             /\ \A n \in DOMAIN messages : messages[n].run = r => n = m
      BY <2>1, <2>4 DEF RunOK
    <3>2. /\ m \in DOMAIN messages' /\ messages'[m].run = r /\ m > runs'[r].trigger
          /\ messages'[m].chat = runs'[r].chat
          /\ \A n \in DOMAIN messages' : messages'[n].run = r => n = m
      BY <2>1, <2>2, <3>1 DEF Grown
    <3>3. QED
      BY <2>1, <2>4, <3>2 DEF RunOK
  <2>5. QED
    BY <2>3, <2>4
<1>3. QED
  BY <1>1, <1>2 DEF TurnsInv

\* Who spoke in a run still takes part when the new messages are outside of runs or
\* of the system.
LEMMA RepliesKept ==
  ASSUME Grown, RefsOK, RepliesInv,
         \A m \in DOMAIN messages' \ DOMAIN messages :
            messages'[m].run = 0 \/ messages'[m].by = 0
  PROVE  RepliesInv'
<1> SUFFICES ASSUME NEW m \in DOMAIN messages',
                    messages'[m].run # 0, messages'[m].by # 0
             PROVE  /\ messages'[m].by \in DOMAIN parts'
                    /\ parts'[messages'[m].by].chat = messages'[m].chat
                    /\ parts'[messages'[m].by].who = runs'[messages'[m].run].assistant
  BY DEF RepliesInv, IsPart
<1>1. m \in DOMAIN messages /\ messages'[m] = messages[m]
  BY DEF Grown
<1>2. /\ IsPart(messages[m].by, messages[m].chat, runs[messages[m].run].assistant)
      /\ messages[m].run \in DOMAIN runs
  BY <1>1 DEF RepliesInv, RefsOK
<1>3. runs'[messages[m].run].assistant = runs[messages[m].run].assistant
  BY <1>2 DEF Grown
<1>4. QED
  BY <1>1, <1>2, <1>3 DEF Grown, IsPart
---------------------------------------------------------------------------
(* What the open requests know                                             *)

\* The requests other than that of s keep what they know, and s what it has learnt,
\* as long as no turn of another session loses the event loop or its run.
LEMMA SessionsKept ==
  ASSUME Grown, SessionsOK, NEW s \in Sessions, NEW q \in Request \cup {NULL},
         session' = [session EXCEPT ![s] = q],
         q # NULL => RequestOK(s, q)',
         loop' = loop \/ loop \in {s, NULL},
         \A t \in Sessions \ {s}, r \in DOMAIN runs :
            Handles(t, r) => runs'[r].status = runs[r].status,
         loop' \in Sessions \cup {NULL},
         chatter' \subseteq Assistants, orphans' \subseteq DOMAIN runs',
         raced' \subseteq DOMAIN chats', doubled' \subseteq Persons
  PROVE  SessionsOK'
<1>1. session' \in [Sessions -> Request \cup {NULL}]
  BY DEF SessionsOK
<1>2. session'[s] = q /\ \A t \in Sessions \ {s} : session'[t] = session[t]
  BY DEF SessionsOK
<1>3. ASSUME NEW t \in Sessions, session'[t] # NULL
      PROVE  RequestOK(t, session[t])'
  <2>1. PICK p : p = session'[t]
    OBVIOUS
  <2>2. CASE t = s
    BY <1>2, <1>3, <2>1, <2>2 DEF RequestOK, IsPart
  <2>3. CASE t # s
    <3>1. p = session[t] /\ p # NULL /\ RequestOK(t, p)
      BY <1>2, <1>3, <2>1, <2>3 DEF SessionsOK
    <3>2. p.op = "turn" => loop' = t
      BY <2>3, <3>1, InputsAssumption DEF RequestOK
    <3>3. p.op \in {"running", "turn"} => runs'[p.run].status = "running"
      BY <2>3, <3>1 DEF RequestOK, Handles
    <3>4. RequestOK(t, p)'
      BY <3>1, <3>2, <3>3, RequestKept
    <3>5. QED
      BY <2>1, <3>4 DEF RequestOK, IsPart
  <2>4. QED
    BY <2>2, <2>3
<1>4. QED
  BY <1>1, <1>3 DEF SessionsOK

\* The same for a step of no session.
LEMMA SessionsSame ==
  ASSUME Grown, SessionsOK, UNCHANGED <<session, loop>>,
         \A r \in DOMAIN runs : runs'[r].status = runs[r].status,
         chatter' \subseteq Assistants, orphans' \subseteq DOMAIN runs',
         raced' \subseteq DOMAIN chats', doubled' \subseteq Persons
  PROVE  SessionsOK'
<1>1. ASSUME NEW t \in Sessions, session'[t] # NULL
      PROVE  RequestOK(t, session[t])'
  <2>1. PICK p : p = session'[t]
    OBVIOUS
  <2>2. p = session[t] /\ p # NULL /\ RequestOK(t, p)
    BY <1>1, <2>1 DEF SessionsOK
  <2>3. p.op = "turn" => loop' = t
    BY <2>2 DEF RequestOK
  <2>4. p.op \in {"running", "turn"} => runs'[p.run].status = "running"
    BY <2>2 DEF RequestOK
  <2>5. RequestOK(t, p)'
    BY <2>2, <2>3, <2>4, RequestKept
  <2>6. QED
    BY <2>1, <2>5 DEF RequestOK, IsPart
<1>2. QED
  BY <1>1 DEF SessionsOK

\* The list of chats: nothing it depends on has changed, or it was just read.
LEMMA InboxesRead ==
  ASSUME InboxesInv, UNCHANGED <<chats, parts, doubled>>,
         \A s \in Sessions : session'[s] # NULL =>
            \/ session'[s] = session[s]
            \/ ListOK(session'[s]) /\ KindOK(session'[s])
  PROVE  InboxesInv'
<1>1. \A p, a : OpenInboxes(p, a)' = OpenInboxes(p, a)
  BY DEF OpenInboxes, Present, Active
<1>2. ASSUME NEW s \in Sessions, session'[s] # NULL
      PROVE  ListOK(session[s])' /\ KindOK(session[s])'
  <2>1. ListOK(session'[s]) /\ KindOK(session'[s])
    BY <1>2 DEF InboxesInv
  <2>2. ListOK(session[s])'
    BY <1>1, <2>1 DEF ListOK
  <2>3. KindOK(session[s])'
    BY <2>1 DEF KindOK
  <2>4. QED
    BY <2>2, <2>3
<1>3. QED
  BY <1>1, <1>2 DEF InboxesInv

\* Only lists seed private chats: other requests may close some.
LEMMA InboxesShrunk ==
  ASSUME Grown, TablesOK, RefsOK, SessionsOK, InboxesInv, doubled' = doubled,
         \A c \in DOMAIN chats : /\ chats'[c].seeded = chats[c].seeded
                                 /\ chats'[c].owner = chats[c].owner
                                 /\ chats'[c].kind = "assistant" <=> chats[c].kind = "assistant",
         \A c \in DOMAIN chats' \ DOMAIN chats : ~chats'[c].seeded,
         \A i \in DOMAIN parts : ~parts'[i].removed => ~parts[i].removed,
         \A i \in DOMAIN parts' \ DOMAIN parts :
            chats'[parts'[i].chat].seeded => parts'[i].who \notin Persons,
         \A s \in Sessions : session'[s] # NULL => session'[s] = session[s]
  PROVE  InboxesInv'
<1>1. \A c \in DOMAIN chats' : chats'[c].seeded => c \in DOMAIN chats /\ chats[c].seeded
  OBVIOUS
<1>2. ASSUME NEW i \in DOMAIN parts', chats'[parts'[i].chat].seeded, parts'[i].who \in Persons
      PROVE  i \in DOMAIN parts /\ i + 1 \in DOMAIN parts
  <2>1. i \in DOMAIN parts /\ parts[i].chat \in DOMAIN chats
    BY <1>2 DEF RefsOK
  <2>2. chats[parts[i].chat].seeded /\ parts[i].who \in Persons
    BY <1>2, <2>1 DEF Grown
  <2>3. QED
    BY <2>1, <2>2 DEF InboxesInv
<1>3. ASSUME NEW p \in Persons, NEW a, NEW c \in OpenInboxes(p, a)'
      PROVE  c \in OpenInboxes(p, a)
  <2>1. PICK i \in Present(c, p)' : i + 1 \in Present(c, a)'
    BY <1>3 DEF OpenInboxes
  <2>2. /\ c \in DOMAIN chats /\ chats'[c].seeded
        /\ chats[c].seeded /\ chats[c].owner = p
    BY <1>1, <1>3 DEF OpenInboxes
  <2>3. /\ i \in DOMAIN parts' /\ parts'[i].chat = c /\ parts'[i].who = p
        /\ ~parts'[i].removed
        /\ parts'[i + 1].chat = c /\ parts'[i + 1].who = a /\ ~parts'[i + 1].removed
    BY <2>1 DEF Present, Active
  <2>4. i \in DOMAIN parts /\ i + 1 \in DOMAIN parts
    BY <1>2, <2>2, <2>3
  <2>5. i \in Present(c, p) /\ i + 1 \in Present(c, a)
    BY <2>3, <2>4 DEF Grown, Present, Active
  <2>6. QED
    BY <2>2, <2>5 DEF OpenInboxes
<1>4. \A c \in DOMAIN chats' : chats'[c].seeded => chats'[c].kind = "assistant"
  BY <1>1 DEF InboxesInv
<1>5. \A i \in DOMAIN parts' : chats'[parts'[i].chat].seeded /\ parts'[i].who \in Persons =>
         i + 1 \in DOMAIN parts'
  BY <1>2 DEF Grown
<1>6. ASSUME NEW s \in Sessions, session'[s] # NULL
      PROVE  ListOK(session[s])' /\ KindOK(session[s])'
  <2>1. PICK q : q = session'[s]
    OBVIOUS
  <2>2. q = session[s] /\ q # NULL /\ q \in Request /\ RequestOK(s, q)
    BY <1>6, <2>1 DEF SessionsOK
  <2>3. ListOK(q) /\ KindOK(q)
    BY <2>2 DEF InboxesInv
  <2>4. q.op = "list" => q.who \in Persons
    BY <2>2 DEF Request, Listing, Invite, Remove, Posted, Running, InTurn
  <2>5. q.op = "list" /\ q.who \notin doubled => \A a \in q.missing : OpenInboxes(q.who, a)' = {}
    BY <1>3, <2>3, <2>4 DEF ListOK
  <2>6. q.op \in {"invite", "remove"} => q.chat \in DOMAIN chats
    BY <2>2 DEF RequestOK, Membership
  <2>7. QED
    BY <2>1, <2>3, <2>5, <2>6 DEF ListOK, KindOK
<1>7. \A p \in Persons \ doubled', a \in Inboxes : \A c, d \in OpenInboxes(p, a)' : c = d
  BY <1>3 DEF InboxesInv
<1>8. QED
  BY <1>4, <1>5, <1>6, <1>7 DEF InboxesInv

\* Membership: nothing it depends on has changed, or it was just read.
LEMMA MembershipRead ==
  ASSUME MembershipInv, UNCHANGED <<chats, parts, raced>>,
         \A s \in Sessions : session'[s] # NULL =>
            session'[s] = session[s] \/ ReadOK(session'[s])
  PROVE  MembershipInv'
<1>1. \A c : ActiveAssistants(c)' = ActiveAssistants(c)
  BY DEF ActiveAssistants, Active
<1>2. ASSUME NEW c \in DOMAIN chats' \ raced'
      PROVE  ChatOK(c)'
  BY <1>1, <1>2 DEF MembershipInv, ChatOK
<1>3. ASSUME NEW s \in Sessions, session'[s] # NULL
      PROVE  ReadOK(session[s])'
  <2>1. ReadOK(session'[s])
    BY <1>3 DEF MembershipInv
  <2>2. QED
    BY <1>1, <2>1 DEF ReadOK
<1>4. QED
  BY <1>2, <1>3 DEF MembershipInv

\* Chat c is what it was.
Same(c) ==
  /\ c \in DOMAIN chats
  /\ chats'[c].kind = chats[c].kind /\ chats'[c].primary = chats[c].primary
  /\ ActiveAssistants(c)' = ActiveAssistants(c)

\* A step changes one chat, which is in order then and which no other request has read,
\* or is noted as raced.
LEMMA MembershipKept ==
  ASSUME SessionsOK, MembershipInv, raced \subseteq raced',
         \A c \in DOMAIN chats' \ raced' : Same(c) \/ ChatOK(c)',
         \A s \in Sessions : session'[s] # NULL =>
            /\ session'[s] = session[s]
            /\ session[s].op \in Membership => session[s].chat \in raced' \/ Same(session[s].chat)
  PROVE  MembershipInv'
<1>1. ASSUME NEW c \in DOMAIN chats' \ raced', Same(c)
      PROVE  ChatOK(c)'
  <2>1. ChatOK(c)
    BY <1>1 DEF Same, MembershipInv
  <2>2. QED
    BY <1>1, <2>1 DEF Same, ChatOK
<1>2. ASSUME NEW s \in Sessions, session'[s] # NULL
      PROVE  ReadOK(session[s])'
  <2>1. PICK q : q = session'[s]
    OBVIOUS
  <2>2. /\ q = session[s] /\ ReadOK(q)
        /\ q.op \in {"invite", "remove"} => q.chat \in raced' \/ Same(q.chat)
    BY <1>2, <2>1 DEF MembershipInv, Membership
  <2>3. ReadOK(q)'
    BY <2>2 DEF ReadOK, Same
  <2>4. QED
    BY <2>1, <2>3 DEF ReadOK
<1>3. QED
  BY <1>1, <1>2 DEF MembershipInv
---------------------------------------------------------------------------
(* Begin                                                                   *)

\* Rows are numbered from 1, within the bounds.
LEMMA Bounds ==
  ASSUME TablesOK
  PROVE  /\ DOMAIN chats = 1..Len(chats) /\ Len(chats) \in Nat
         /\ DOMAIN parts = 1..Len(parts) /\ Len(parts) \in Nat
         /\ DOMAIN messages = 1..Len(messages) /\ Len(messages) \in Nat
         /\ DOMAIN runs = 1..Len(runs) /\ Len(runs) \in Nat
         /\ DOMAIN chats \subseteq 1..MaxChats /\ DOMAIN parts \subseteq 1..MaxParts
         /\ DOMAIN runs \subseteq 1..MaxRuns /\ 0 \notin DOMAIN runs
         /\ \A c \in DOMAIN chats : chats[c] \in Chat
         /\ \A i \in DOMAIN parts : parts[i] \in Part
         /\ \A m \in DOMAIN messages : messages[m] \in Message
         /\ \A r \in DOMAIN runs : runs[r] \in Run
<1>1. /\ DOMAIN chats = 1..Len(chats) /\ Len(chats) \in Nat
      /\ DOMAIN parts = 1..Len(parts) /\ Len(parts) \in Nat
      /\ DOMAIN messages = 1..Len(messages) /\ Len(messages) \in Nat
      /\ DOMAIN runs = 1..Len(runs) /\ Len(runs) \in Nat
  BY LenProperties DEF TablesOK
<1>2. /\ \A c \in DOMAIN chats : chats[c] \in Chat
      /\ \A i \in DOMAIN parts : parts[i] \in Part
      /\ \A m \in DOMAIN messages : messages[m] \in Message
      /\ \A r \in DOMAIN runs : runs[r] \in Run
  BY <1>1, ElementOfSeq DEF TablesOK
<1>3. /\ DOMAIN chats \subseteq 1..MaxChats /\ DOMAIN parts \subseteq 1..MaxParts
      /\ DOMAIN runs \subseteq 1..MaxRuns /\ 0 \notin DOMAIN runs
  BY <1>1, ConversationsAssumption DEF TablesOK
<1>4. QED
  BY <1>1, <1>2, <1>3

\* Nothing is there and nobody asks for anything.
LEMMA Begin ==
  ASSUME Init
  PROVE  IInv
<1>1. /\ chats = <<>> /\ parts = <<>> /\ messages = <<>> /\ runs = <<>> /\ proposals = <<>>
      /\ session = [s \in Sessions |-> NULL] /\ loop = NULL
      /\ chatter = {} /\ orphans = {} /\ raced = {} /\ doubled = {}
  BY DEF Init
<1>2. TablesOK
  BY <1>1, EmptySeq, ConversationsAssumption DEF TablesOK
<1>3. DOMAIN chats = {} /\ DOMAIN parts = {} /\ DOMAIN messages = {} /\ DOMAIN runs = {}
  BY <1>1
<1>4. RefsOK /\ SessionsOK
  BY <1>1, <1>3 DEF RefsOK, SessionsOK
<1>5. TurnsInv /\ RepliesInv
  BY <1>1, <1>3 DEF TurnsInv, RepliesInv
<1>6. \A p, a : OpenInboxes(p, a) = {}
  BY <1>3 DEF OpenInboxes
<1>7. InboxesInv
  BY <1>1, <1>3, <1>6 DEF InboxesInv
<1>8. MembershipInv
  BY <1>1, <1>3 DEF MembershipInv
<1>9. QED
  BY <1>2, <1>4, <1>5, <1>7, <1>8 DEF IInv

---------------------------------------------------------------------------
(* Messages outside of runs                                                *)

\* A message of the system, or of a person, settles and unsettles nothing.
LEMMA MessageMore ==
  ASSUME TablesOK, RefsOK, RepliesInv, NEW x \in Message, x.run = 0,
         messages' = Append(messages, x), UNCHANGED <<chats, parts, runs>>
  PROVE  /\ Grown /\ messages' \in Seq(Message)
         /\ DOMAIN messages' = 1..(Len(messages) + 1)
         /\ \A m \in DOMAIN messages' \ DOMAIN messages : messages'[m].run = 0
         /\ RefsOK' /\ RepliesInv'
<1>1. /\ messages' \in Seq(Message)
      /\ DOMAIN messages = 1..Len(messages) /\ Len(messages) \in Nat
      /\ DOMAIN messages' = 1..(Len(messages) + 1)
      /\ \A m \in DOMAIN messages : messages'[m] = messages[m]
      /\ messages'[Len(messages) + 1] = x
  BY OneMore DEF TablesOK
<1>2. \A m \in DOMAIN messages' \ DOMAIN messages : messages'[m].run = 0
  BY <1>1
<1>3. Grown
  BY <1>1 DEF Grown
<1>4. RefsOK'
  BY <1>2, <1>3, RefsKept
<1>5. RepliesInv'
  BY <1>2, <1>3, RepliesKept
<1>6. QED
  BY <1>1, <1>2, <1>3, <1>4, <1>5

\* Summaries, shares, proposals and what becomes of them add a note to a chat.
LEMMA Noted ==
  ASSUME IInv, NEW c \in 1..MaxChats, messages' = Append(messages, Note(c)),
         proposals' \in Seq(Proposal),
         UNCHANGED <<chats, parts, runs, session, loop, chatter, history>>
  PROVE  IInv'
<1>1. Note(c) \in Message /\ Note(c).run = 0
  BY ConversationsAssumption DEF Note, Message
<1>2. /\ Grown /\ messages' \in Seq(Message)
      /\ \A m \in DOMAIN messages' \ DOMAIN messages : messages'[m].run = 0
      /\ RefsOK' /\ RepliesInv'
  BY <1>1, MessageMore DEF IInv
<1>3. TablesOK'
  BY <1>2 DEF IInv, TablesOK
<1>4. SessionsOK'
  BY <1>2, SessionsSame DEF IInv, SessionsOK, history
<1>5. 0 \notin DOMAIN runs
  BY Bounds DEF IInv
<1>6. TurnsInv'
  BY <1>2, <1>5, TurnsKept DEF IInv, Handles, history
<1>7. InboxesInv'
  BY InboxesRead DEF IInv, history
<1>8. MembershipInv'
  BY MembershipRead DEF IInv, history
<1>9. QED
  BY <1>2, <1>3, <1>4, <1>6, <1>7, <1>8 DEF IInv

\* A summary, and a message or summary shared with another chat.
LEMMA Summarized ==
  ASSUME IInv, NEW p \in Persons, NEW c \in DOMAIN chats, Summarize(p, c)
  PROVE  IInv'
<1>1. c \in 1..MaxChats /\ proposals' \in Seq(Proposal)
  BY Bounds DEF IInv, Summarize, TablesOK
<1>2. QED
  BY <1>1, Noted DEF Summarize

\* A chat is turned into a proposal.
LEMMA Converted ==
  ASSUME IInv, NEW p \in Persons, NEW c \in DOMAIN chats, Convert(p, c)
  PROVE  IInv'
<1>1. c \in 1..MaxChats /\ Len(messages) \in Nat
  BY Bounds DEF IInv
<1>2. Len(messages) + 1 \in 1..MaxMessages
  BY <1>1, ConversationsAssumption DEF Convert, Room
<1>3. [chat |-> c, message |-> Len(messages) + 1, status |-> "proposed"] \in Proposal
  BY <1>1, <1>2 DEF Proposal
<1>4. proposals' \in Seq(Proposal)
  BY <1>3, OneMore DEF IInv, TablesOK, Convert
<1>5. QED
  BY <1>1, <1>4, Noted DEF Convert

\* A proposal is confirmed, committed or canceled.
LEMMA Mutated ==
  ASSUME IInv, NEW p \in Persons, NEW n \in DOMAIN proposals,
         NEW next \in {"confirmed", "committed", "canceled"}, MutateAction(p, n, next)
  PROVE  IInv'
<1>1. proposals \in Seq(Proposal) /\ proposals[n] \in Proposal
  BY LenProperties, ElementOfSeq DEF IInv, TablesOK
<1>2. proposals[n].chat \in 1..MaxChats
  BY <1>1 DEF Proposal
<1>3. [proposals[n] EXCEPT !.status = next] \in Proposal
  BY <1>1 DEF Proposal
<1>4. proposals' = [proposals EXCEPT ![n] = [proposals[n] EXCEPT !.status = next]]
  BY DEF MutateAction
<1>5. proposals' \in Seq(Proposal)
  BY <1>1, <1>3, <1>4, Replaced
<1>6. PICK c \in 1..MaxChats : c = proposals[n].chat
  BY <1>2
<1>7. messages' = Append(messages, Note(c))
  BY <1>6 DEF MutateAction
<1>8. QED
  BY <1>5, <1>7, Noted DEF MutateAction
---------------------------------------------------------------------------
(* Turns                                                                   *)

\* A set of natural numbers has a least member: of the intervals 0..n that its
\* members span, one is strictly inside no other.
LEMMA LeastNatural ==
  ASSUME NEW T, T \subseteq Nat, T # {}
  PROVE  \E n \in T : \A m \in T : n <= m
<1> DEFINE spans == {0..n : n \in T}
<1>1. spans \subseteq FiniteSubsetsOf(Nat) /\ spans # {}
  <2>1. ASSUME NEW n \in T
        PROVE  0..n \in FiniteSubsetsOf(Nat)
    <3>1. n \in Int /\ 0..n \in SUBSET Nat
      OBVIOUS
    <3>2. IsFiniteSet(0..n)
      BY <3>1, FS_Interval
    <3> QED
      BY <3>1, <3>2 DEF FiniteSubsetsOf
  <2> QED
    BY <2>1
<1>2. PICK span \in spans : \A x \in spans : ~ (<<x, span>> \in StrictSubsetOrdering(Nat))
  <2> HIDE DEF spans
  <2> QED
    BY <1>1, WFMin, FS_StrictSubsetOrderingWellFounded
<1>3. PICK n \in T : span = 0..n
  OBVIOUS
<1>4. ASSUME NEW m \in T, m < n
      PROVE  FALSE
  <2>1. 0..m \in SUBSET Nat /\ 0..n \in SUBSET Nat /\ 0..m \subseteq 0..n
    BY <1>4
  <2>2. n \in 0..n /\ n \notin 0..m
    BY <1>4
  <2>3. <<0..m, 0..n>> \in StrictSubsetOrdering(Nat)
    BY <2>1, <2>2, Zenon DEF StrictSubsetOrdering
  <2> QED
    BY <1>2, <1>3, <2>3
<1> QED
  BY <1>4

\* The participant who joined first is one of them.
LEMMA FirstIsOne ==
  ASSUME NEW S \in SUBSET Nat, S # {}
  PROVE  First(S) \in S
<1>1. \E i \in S : \A j \in S : i <= j
  BY LeastNatural
<1>2. QED
  BY <1>1 DEF First

LEMMA FirstPresent ==
  ASSUME TablesOK, NEW c, NEW w, Present(c, w) # {}
  PROVE  First(Present(c, w)) \in DOMAIN parts /\ IsPart(First(Present(c, w)), c, w)
<1>1. Present(c, w) \in SUBSET Nat /\ Present(c, w) \subseteq DOMAIN parts
  BY Bounds DEF Present, Active
<1>2. First(Present(c, w)) \in Present(c, w)
  BY <1>1, FirstIsOne
<1>3. QED
  BY <1>1, <1>2 DEF Present, Active, IsPart

\* A message is posted: its request knows it.
LEMMA MessagePosted ==
  ASSUME IInv, NEW s \in Sessions, NEW p \in Persons, NEW c \in DOMAIN chats,
         PostMessage(s, p, c)
  PROVE  IInv'
<1>1. /\ session[s] = NULL /\ loop = NULL /\ loop' \in {s, NULL}
      /\ UNCHANGED <<chats, parts, runs, proposals, chatter, orphans, raced, doubled>>
      /\ c \in 1..MaxChats /\ Len(messages) \in Nat /\ Len(messages) + 1 <= MaxMessages
      /\ 0 \notin DOMAIN runs
  BY Bounds DEF IInv, PostMessage, Room, history
<1>2. First(Present(c, p)) \in 1..MaxParts
  BY FirstPresent, Bounds DEF IInv, PostMessage
<1>3. PICK x : x = Said(c, First(Present(c, p)), 0)
  OBVIOUS
<1>4. x \in Message /\ x.run = 0 /\ messages' = Append(messages, x)
  BY <1>1, <1>2, <1>3, ConversationsAssumption DEF Said, Message, PostMessage
<1>5. /\ Grown /\ messages' \in Seq(Message)
      /\ DOMAIN messages' = 1..(Len(messages) + 1)
      /\ \A m \in DOMAIN messages' \ DOMAIN messages : messages'[m].run = 0
      /\ RefsOK' /\ RepliesInv'
  BY <1>1, <1>4, MessageMore DEF IInv
<1>6. PICK q : q = [op |-> "posted", chat |-> c, message |-> Len(messages) + 1]
  OBVIOUS
<1>7. /\ q \in Request /\ q # NULL /\ q.op = "posted"
      /\ q.message \in DOMAIN messages'
      /\ session' = [session EXCEPT ![s] = q]
  <2>1. q \in Posted
    BY <1>1, <1>6 DEF Posted
  <2>2. q \in Request
    BY <2>1 DEF Request
  <2>3. QED
    BY <1>1, <1>5, <1>6, <2>2, InputsAssumption DEF PostMessage
<1>8. RequestOK(s, q)'
  BY <1>7 DEF RequestOK, Membership
<1>9. TablesOK'
  BY <1>1, <1>5 DEF IInv, TablesOK
<1>10. /\ session \in [Sessions -> Request \cup {NULL}]
       /\ session'[s] = q /\ \A t \in Sessions \ {s} : session'[t] = session[t]
  BY <1>7 DEF IInv, SessionsOK
<1>11. SessionsOK'
  BY <1>1, <1>5, <1>7, <1>8, SessionsKept DEF IInv, SessionsOK
<1>12. \A t \in Sessions, r \in DOMAIN runs : Handles(t, r)' <=> Handles(t, r)
  BY <1>1, <1>7, <1>10 DEF Handles
<1>13. TurnsInv'
  BY <1>1, <1>5, <1>12, TurnsKept DEF IInv
<1>14. \A t \in Sessions : session'[t] # NULL =>
          session'[t] = session[t] \/ session'[t].op = "posted"
  BY <1>7, <1>10
<1>15. InboxesInv'
  BY <1>1, <1>14, InboxesRead DEF IInv, ListOK, KindOK
<1>16. MembershipInv'
  BY <1>1, <1>14, MembershipRead DEF IInv, ReadOK
<1>17. QED
  BY <1>5, <1>9, <1>11, <1>13, <1>15, <1>16 DEF IInv

\* A step that writes no row and changes one session keeps what is not about it.
LEMMA OnlySession ==
  ASSUME IInv, NEW s \in Sessions, NEW q \in Request \cup {NULL},
         session' = [session EXCEPT ![s] = q], UNCHANGED <<rows, history>>,
         q # NULL => RequestOK(s, q)' /\ ListOK(q) /\ KindOK(q) /\ ReadOK(q),
         loop' = loop \/ loop \in {s, NULL}, loop' \in Sessions \cup {NULL},
         chatter' \subseteq Assistants,
         \A r \in DOMAIN runs : Handles(s, r)' <=> Handles(s, r)
  PROVE  IInv'
<1>1. /\ Grown /\ TablesOK' /\ RefsOK' /\ 0 \notin DOMAIN runs
      /\ UNCHANGED <<chats, parts, messages, runs, orphans, raced, doubled>>
  BY Bounds DEF IInv, Grown, TablesOK, RefsOK, rows, history
<1>2. SessionsOK'
  BY <1>1, SessionsKept DEF IInv, SessionsOK
<1>3. session'[s] = q /\ \A t \in Sessions \ {s} : session'[t] = session[t]
  BY DEF IInv, SessionsOK
<1>4. \A t \in Sessions, r \in DOMAIN runs : Handles(t, r)' <=> Handles(t, r)
  BY <1>3 DEF Handles
<1>5. TurnsInv'
  BY <1>1, <1>4, TurnsKept DEF IInv
<1>6. RepliesInv'
  BY <1>1, RepliesKept DEF IInv
<1>7. InboxesInv'
  BY <1>1, <1>3, InboxesRead DEF IInv
<1>8. MembershipInv'
  BY <1>1, <1>3, MembershipRead DEF IInv
<1>9. QED
  BY <1>1, <1>2, <1>5, <1>6, <1>7, <1>8 DEF IInv

\* The participants are read again: who speaks for the assistant takes part.
LEMMA TurnStarted ==
  ASSUME IInv, NEW s \in Sessions, StartTurn(s)
  PROVE  IInv'
<1> DEFINE r == session[s]
           a == Present(r.chat, runs[r.run].assistant)
<1>1. /\ r # NULL /\ r.op = "running" /\ loop \in {s, NULL} /\ loop' = s /\ chatter' = {}
      /\ UNCHANGED <<rows, history>>
      /\ session' = [session EXCEPT ![s] = [op |-> "turn", chat |-> r.chat, run |-> r.run,
                                            speaker |-> IF a = {} THEN 0 ELSE First(a)]]
  BY DEF StartTurn
<1>2. /\ r.chat \in 1..MaxChats /\ r.run \in 1..MaxRuns
  <2>1. r \in Request
    BY <1>1 DEF IInv, SessionsOK
  <2>2. r \in Running
    BY <1>1, <2>1 DEF Request, Listing, Invite, Remove, Posted, Running, InTurn
  <2>3. QED
    BY <2>2 DEF Running
<1>3. r.run \in DOMAIN runs /\ runs[r.run].status = "running" /\ runs[r.run].chat = r.chat
  BY <1>1 DEF IInv, SessionsOK, RequestOK
<1>4. PICK q : q = [op |-> "turn", chat |-> r.chat, run |-> r.run,
                    speaker |-> IF a = {} THEN 0 ELSE First(a)]
  OBVIOUS
<1>5. q.speaker # 0 => IsPart(q.speaker, r.chat, runs[r.run].assistant)
  BY <1>4, FirstPresent DEF IInv
<1>6. q.speaker \in 0..MaxParts
  BY <1>4, <1>5, Bounds, ConversationsAssumption DEF IInv, IsPart
<1>7. q \in Request /\ q # NULL
  <2>1. q \in InTurn
    BY <1>2, <1>4, <1>6 DEF InTurn
  <2>2. q \in Request
    BY <2>1 DEF Request
  <2>3. QED
    BY <2>2, InputsAssumption
<1>8. /\ q.op = "turn" /\ q.chat = r.chat /\ q.run = r.run
      /\ session' = [session EXCEPT ![s] = q]
  BY <1>1, <1>4
<1>9. RequestOK(s, q)' /\ ListOK(q) /\ KindOK(q) /\ ReadOK(q)
  <2>1. runs' = runs /\ parts' = parts /\ loop' = s
    BY <1>1 DEF rows
  <2>2. RequestOK(s, q)'
    BY <1>3, <1>5, <1>8, <2>1 DEF RequestOK, IsPart, Membership
  <2>3. QED
    BY <1>8, <2>2 DEF ListOK, KindOK, ReadOK
<1>10. \A n \in DOMAIN runs : Handles(s, n)' <=> Handles(s, n)
  BY <1>1, <1>7, <1>8 DEF Handles, IInv, SessionsOK
<1>11. QED
  BY <1>1, <1>7, <1>8, <1>9, <1>10, OnlySession

\* The message asks for no assistant, or a run is begun for one.
LEMMA SelectedAssistant ==
  ASSUME TablesOK, NEW c, NEW explicit \in Assistants \cup {NULL},
         NEW mentioned \in SUBSET Assistants, NEW invoke
  PROVE  Selected(c, explicit, mentioned, invoke) \subseteq Assistants
<1> DEFINE here  == ActiveAssistants(c)
           ready == {i \in here : parts[i].mode = "active"}
           main  == chats[c].primary
<1>1. here \in SUBSET Nat /\ \A i \in here : parts[i].who \in Assistants
  BY Bounds DEF ActiveAssistants, Active
<1>2. here # {} => First(here) \in here
  BY <1>1, FirstIsOne
<1>3. ready \subseteq here /\ ready \in SUBSET Nat
  BY <1>1
<1>4. ready # {} => First(ready) \in ready
  BY <1>3, FirstIsOne
<1>5. ready # {} => (IF main \in ready THEN main ELSE First(ready)) \in here
  BY <1>3, <1>4
<1> HIDE DEF here, ready, main
<1>6. \/ Selected(c, explicit, mentioned, invoke) = {}
      \/ here # {} /\ Selected(c, explicit, mentioned, invoke) = {parts[First(here)].who}
      \/ explicit # NULL /\ Selected(c, explicit, mentioned, invoke) = {explicit}
      \/ Selected(c, explicit, mentioned, invoke) \subseteq mentioned
      \/ ready # {} /\ Selected(c, explicit, mentioned, invoke) =
                         {parts[IF main \in ready THEN main ELSE First(ready)].who}
  BY DEF Selected, here, ready, main
<1>7. here # {} => parts[First(here)].who \in Assistants
  BY <1>1, <1>2
<1>8. ready # {} => parts[IF main \in ready THEN main ELSE First(ready)].who \in Assistants
  BY <1>1, <1>5
<1>9. explicit # NULL => explicit \in Assistants
  OBVIOUS
<1>10. QED
  BY <1>6, <1>7, <1>8, <1>9

\* Nobody is asked, or a run begins that its request handles and no message is of.
LEMMA RunStarted ==
  ASSUME IInv, NEW s \in Sessions, NEW explicit \in Assistants \cup {NULL},
         NEW mentioned \in SUBSET Assistants, NEW invoke \in BOOLEAN,
         NEW acts \in {"none", "running"}, StartRun(s, explicit, mentioned, invoke, acts)
  PROVE  IInv'
<1> DEFINE r == session[s]
<1>0. PICK n : n = Len(runs) + 1
  OBVIOUS
<1>1. /\ r # NULL /\ r.op = "posted" /\ loop \in {s, NULL}
      /\ UNCHANGED <<chats, parts, messages, proposals, chatter, history>>
  BY DEF StartRun
<1>2. r.chat \in 1..MaxChats /\ r.message \in 1..MaxMessages
  <2>1. r \in Request
    BY <1>1 DEF IInv, SessionsOK
  <2>2. r \in Posted
    BY <1>1, <2>1 DEF Request, Listing, Invite, Remove, Posted, Running, InTurn
  <2>3. QED
    BY <2>2 DEF Posted
<1>3. r.message \in DOMAIN messages
  BY <1>1 DEF IInv, SessionsOK, RequestOK
<1>4. CASE UNCHANGED runs /\ session' = [session EXCEPT ![s] = NULL] /\ loop' = NULL
  <2>1. \A m \in DOMAIN runs : Handles(s, m)' <=> Handles(s, m)
    BY <1>1, <1>4 DEF Handles, IInv, SessionsOK
  <2>2. UNCHANGED <<rows, history>> /\ chatter' \subseteq Assistants
    BY <1>1, <1>4 DEF rows, IInv, SessionsOK
  <2>3. QED
    BY <1>1, <1>4, <2>1, <2>2, OnlySession
<1>5. CASE \E a \in Assistants :
             /\ Len(runs) < MaxRuns
             /\ runs' = Append(runs, [chat |-> r.chat, trigger |-> r.message, assistant |-> a,
                                      status |-> "running", acts |-> acts, text |-> "none"])
             /\ session' = [session EXCEPT ![s] = [op |-> "running", chat |-> r.chat, run |-> n]]
             /\ loop' \in {s, NULL}
  <2>1. PICK a \in Assistants :
             /\ Len(runs) < MaxRuns
             /\ runs' = Append(runs, [chat |-> r.chat, trigger |-> r.message, assistant |-> a,
                                      status |-> "running", acts |-> acts, text |-> "none"])
             /\ session' = [session EXCEPT ![s] = [op |-> "running", chat |-> r.chat, run |-> n]]
             /\ loop' \in {s, NULL}
    BY <1>5
  <2>2. PICK x : x = [chat |-> r.chat, trigger |-> r.message, assistant |-> a,
                      status |-> "running", acts |-> acts, text |-> "none"]
    OBVIOUS
  <2>3. x \in Run /\ runs' = Append(runs, x)
    BY <1>2, <2>1, <2>2 DEF Run
  <2>4. /\ x.chat = r.chat /\ x.trigger = r.message /\ x.status = "running"
        /\ x.acts \in {"none", "running"}
    BY <2>2
  <2>5. /\ runs' \in Seq(Run) /\ Len(runs') = Len(runs) + 1 /\ Len(runs) \in Nat
        /\ DOMAIN runs = 1..Len(runs) /\ DOMAIN runs' = 1..(Len(runs) + 1)
        /\ \A m \in DOMAIN runs : runs'[m] = runs[m]
        /\ runs'[n] = x
    BY <1>0, <2>3, OneMore DEF IInv, TablesOK
  <2>6. n \in DOMAIN runs' /\ n \in 1..MaxRuns /\ n \notin DOMAIN runs
        /\ DOMAIN runs' = DOMAIN runs \cup {n}
    BY <1>0, <2>1, <2>5, ConversationsAssumption
  <2>7. Grown
    BY <1>1, <2>5, <2>6 DEF Grown
  <2>8. TablesOK'
    BY <1>1, <2>1, <2>5, ConversationsAssumption DEF IInv, TablesOK
  <2>9. RefsOK'
    BY <1>1, <1>3, <2>4, <2>5, <2>6, <2>7, RefsKept DEF IInv
  <2>10. PICK q : q = [op |-> "running", chat |-> r.chat, run |-> n]
    OBVIOUS
  <2>11. /\ q \in Request /\ q # NULL /\ q.op = "running" /\ q.chat = r.chat /\ q.run = n
         /\ session' = [session EXCEPT ![s] = q]
    <3>1. q \in Running
      BY <1>2, <2>6, <2>10 DEF Running
    <3>2. q \in Request
      BY <3>1 DEF Request
    <3>3. QED
      BY <2>1, <2>10, <3>2, InputsAssumption
  <2>12. RequestOK(s, q)'
    BY <2>4, <2>5, <2>6, <2>11 DEF RequestOK, Membership
  <2>13. SessionsOK'
    <3>1. /\ orphans' \subseteq DOMAIN runs' /\ raced' \subseteq DOMAIN chats'
          /\ doubled' \subseteq Persons /\ chatter' \subseteq Assistants
          /\ loop' \in Sessions \cup {NULL}
      BY <1>1, <2>1, <2>6 DEF IInv, SessionsOK, history
    <3>2. QED
      BY <1>1, <2>5, <2>7, <2>11, <2>12, <3>1, SessionsKept DEF IInv
  <2>14. session'[s] = q /\ \A t \in Sessions \ {s} : session'[t] = session[t]
    BY <2>11 DEF IInv, SessionsOK
  <2>15. /\ \A t \in Sessions, m \in DOMAIN runs : Handles(t, m)' <=> Handles(t, m)
         /\ \A t \in Sessions : Handles(t, n)' <=> t = s
    <3>1. \A t \in Sessions : ~Handles(t, n)
      BY <2>6 DEF Handles, IInv, SessionsOK, RequestOK
    <3>2. \A t \in Sessions \ {s}, m \in DOMAIN runs' : Handles(t, m)' <=> Handles(t, m)
      BY <2>14 DEF Handles
    <3>3. \A m \in DOMAIN runs : ~Handles(s, m)
      BY <1>1 DEF Handles
    <3>4. \A m \in DOMAIN runs' : Handles(s, m)' <=> m = n
      BY <2>11, <2>14 DEF Handles
    <3>5. QED
      BY <2>6, <3>1, <3>2, <3>3, <3>4
  <2>16. TurnsInv'
    <3>1. \A t, u \in Sessions, m \in DOMAIN runs' : Handles(t, m)' /\ Handles(u, m)' => t = u
      BY <2>6, <2>15 DEF IInv, TurnsInv
    <3>2. ASSUME NEW m \in DOMAIN runs
          PROVE  RunOK(m)'
      <4>1. /\ RunOK(m) /\ runs'[m] = runs[m] /\ messages' = messages /\ orphans' = orphans
            /\ \A t \in Sessions : Handles(t, m)' <=> Handles(t, m)
        BY <1>1, <2>5, <2>15 DEF IInv, TurnsInv, history
      <4>2. QED
        BY <4>1 DEF RunOK
    <3>3. RunOK(n)'
      <4>1. \A m \in DOMAIN messages : messages[m].run # n
        BY <2>6, Bounds DEF IInv, RefsOK
      <4>2. \E t \in Sessions : Handles(t, n)'
        BY <2>15
      <4>3. QED
        BY <1>1, <2>4, <2>5, <4>1, <4>2 DEF RunOK
    <3>4. QED
      BY <2>6, <3>1, <3>2, <3>3 DEF TurnsInv
  <2>17. RepliesInv'
    BY <1>1, <2>7, RepliesKept DEF IInv
  <2>18. InboxesInv'
    BY <1>1, <2>11, <2>14, InboxesRead DEF IInv, ListOK, KindOK, history
  <2>19. MembershipInv'
    BY <1>1, <2>11, <2>14, MembershipRead DEF IInv, ReadOK, history
  <2>20. QED
    BY <2>8, <2>9, <2>13, <2>16, <2>17, <2>18, <2>19 DEF IInv
<1>6. Selected(r.chat, explicit, mentioned, invoke) \subseteq Assistants
  BY SelectedAssistant DEF IInv
<1>7. QED
  BY <1>0, <1>4, <1>5, <1>6 DEF StartRun

\* A turn ends: its run gets its only reply, from who speaks for the assistant, or a
\* note of the system when it failed.
LEMMA TurnEnded ==
  ASSUME IInv, NEW s \in Sessions, NEW outcome \in {"completed", "failed"},
         EndTurn(s, outcome)
  PROVE  IInv'
<1> DEFINE r == session[s]
<1>1. /\ r # NULL /\ r.op = "turn"
      /\ session' = [session EXCEPT ![s] = NULL] /\ loop' = NULL
      /\ UNCHANGED <<chats, parts, proposals, chatter, history>>
      /\ messages' = Append(messages, Said(r.chat, IF outcome = "failed" THEN 0 ELSE r.speaker,
                                           r.run))
  BY DEF EndTurn
<1>2. r.chat \in 1..MaxChats /\ r.run \in 1..MaxRuns /\ r.speaker \in 0..MaxParts
  <2>1. r \in Request
    BY <1>1 DEF IInv, SessionsOK
  <2>2. r \in InTurn
    BY <1>1, <2>1 DEF Request, Listing, Invite, Remove, Posted, Running, InTurn
  <2>3. QED
    BY <2>2 DEF InTurn
<1>3. PICK n : n = r.run
  OBVIOUS
<1>4. /\ n \in DOMAIN runs /\ runs[n].status = "running" /\ runs[n].chat = r.chat
      /\ loop = s
      /\ r.speaker # 0 => IsPart(r.speaker, r.chat, runs[n].assistant)
  BY <1>1, <1>3 DEF IInv, SessionsOK, RequestOK
<1>5. runs[n] \in Run /\ RunOK(n) /\ 0 \notin DOMAIN runs
  BY <1>4, Bounds DEF IInv, TurnsInv
<1>6. PICK text \in {"none", "own", "other"} :
         runs' = [runs EXCEPT ![n].status = outcome,
                              ![n].acts = IF @ = "none" THEN @ ELSE outcome,
                              ![n].text = text]
  BY <1>3 DEF EndTurn, Texts
<1>7. PICK x : x = [runs[n] EXCEPT !.status = outcome,
                                   !.acts = IF @ = "none" THEN @ ELSE outcome,
                                   !.text = text]
  OBVIOUS
<1>8. /\ x \in Run /\ x.chat = runs[n].chat /\ x.trigger = runs[n].trigger
      /\ x.assistant = runs[n].assistant
      /\ x.status = outcome /\ x.acts \in {"none", outcome}
  BY <1>5, <1>7 DEF Run
<1>9. runs' = [runs EXCEPT ![n] = x]
  BY <1>4, <1>5, <1>6, <1>7 DEF Run
<1>10. /\ runs' \in Seq(Run) /\ Len(runs') = Len(runs) /\ DOMAIN runs' = DOMAIN runs
       /\ runs'[n] = x /\ \A m \in DOMAIN runs : m # n => runs'[m] = runs[m]
  BY <1>4, <1>8, <1>9, Replaced DEF IInv, TablesOK
<1>11. PICK y : y = Said(r.chat, IF outcome = "failed" THEN 0 ELSE r.speaker, n)
  OBVIOUS
<1>12. /\ y \in Message /\ y.chat = r.chat /\ y.run = n
       /\ y.by = 0 \/ y.by = r.speaker
       /\ messages' = Append(messages, y)
  BY <1>1, <1>2, <1>3, <1>11, ConversationsAssumption DEF Said, Message
<1>13. PICK k : k = Len(messages) + 1
  OBVIOUS
<1>14. /\ messages' \in Seq(Message)
       /\ DOMAIN messages = 1..Len(messages) /\ Len(messages) \in Nat
       /\ DOMAIN messages' = DOMAIN messages \cup {k} /\ k \notin DOMAIN messages
       /\ \A m \in DOMAIN messages : messages'[m] = messages[m]
       /\ messages'[k] = y
  <2>1. /\ messages' \in Seq(Message)
        /\ DOMAIN messages = 1..Len(messages) /\ Len(messages) \in Nat
        /\ DOMAIN messages' = 1..(Len(messages) + 1)
        /\ \A m \in DOMAIN messages : messages'[m] = messages[m]
        /\ messages'[Len(messages) + 1] = y
    BY <1>12, OneMore DEF IInv, TablesOK
  <2>2. QED
    BY <1>13, <2>1
<1>15. Grown
  BY <1>1, <1>8, <1>10, <1>14 DEF Grown
<1>16. TablesOK'
  BY <1>1, <1>10, <1>14 DEF IInv, TablesOK
<1>17. RefsOK'
  BY <1>1, <1>4, <1>10, <1>12, <1>14, <1>15, RefsKept DEF IInv
<1>18. session'[s] = NULL /\ \A t \in Sessions \ {s} : session'[t] = session[t]
  BY <1>1 DEF IInv, SessionsOK
<1>19. Handles(s, n) /\ \A t \in Sessions \ {s} : ~Handles(t, n)
  BY <1>1, <1>3, <1>4 DEF Handles, IInv, TurnsInv
<1>20. /\ \A t \in Sessions \ {s}, m \in DOMAIN runs : Handles(t, m)' <=> Handles(t, m)
       /\ \A m \in DOMAIN runs : ~Handles(s, m)'
       /\ \A m \in DOMAIN runs \ {n} : ~Handles(s, m)
  BY <1>3, <1>18 DEF Handles
<1>21. SessionsOK'
  <2>1. \A t \in Sessions \ {s}, m \in DOMAIN runs : Handles(t, m) => runs'[m].status = runs[m].status
    BY <1>10, <1>19
  <2>2. /\ orphans' \subseteq DOMAIN runs' /\ raced' \subseteq DOMAIN chats'
        /\ doubled' \subseteq Persons /\ chatter' \subseteq Assistants
    BY <1>1, <1>10 DEF IInv, SessionsOK, history
  <2>3. QED
    BY <1>1, <1>4, <1>15, <2>1, <2>2, SessionsKept DEF IInv
<1>22. TurnsInv'
  <2>1. \A t, u \in Sessions, m \in DOMAIN runs' : Handles(t, m)' /\ Handles(u, m)' => t = u
    BY <1>10, <1>20 DEF IInv, TurnsInv
  <2>2. RunOK(n)'
    <3>1. k > runs[n].trigger
      BY <1>4, <1>13, <1>14 DEF IInv, RefsOK
    <3>2. \A m \in DOMAIN messages : messages[m].run # n
      BY <1>4, <1>5 DEF RunOK
    <3>3. /\ k \in DOMAIN messages' /\ messages'[k].run = n /\ k > runs'[n].trigger
          /\ messages'[k].chat = runs'[n].chat
          /\ \A m \in DOMAIN messages' : messages'[m].run = n => m = k
      BY <1>4, <1>8, <1>10, <1>12, <1>14, <3>1, <3>2
    <3>4. runs'[n].status # "running" /\ runs'[n].acts \in {"none", runs'[n].status}
      BY <1>8, <1>10
    <3>5. QED
      BY <3>3, <3>4 DEF RunOK
  <2>3. ASSUME NEW m \in DOMAIN runs, m # n
        PROVE  RunOK(m)'
    <3>1. RunOK(m) /\ runs'[m] = runs[m] /\ orphans' = orphans
      BY <1>1, <1>10, <2>3 DEF IInv, TurnsInv, history
    <3>2. \A j \in DOMAIN messages' : messages'[j].run = m =>
             j \in DOMAIN messages /\ messages[j].run = m
      BY <1>12, <1>14, <2>3
    <3>3. CASE runs[m].status = "running"
      <4>1. \A j \in DOMAIN messages' : messages'[j].run # m
        BY <3>1, <3>2, <3>3 DEF RunOK
      <4>2. m \in orphans' \/ \E t \in Sessions : Handles(t, m)'
        BY <1>20, <2>3, <3>1, <3>3 DEF RunOK
      <4>3. QED
        BY <3>1, <3>3, <4>1, <4>2 DEF RunOK
    <3>4. CASE runs[m].status # "running"
      <4>1. PICK j \in DOMAIN messages :
               /\ messages[j].run = m /\ j > runs[m].trigger
               /\ messages[j].chat = runs[m].chat
               /\ \A i \in DOMAIN messages : messages[i].run = m => i = j
        BY <3>1, <3>4 DEF RunOK
      <4>2. /\ j \in DOMAIN messages' /\ messages'[j].run = m /\ j > runs'[m].trigger
            /\ messages'[j].chat = runs'[m].chat
            /\ \A i \in DOMAIN messages' : messages'[i].run = m => i = j
        BY <1>14, <3>1, <3>2, <4>1
      <4>3. QED
        BY <3>1, <3>4, <4>2 DEF RunOK
    <3>5. QED
      BY <3>3, <3>4
  <2>4. QED
    BY <1>10, <2>1, <2>2, <2>3 DEF TurnsInv
<1>23. RepliesInv'
  <2>1. ASSUME NEW m \in DOMAIN messages', messages'[m].run # 0, messages'[m].by # 0
        PROVE  /\ messages'[m].by \in DOMAIN parts
               /\ parts[messages'[m].by].chat = messages'[m].chat
               /\ parts[messages'[m].by].who = runs'[messages'[m].run].assistant
    <3>1. CASE m = k
      BY <1>4, <1>8, <1>10, <1>12, <1>14, <2>1, <3>1 DEF IsPart
    <3>2. CASE m # k
      <4>1. m \in DOMAIN messages /\ messages'[m] = messages[m]
        BY <1>14, <3>2
      <4>2. /\ messages[m].run \in DOMAIN runs
            /\ IsPart(messages[m].by, messages[m].chat, runs[messages[m].run].assistant)
        BY <2>1, <4>1 DEF IInv, RefsOK, RepliesInv
      <4>3. runs'[messages[m].run].assistant = runs[messages[m].run].assistant
        BY <1>15, <4>2 DEF Grown
      <4>4. QED
        BY <4>1, <4>2, <4>3 DEF IsPart
    <3>3. QED
      BY <3>1, <3>2
  <2>2. QED
    BY <1>1, <2>1 DEF RepliesInv, IsPart
<1>24. InboxesInv'
  BY <1>1, <1>18, InboxesRead DEF IInv, history
<1>25. MembershipInv'
  BY <1>1, <1>18, MembershipRead DEF IInv, history
<1>26. QED
  BY <1>16, <1>17, <1>21, <1>22, <1>23, <1>24, <1>25 DEF IInv

\* The process dies: what it was doing is lost, and its runs are nobody's.
LEMMA Restarted ==
  ASSUME IInv, Restart
  PROVE  IInv'
<1>1. /\ UNCHANGED <<chats, parts, messages, runs, proposals, chatter, raced, doubled>>
      /\ session' = [t \in Sessions |-> NULL] /\ loop' = NULL
      /\ orphans' = {m \in DOMAIN runs : runs[m].status = "running"}
  BY DEF Restart, rows
<1>2. TablesOK' /\ RefsOK' /\ RepliesInv'
  BY <1>1 DEF IInv, TablesOK, RefsOK, RepliesInv, IsPart
<1>3. SessionsOK'
  BY <1>1 DEF IInv, SessionsOK
<1>4. TurnsInv'
  <2>1. ASSUME NEW m \in DOMAIN runs'
        PROVE  RunOK(m)'
    <3>1. RunOK(m)
      BY <1>1 DEF IInv, TurnsInv
    <3>2. QED
      BY <1>1, <3>1 DEF RunOK
  <2>2. QED
    BY <1>1, <2>1 DEF TurnsInv, Handles
<1>5. InboxesInv'
  BY <1>1, InboxesRead DEF IInv
<1>6. MembershipInv'
  BY <1>1, MembershipRead DEF IInv
<1>7. QED
  BY <1>2, <1>3, <1>4, <1>5, <1>6 DEF IInv

\* An answer elsewhere is noted only.
LEMMA AnsweredElsewhere ==
  ASSUME IInv, NEW a \in Assistants, AnswerElsewhere(a)
  PROVE  IInv'
<1>1. UNCHANGED <<rows, session, loop, history>> /\ chatter' \subseteq Assistants
  BY DEF AnswerElsewhere, IInv, SessionsOK
<1>2. /\ UNCHANGED <<chats, parts, messages, runs, proposals, orphans, raced, doubled>>
      /\ Grown /\ 0 \notin DOMAIN runs
  BY <1>1, Bounds DEF rows, history, Grown, IInv
<1>3. TablesOK' /\ RefsOK' /\ RepliesInv'
  BY <1>2 DEF IInv, TablesOK, RefsOK, RepliesInv, IsPart
<1>4. SessionsOK'
  BY <1>1, <1>2, SessionsSame DEF IInv, SessionsOK
<1>5. TurnsInv'
  BY <1>1, <1>2, TurnsKept DEF IInv, Handles
<1>6. InboxesInv' /\ MembershipInv'
  BY <1>1, <1>2, InboxesRead, MembershipRead DEF IInv
<1>7. QED
  BY <1>3, <1>4, <1>5, <1>6 DEF IInv
---------------------------------------------------------------------------
(* What lists, invitations and removals read                               *)

\* A list finds with whom a person has no private chat: none that was seeded is open.
LEMMA ListBegun ==
  ASSUME IInv, NEW s \in Sessions, NEW p \in Persons, BeginList(s, p)
  PROVE  IInv'
<1> DEFINE mine    == {c \in DOMAIN chats : Present(c, p) # {} /\ chats[c].kind = "assistant"}
           missing == {a \in Inboxes : \A c \in mine : Present(c, a) = {}}
<1>1. /\ session[s] = NULL /\ UNCHANGED <<rows, loop, chatter, history>>
      /\ session' = [session EXCEPT ![s] = [op |-> "list", who |-> p, missing |-> missing]]
  BY DEF BeginList
<1>2. ASSUME NEW a \in missing, NEW c \in OpenInboxes(p, a)
      PROVE  FALSE
  <2>1. /\ c \in DOMAIN chats /\ chats[c].seeded
        /\ Present(c, p) # {} /\ Present(c, a) # {}
    BY <1>2 DEF OpenInboxes
  <2>2. chats[c].kind = "assistant"
    BY <2>1 DEF IInv, InboxesInv
  <2>3. QED
    BY <2>1, <2>2
<1>3. missing \subseteq Inboxes
  OBVIOUS
<1> HIDE DEF missing, mine
<1>4. PICK q : q = [op |-> "list", who |-> p, missing |-> missing]
  OBVIOUS
<1>5. /\ q \in Request /\ q # NULL /\ q.op = "list" /\ q.who = p /\ q.missing = missing
      /\ session' = [session EXCEPT ![s] = q]
  <2>1. q \in Listing
    BY <1>3, <1>4, ConversationsAssumption DEF Listing
  <2>2. q \in Request
    BY <2>1 DEF Request
  <2>3. QED
    BY <1>1, <1>4, <2>2, InputsAssumption
<1>6. RequestOK(s, q)'
  BY <1>5 DEF RequestOK, Membership
<1>7. ListOK(q)
  <2>1. \A a \in missing : OpenInboxes(p, a) = {}
    BY <1>2
  <2>2. QED
    BY <1>3, <1>5, <2>1 DEF ListOK
<1>8. KindOK(q) /\ ReadOK(q)
  BY <1>5 DEF KindOK, ReadOK
<1>9. \A n \in DOMAIN runs : Handles(s, n)' <=> Handles(s, n)
  BY <1>1, <1>5 DEF Handles, IInv, SessionsOK
<1>10. loop' \in Sessions \cup {NULL} /\ chatter' \subseteq Assistants
  BY <1>1 DEF IInv, SessionsOK
<1>11. QED
  BY <1>1, <1>5, <1>6, <1>7, <1>8, <1>9, <1>10, OnlySession

\* An invitation reads whether the assistant is there, and what its chat is.
LEMMA InviteBegun ==
  ASSUME IInv, NEW s \in Sessions, NEW p \in Persons, NEW c \in DOMAIN chats,
         NEW a \in Assistants, NEW mode \in Modes, NEW setPrimary \in BOOLEAN,
         BeginInvite(s, p, c, a, mode, setPrimary)
  PROVE  IInv'
<1> DEFINE existing == Present(c, a)
<1>1. PICK entry : entry = IF existing = {} THEN 0 ELSE First(existing)
  OBVIOUS
<1>2. PICK hybrid \in BOOLEAN : hybrid <=> chats[c].kind = "family"
  OBVIOUS
<1>3. PICK primary \in BOOLEAN : primary <=> setPrimary \/ chats[c].primary = 0
  OBVIOUS
<1>4. PICK q : q = [op |-> "invite", chat |-> c, who |-> a, mode |-> mode, part |-> entry,
                    hybrid |-> hybrid, primary |-> primary]
  OBVIOUS
<1>5. /\ session[s] = NULL /\ UNCHANGED <<rows, loop, chatter, history>>
      /\ session' = [session EXCEPT ![s] = q]
  <2>1. hybrid = (chats[c].kind = "family") /\ primary = (setPrimary \/ chats[c].primary = 0)
    BY <1>2, <1>3
  <2>2. QED
    BY <1>1, <1>4, <2>1 DEF BeginInvite
<1>6. entry # 0 => IsPart(entry, c, a) /\ entry \in ActiveAssistants(c)
  <2>1. ASSUME entry # 0
        PROVE  existing # {} /\ entry = First(existing)
    BY <1>1, <2>1
  <2>2. existing # {} => First(existing) \in existing
    <3>1. existing \in SUBSET Nat
      BY Bounds DEF IInv, Present, Active
    <3>2. QED
      BY <3>1, FirstIsOne
  <2>3. QED
    BY <2>1, <2>2 DEF Present, Active, ActiveAssistants, IsPart
<1>7. c \in 1..MaxChats /\ entry \in 0..MaxParts
  BY <1>6, Bounds, ConversationsAssumption DEF IInv, IsPart
<1>8. /\ q.op = "invite" /\ q.chat = c /\ q.who = a /\ q.part = entry
      /\ q.hybrid = hybrid /\ q.primary = primary
  BY <1>4
<1>9. q \in Request /\ q # NULL
  <2>1. q \in Invite
    BY <1>4, <1>7 DEF Invite
  <2>2. q \in Request
    BY <2>1 DEF Request
  <2>3. QED
    BY <2>2, InputsAssumption
<1>10. RequestOK(s, q)'
  <2>1. chats' = chats /\ parts' = parts
    BY <1>5 DEF rows
  <2>2. QED
    BY <1>6, <1>8, <2>1 DEF RequestOK, IsPart, Membership
<1>11. ListOK(q) /\ KindOK(q)
  BY <1>2, <1>8 DEF ListOK, KindOK
<1>12. ReadOK(q)
  BY <1>2, <1>3, <1>6, <1>8 DEF ReadOK
<1>13. \A n \in DOMAIN runs : Handles(s, n)' <=> Handles(s, n)
  BY <1>5, <1>8 DEF Handles, IInv, SessionsOK
<1>14. loop' \in Sessions \cup {NULL} /\ chatter' \subseteq Assistants
  BY <1>5 DEF IInv, SessionsOK
<1>15. QED
  BY <1>5, <1>9, <1>10, <1>11, <1>12, <1>13, <1>14, OnlySession

\* A removal reads which assistants stay and whether its participant is the primary one.
LEMMA RemoveBegun ==
  ASSUME IInv, NEW s \in Sessions, NEW p \in Persons, NEW c \in DOMAIN chats,
         NEW i \in DOMAIN parts, BeginRemove(s, p, c, i)
  PROVE  IInv'
<1> DEFINE others == ActiveAssistants(c) \ {i}
<1>1. PICK next : next = IF others = {} THEN 0 ELSE First(others)
  OBVIOUS
<1>2. PICK family \in BOOLEAN : family <=> others = {} /\ chats[c].kind = "hybrid"
  OBVIOUS
<1>3. PICK repoint \in BOOLEAN : repoint <=> chats[c].primary = i
  OBVIOUS
<1>4. PICK q : q = [op |-> "remove", chat |-> c, part |-> i, family |-> family,
                    repoint |-> repoint, next |-> next]
  OBVIOUS
<1>5. /\ session[s] = NULL /\ UNCHANGED <<rows, loop, chatter, history>>
      /\ parts[i].chat = c
      /\ session' = [session EXCEPT ![s] = q]
  <2>1. /\ family = (others = {} /\ chats[c].kind = "hybrid")
        /\ repoint = (chats[c].primary = i)
    BY <1>2, <1>3
  <2>2. QED
    BY <1>1, <1>4, <2>1 DEF BeginRemove
<1>6. next = 0 \/ next \in others
  <2>1. others \in SUBSET Nat
    BY Bounds DEF IInv, ActiveAssistants, Active
  <2>2. QED
    BY <1>1, <2>1, FirstIsOne
<1>7. c \in 1..MaxChats /\ i \in 1..MaxParts /\ next \in 0..MaxParts
  <2>1. others \subseteq 1..MaxParts
    BY Bounds DEF IInv, ActiveAssistants, Active
  <2>2. QED
    BY <1>6, <2>1, Bounds, ConversationsAssumption DEF IInv
<1> HIDE DEF others
<1>8. /\ q.op = "remove" /\ q.chat = c /\ q.part = i
      /\ q.family = family /\ q.repoint = repoint /\ q.next = next
  BY <1>4
<1>9. q \in Request /\ q # NULL
  <2>1. q \in Remove
    BY <1>4, <1>7 DEF Remove
  <2>2. q \in Request
    BY <2>1 DEF Request
  <2>3. QED
    BY <2>2, InputsAssumption
<1>10. RequestOK(s, q)'
  <2>1. chats' = chats /\ parts' = parts
    BY <1>5 DEF rows
  <2>2. QED
    BY <1>5, <1>8, <2>1 DEF RequestOK, IsPart, Membership
<1>11. ListOK(q) /\ KindOK(q)
  BY <1>2, <1>8 DEF ListOK, KindOK
<1>12. ReadOK(q)
  BY <1>2, <1>3, <1>6, <1>8 DEF ReadOK, others
<1>13. \A n \in DOMAIN runs : Handles(s, n)' <=> Handles(s, n)
  BY <1>5, <1>8 DEF Handles, IInv, SessionsOK
<1>14. loop' \in Sessions \cup {NULL} /\ chatter' \subseteq Assistants
  BY <1>5 DEF IInv, SessionsOK
<1>15. QED
  BY <1>5, <1>9, <1>10, <1>11, <1>12, <1>13, <1>14, OnlySession
---------------------------------------------------------------------------
(* What they write                                                         *)

\* Chats, participants and notes are written: turns go on as they were.
LEMMA RowsWritten ==
  ASSUME IInv,
         chats' \in Seq(Chat), Len(chats') <= MaxChats,
         parts' \in Seq(Part), Len(parts') <= MaxParts, messages' \in Seq(Message),
         DOMAIN chats \subseteq DOMAIN chats',
         \A i \in DOMAIN parts : /\ i \in DOMAIN parts'
                                 /\ parts'[i].chat = parts[i].chat /\ parts'[i].who = parts[i].who,
         \A m \in DOMAIN messages : m \in DOMAIN messages' /\ messages'[m] = messages[m],
         \A i \in DOMAIN parts' \ DOMAIN parts : parts'[i].chat \in DOMAIN chats',
         \A m \in DOMAIN messages' \ DOMAIN messages : messages'[m].run = 0,
         UNCHANGED <<runs, proposals, loop, chatter, orphans>>,
         raced' \subseteq DOMAIN chats', doubled' \subseteq Persons,
         \/ session' = session
         \/ \E s \in Sessions : /\ session' = [session EXCEPT ![s] = NULL]
                                /\ session[s] # NULL
                                /\ session[s].op \in {"list", "invite", "remove"}
  PROVE  Grown /\ TablesOK' /\ RefsOK' /\ SessionsOK' /\ TurnsInv' /\ RepliesInv'
<1>1. Grown
  BY DEF Grown
<1>2. TablesOK'
  BY DEF IInv, TablesOK
<1>3. RefsOK'
  BY <1>1, RefsKept DEF IInv
<1>4. RepliesInv'
  BY <1>1, RepliesKept DEF IInv
<1>5. 0 \notin DOMAIN runs
  BY Bounds DEF IInv
<1>6. /\ chatter' \subseteq Assistants /\ orphans' \subseteq DOMAIN runs'
      /\ loop' \in Sessions \cup {NULL}
  BY DEF IInv, SessionsOK
<1>7. CASE session' = session
  <2>1. SessionsOK'
    BY <1>1, <1>6, <1>7, SessionsSame DEF IInv
  <2>2. TurnsInv'
    BY <1>1, <1>5, <1>7, TurnsKept DEF IInv, Handles
  <2>3. QED
    BY <1>1, <1>2, <1>3, <1>4, <2>1, <2>2
<1>8. CASE \E s \in Sessions : /\ session' = [session EXCEPT ![s] = NULL]
                               /\ session[s] # NULL
                               /\ session[s].op \in {"list", "invite", "remove"}
  <2>1. PICK s \in Sessions : /\ session' = [session EXCEPT ![s] = NULL]
                              /\ session[s] # NULL
                              /\ session[s].op \in {"list", "invite", "remove"}
    BY <1>8
  <2>2. SessionsOK'
    BY <1>1, <1>6, <2>1, SessionsKept DEF IInv
  <2>3. session'[s] = NULL /\ \A t \in Sessions \ {s} : session'[t] = session[t]
    BY <2>1 DEF IInv, SessionsOK
  <2>4. \A t \in Sessions, r \in DOMAIN runs : Handles(t, r)' <=> Handles(t, r)
    BY <2>1, <2>3 DEF Handles
  <2>5. TurnsInv'
    BY <1>1, <1>5, <2>4, TurnsKept DEF IInv
  <2>6. QED
    BY <1>1, <1>2, <1>3, <1>4, <2>2, <2>5
<1>9. QED
  BY <1>7, <1>8

\* The note about chat c that goes with what is written.
LEMMA NoteWritten ==
  ASSUME TablesOK, NEW c \in 1..MaxChats, messages' = Append(messages, Note(c))
  PROVE  /\ messages' \in Seq(Message)
         /\ \A m \in DOMAIN messages : m \in DOMAIN messages' /\ messages'[m] = messages[m]
         /\ \A m \in DOMAIN messages' \ DOMAIN messages : messages'[m].run = 0
<1>1. PICK x : x = Note(c)
  OBVIOUS
<1>2. x \in Message /\ x.run = 0
  BY <1>1, ConversationsAssumption DEF Note, Message
<1>3. /\ messages' \in Seq(Message)
      /\ DOMAIN messages = 1..Len(messages) /\ Len(messages) \in Nat
      /\ DOMAIN messages' = 1..(Len(messages) + 1)
      /\ \A m \in DOMAIN messages : messages'[m] = messages[m]
      /\ messages'[Len(messages) + 1] = x
  BY <1>1, <1>2, OneMore DEF TablesOK
<1>4. QED
  BY <1>2, <1>3

\* A membership request changes its chat only, and notes whoever has read it too.
LEMMA MembershipWritten ==
  ASSUME SessionsOK, MembershipInv, NEW s \in Sessions, NEW c \in DOMAIN chats,
         session' = [session EXCEPT ![s] = NULL], NoteRace(s, c),
         DOMAIN chats' = DOMAIN chats,
         \A d \in DOMAIN chats \ {c} : Same(d),
         c \notin raced' => ChatOK(c)'
  PROVE  MembershipInv' /\ raced' \subseteq DOMAIN chats'
<1>1. raced \subseteq raced' /\ raced' \subseteq DOMAIN chats'
  BY DEF NoteRace, SessionsOK
<1>2. session'[s] = NULL /\ \A t \in Sessions \ {s} : session'[t] = session[t]
  BY DEF SessionsOK
<1>3. ASSUME NEW t \in Sessions, session'[t] # NULL, session[t].op \in Membership
      PROVE  session[t].chat \in raced' \/ Same(session[t].chat)
  <2>1. t # s /\ session[t] # NULL /\ session[t].chat \in DOMAIN chats
    BY <1>2, <1>3 DEF SessionsOK, RequestOK
  <2>2. session[t].chat = c => c \in raced'
    BY <1>3, <2>1 DEF NoteRace
  <2>3. QED
    BY <2>1, <2>2
<1>4. \A t \in Sessions : session'[t] # NULL =>
         /\ session'[t] = session[t]
         /\ session[t].op \in Membership => session[t].chat \in raced' \/ Same(session[t].chat)
  BY <1>2, <1>3
<1>5. \A d \in DOMAIN chats' \ raced' : Same(d) \/ ChatOK(d)'
  OBVIOUS
<1>6. MembershipInv'
  BY <1>1, <1>4, <1>5, MembershipKept
<1>7. QED
  BY <1>1, <1>6

\* An assistant joins, or changes its mode; a family chat becomes a hybrid one.
LEMMA InviteCommitted ==
  ASSUME IInv, NEW s \in Sessions, CommitInvite(s)
  PROVE  IInv'
<1>1. PICK r : r = session[s]
  OBVIOUS
<1>2. PICK i : i = IF r.part = 0 THEN Len(parts) + 1 ELSE r.part
  OBVIOUS
<1>3. /\ r # NULL /\ r.op = "invite" /\ i <= MaxParts
      /\ parts' = IF r.part = 0
                  THEN Append(parts, [chat |-> r.chat, who |-> r.who, mode |-> r.mode,
                                      removed |-> FALSE])
                  ELSE [parts EXCEPT ![i].mode = r.mode]
      /\ chats' = [chats EXCEPT ![r.chat].kind = IF r.hybrid THEN "hybrid" ELSE @,
                                ![r.chat].primary = IF r.primary THEN i ELSE @]
      /\ messages' = Append(messages, Note(r.chat))
      /\ NoteRace(s, r.chat)
      /\ session' = [session EXCEPT ![s] = NULL]
      /\ UNCHANGED <<runs, proposals, loop, chatter, orphans, doubled, restarts>>
  BY <1>1, <1>2 DEF CommitInvite
<1>4. /\ r.chat \in 1..MaxChats /\ r.who \in Assistants /\ r.mode \in Modes
      /\ r.part \in 0..MaxParts /\ r.hybrid \in BOOLEAN /\ r.primary \in BOOLEAN
  <2>1. r \in Request
    BY <1>1, <1>3 DEF IInv, SessionsOK
  <2>2. r \in Invite
    BY <1>3, <2>1 DEF Request, Listing, Invite, Remove, Posted, Running, InTurn
  <2>3. QED
    BY <2>2 DEF Invite
<1>5. PICK c \in DOMAIN chats : c = r.chat
  BY <1>1, <1>3 DEF IInv, SessionsOK, RequestOK, Membership
<1>6. /\ RequestOK(s, r) /\ KindOK(r) /\ ReadOK(r)
      /\ r.part # 0 => IsPart(r.part, c, r.who)
  BY <1>1, <1>3, <1>5 DEF IInv, SessionsOK, InboxesInv, MembershipInv, RequestOK
<1>7. /\ DOMAIN parts = 1..Len(parts) /\ Len(parts) \in Nat
      /\ chats[c] \in Chat /\ \A j \in DOMAIN parts : parts[j] \in Part
      /\ c \in 1..MaxChats
  BY Bounds DEF IInv
<1>8. i \in 1..MaxParts
  BY <1>2, <1>3, <1>4, <1>7, ConversationsAssumption
<1>9. PICK k \in Kinds, n \in 0..MaxParts :
         /\ k = IF r.hybrid THEN "hybrid" ELSE chats[c].kind
         /\ n = IF r.primary THEN i ELSE chats[c].primary
  <2>1. chats[c].kind \in Kinds /\ chats[c].primary \in 0..MaxParts
    BY <1>7 DEF Chat
  <2>2. i \in 0..MaxParts /\ "hybrid" \in Kinds
    BY <1>8, ConversationsAssumption DEF Kinds
  <2>3. QED
    BY <2>1, <2>2
<1>10. PICK y : y = [chats[c] EXCEPT !.kind = k, !.primary = n]
  OBVIOUS
<1>11. /\ y \in Chat /\ y.kind = k /\ y.primary = n
       /\ y.seeded = chats[c].seeded /\ y.owner = chats[c].owner
       /\ chats' = [chats EXCEPT ![c] = y]
  <2>1. /\ y \in Chat /\ y.kind = k /\ y.primary = n
        /\ y.seeded = chats[c].seeded /\ y.owner = chats[c].owner
    BY <1>7, <1>10 DEF Chat
  <2>2. chats' = [chats EXCEPT ![c].kind = k, ![c].primary = n]
    BY <1>3, <1>5, <1>7, <1>9 DEF Chat
  <2>3. QED
    BY <1>7, <1>10, <2>1, <2>2
<1>12. /\ chats' \in Seq(Chat) /\ Len(chats') = Len(chats) /\ DOMAIN chats' = DOMAIN chats
       /\ chats'[c] = y /\ \A d \in DOMAIN chats : d # c => chats'[d] = chats[d]
  BY <1>11, Replaced DEF IInv, TablesOK
<1>13. /\ parts' \in Seq(Part) /\ Len(parts') <= MaxParts
       /\ DOMAIN parts' = DOMAIN parts \cup {i}
       /\ \A j \in DOMAIN parts : /\ parts'[j].chat = parts[j].chat
                                  /\ parts'[j].who = parts[j].who
                                  /\ parts'[j].removed = parts[j].removed
       /\ r.part = 0 => /\ i \notin DOMAIN parts
                        /\ ~parts'[i].removed
       /\ parts'[i].chat = c /\ parts'[i].who = r.who
  <2>1. CASE r.part = 0
    <3>1. PICK x : x = [chat |-> r.chat, who |-> r.who, mode |-> r.mode, removed |-> FALSE]
      OBVIOUS
    <3>2. x \in Part /\ x.chat = c /\ x.who = r.who /\ ~x.removed /\ parts' = Append(parts, x)
      BY <1>3, <1>4, <1>5, <2>1, <3>1 DEF Part
    <3>3. /\ parts' \in Seq(Part) /\ Len(parts') = Len(parts) + 1
          /\ DOMAIN parts' = 1..(Len(parts) + 1)
          /\ \A j \in DOMAIN parts : parts'[j] = parts[j]
          /\ parts'[Len(parts) + 1] = x
      BY <3>2, OneMore DEF IInv, TablesOK
    <3>4. i = Len(parts) + 1
      BY <1>2, <2>1
    <3>5. DOMAIN parts' = DOMAIN parts \cup {i} /\ i \notin DOMAIN parts
      BY <1>7, <3>3, <3>4
    <3>6. QED
      BY <1>3, <3>2, <3>3, <3>4, <3>5
  <2>2. CASE r.part # 0
    <3>1. i = r.part /\ i \in DOMAIN parts /\ parts[i].chat = c /\ parts[i].who = r.who
      BY <1>2, <1>6, <2>2 DEF IsPart
    <3>2. PICK x : x = [parts[i] EXCEPT !.mode = r.mode]
      OBVIOUS
    <3>3. /\ x \in Part /\ x.chat = parts[i].chat /\ x.who = parts[i].who
          /\ x.removed = parts[i].removed
      BY <1>4, <1>7, <3>1, <3>2 DEF Part
    <3>4. parts' = [parts EXCEPT ![i] = x]
      BY <1>3, <2>2, <3>2
    <3>5. /\ parts' \in Seq(Part) /\ Len(parts') = Len(parts) /\ DOMAIN parts' = DOMAIN parts
          /\ parts'[i] = x /\ \A j \in DOMAIN parts : j # i => parts'[j] = parts[j]
      BY <3>1, <3>3, <3>4, Replaced DEF IInv, TablesOK
    <3>6. QED
      BY <2>2, <3>1, <3>3, <3>5 DEF IInv, TablesOK
  <2>3. QED
    BY <2>1, <2>2
<1>14. ActiveAssistants(c) \subseteq ActiveAssistants(c)' /\ i \in DOMAIN parts'
  BY <1>13 DEF ActiveAssistants, Active
<1>15. \A d \in DOMAIN chats \ {c} : ActiveAssistants(d)' = ActiveAssistants(d)
  BY <1>13 DEF ActiveAssistants, Active
<1>16. \A d \in DOMAIN chats \ {c} : Same(d)
  BY <1>12, <1>15 DEF Same
<1>17. ASSUME c \notin raced'
       PROVE  ChatOK(c)'
  <2>1. c \notin raced
    BY <1>3, <1>5, <1>17 DEF NoteRace
  <2>2. /\ r.part # 0 => r.part \in ActiveAssistants(c)
        /\ chats[c].kind = "family" => r.hybrid
        /\ chats[c].primary = 0 => r.primary
    BY <1>3, <1>5, <1>6, <2>1 DEF ReadOK
  <2>3. chats[c].primary # 0 => chats[c].primary \in ActiveAssistants(c)
    BY <2>1 DEF IInv, MembershipInv, ChatOK
  <2>4. i \in ActiveAssistants(c)'
    <3>1. CASE r.part = 0
      BY <1>4, <1>13, <3>1 DEF ActiveAssistants, Active
    <3>2. CASE r.part # 0
      BY <1>2, <1>14, <2>2, <3>2
    <3>3. QED
      BY <3>1, <3>2
  <2>5. chats'[c].kind # "family"
    BY <1>3, <1>9, <1>11, <1>12, <2>2
  <2>6. chats'[c].primary # 0 => chats'[c].primary \in ActiveAssistants(c)'
    BY <1>9, <1>11, <1>12, <1>14, <2>2, <2>3, <2>4
  <2>7. QED
    BY <2>5, <2>6 DEF ChatOK
<1>18. MembershipInv' /\ raced' \subseteq DOMAIN chats'
  BY <1>3, <1>5, <1>12, <1>16, <1>17, MembershipWritten DEF IInv
<1>19. Grown /\ TablesOK' /\ RefsOK' /\ SessionsOK' /\ TurnsInv' /\ RepliesInv'
  <2>1. /\ messages' \in Seq(Message)
        /\ \A m \in DOMAIN messages : m \in DOMAIN messages' /\ messages'[m] = messages[m]
        /\ \A m \in DOMAIN messages' \ DOMAIN messages : messages'[m].run = 0
    BY <1>3, <1>4, NoteWritten DEF IInv
  <2>2. \A j \in DOMAIN parts' \ DOMAIN parts : parts'[j].chat \in DOMAIN chats'
    BY <1>12, <1>13
  <2>3. /\ session' = [session EXCEPT ![s] = NULL] /\ session[s] # NULL
        /\ session[s].op \in {"list", "invite", "remove"}
    BY <1>1, <1>3
  <2>4. Len(chats') <= MaxChats /\ doubled' \subseteq Persons
    BY <1>3, <1>12 DEF IInv, TablesOK, SessionsOK
  <2>5. QED
    BY <1>3, <1>12, <1>13, <1>18, <2>1, <2>2, <2>3, <2>4, RowsWritten
<1>20. InboxesInv'
  <2>1. \A d \in DOMAIN chats :
           /\ chats'[d].seeded = chats[d].seeded /\ chats'[d].owner = chats[d].owner
           /\ chats'[d].kind = "assistant" <=> chats[d].kind = "assistant"
    BY <1>3, <1>5, <1>6, <1>9, <1>11, <1>12 DEF KindOK
  <2>2. \A j \in DOMAIN parts' \ DOMAIN parts : parts'[j].who \notin Persons
    BY <1>4, <1>13, ConversationsAssumption
  <2>3. session'[s] = NULL /\ \A t \in Sessions \ {s} : session'[t] = session[t]
    BY <1>3 DEF IInv, SessionsOK
  <2>4. /\ doubled' = doubled /\ TablesOK /\ RefsOK /\ SessionsOK /\ InboxesInv /\ Grown
        /\ \A d \in DOMAIN chats' \ DOMAIN chats : ~chats'[d].seeded
        /\ \A j \in DOMAIN parts : ~parts'[j].removed => ~parts[j].removed
        /\ \A t \in Sessions : session'[t] # NULL => session'[t] = session[t]
    BY <1>3, <1>12, <1>13, <1>19, <2>3 DEF IInv
  <2>5. QED
    BY <2>1, <2>2, <2>4, InboxesShrunk
<1>21. QED
  BY <1>18, <1>19, <1>20 DEF IInv

\* A participant leaves; a hybrid chat without assistants becomes a family one.
LEMMA RemoveCommitted ==
  ASSUME IInv, NEW s \in Sessions, CommitRemove(s)
  PROVE  IInv'
<1>1. PICK r : r = session[s]
  OBVIOUS
<1>2. /\ r # NULL /\ r.op = "remove"
      /\ parts' = [parts EXCEPT ![r.part].removed = TRUE]
      /\ chats' = [chats EXCEPT ![r.chat].kind = IF r.family THEN "family" ELSE @,
                                ![r.chat].primary = IF r.repoint THEN r.next ELSE @]
      /\ messages' = Append(messages, Note(r.chat))
      /\ NoteRace(s, r.chat)
      /\ session' = [session EXCEPT ![s] = NULL]
      /\ UNCHANGED <<runs, proposals, loop, chatter, orphans, doubled, restarts>>
  BY <1>1 DEF CommitRemove
<1>3. /\ r.chat \in 1..MaxChats /\ r.next \in 0..MaxParts
      /\ r.family \in BOOLEAN /\ r.repoint \in BOOLEAN
  <2>1. r \in Request
    BY <1>1, <1>2 DEF IInv, SessionsOK
  <2>2. r \in Remove
    BY <1>2, <2>1 DEF Request, Listing, Invite, Remove, Posted, Running, InTurn
  <2>3. QED
    BY <2>2 DEF Remove
<1>4. PICK c \in DOMAIN chats : c = r.chat
  BY <1>1, <1>2 DEF IInv, SessionsOK, RequestOK, Membership
<1>5. PICK i \in DOMAIN parts : i = r.part /\ parts[i].chat = c
  BY <1>1, <1>2, <1>4 DEF IInv, SessionsOK, RequestOK
<1>6. KindOK(r) /\ ReadOK(r)
  BY <1>1, <1>2 DEF IInv, InboxesInv, MembershipInv
<1>7. /\ chats[c] \in Chat /\ parts[i] \in Part /\ c \in 1..MaxChats
  BY Bounds DEF IInv
<1>8. PICK k \in Kinds, n \in 0..MaxParts :
         /\ k = IF r.family THEN "family" ELSE chats[c].kind
         /\ n = IF r.repoint THEN r.next ELSE chats[c].primary
  <2>1. chats[c].kind \in Kinds /\ chats[c].primary \in 0..MaxParts /\ "family" \in Kinds
    BY <1>7 DEF Chat, Kinds
  <2>2. QED
    BY <1>3, <2>1
<1>9. PICK y : y = [chats[c] EXCEPT !.kind = k, !.primary = n]
  OBVIOUS
<1>10. /\ y \in Chat /\ y.kind = k /\ y.primary = n
       /\ y.seeded = chats[c].seeded /\ y.owner = chats[c].owner
       /\ chats' = [chats EXCEPT ![c] = y]
  <2>1. /\ y \in Chat /\ y.kind = k /\ y.primary = n
        /\ y.seeded = chats[c].seeded /\ y.owner = chats[c].owner
    BY <1>7, <1>9 DEF Chat
  <2>2. chats' = [chats EXCEPT ![c].kind = k, ![c].primary = n]
    BY <1>2, <1>4, <1>7, <1>8 DEF Chat
  <2>3. QED
    BY <1>7, <1>9, <2>1, <2>2
<1>11. /\ chats' \in Seq(Chat) /\ Len(chats') = Len(chats) /\ DOMAIN chats' = DOMAIN chats
       /\ chats'[c] = y /\ \A d \in DOMAIN chats : d # c => chats'[d] = chats[d]
  BY <1>10, Replaced DEF IInv, TablesOK
<1>12. PICK x : x = [parts[i] EXCEPT !.removed = TRUE]
  OBVIOUS
<1>13. /\ x \in Part /\ x.chat = parts[i].chat /\ x.who = parts[i].who /\ x.removed
       /\ parts' = [parts EXCEPT ![i] = x]
  BY <1>2, <1>5, <1>7, <1>12 DEF Part
<1>14. /\ parts' \in Seq(Part) /\ Len(parts') = Len(parts) /\ DOMAIN parts' = DOMAIN parts
       /\ parts'[i] = x /\ \A j \in DOMAIN parts : j # i => parts'[j] = parts[j]
  BY <1>13, Replaced DEF IInv, TablesOK
<1>15. \A j \in DOMAIN parts : /\ parts'[j].chat = parts[j].chat /\ parts'[j].who = parts[j].who
                               /\ ~parts'[j].removed <=> ~parts[j].removed /\ j # i
  BY <1>13, <1>14
<1>16. ActiveAssistants(c)' = ActiveAssistants(c) \ {i}
  BY <1>14, <1>15 DEF ActiveAssistants, Active
<1>17. \A d \in DOMAIN chats \ {c} : ActiveAssistants(d)' = ActiveAssistants(d)
  BY <1>5, <1>14, <1>15 DEF ActiveAssistants, Active
<1>18. \A d \in DOMAIN chats \ {c} : Same(d)
  BY <1>11, <1>17 DEF Same
<1>19. ASSUME c \notin raced'
       PROVE  ChatOK(c)'
  <2>1. c \notin raced
    BY <1>2, <1>4, <1>19 DEF NoteRace
  <2>2. /\ chats[c].primary = i => r.repoint
        /\ r.repoint => r.next = 0 \/ r.next \in ActiveAssistants(c) \ {i}
        /\ r.family => ActiveAssistants(c) \ {i} = {}
    BY <1>2, <1>4, <1>5, <1>6, <2>1 DEF ReadOK
  <2>3. /\ chats[c].kind = "family" => ActiveAssistants(c) = {}
        /\ chats[c].primary # 0 => chats[c].primary \in ActiveAssistants(c)
    BY <2>1 DEF IInv, MembershipInv, ChatOK
  <2>4. k = "family" => ActiveAssistants(c) \ {i} = {}
    BY <1>3, <1>8, <2>2, <2>3
  <2>5. n # 0 => n \in ActiveAssistants(c) \ {i}
    BY <1>3, <1>8, <2>2, <2>3
  <2>6. QED
    BY <1>10, <1>11, <1>16, <2>4, <2>5 DEF ChatOK
<1>20. MembershipInv' /\ raced' \subseteq DOMAIN chats'
  BY <1>2, <1>4, <1>11, <1>18, <1>19, MembershipWritten DEF IInv
<1>21. Grown /\ TablesOK' /\ RefsOK' /\ SessionsOK' /\ TurnsInv' /\ RepliesInv'
  <2>1. /\ messages' \in Seq(Message)
        /\ \A m \in DOMAIN messages : m \in DOMAIN messages' /\ messages'[m] = messages[m]
        /\ \A m \in DOMAIN messages' \ DOMAIN messages : messages'[m].run = 0
    BY <1>2, <1>3, NoteWritten DEF IInv
  <2>2. /\ session' = [session EXCEPT ![s] = NULL] /\ session[s] # NULL
        /\ session[s].op \in {"list", "invite", "remove"}
    BY <1>1, <1>2
  <2>3. Len(chats') <= MaxChats /\ Len(parts') <= MaxParts /\ doubled' \subseteq Persons
    BY <1>2, <1>11, <1>14 DEF IInv, TablesOK, SessionsOK
  <2>4. QED
    BY <1>2, <1>11, <1>14, <1>15, <1>20, <2>1, <2>2, <2>3, RowsWritten
<1>22. InboxesInv'
  <2>1. \A d \in DOMAIN chats :
           /\ chats'[d].seeded = chats[d].seeded /\ chats'[d].owner = chats[d].owner
           /\ chats'[d].kind = "assistant" <=> chats[d].kind = "assistant"
    BY <1>2, <1>4, <1>6, <1>8, <1>10, <1>11 DEF KindOK
  <2>2. session'[s] = NULL /\ \A t \in Sessions \ {s} : session'[t] = session[t]
    BY <1>2 DEF IInv, SessionsOK
  <2>3. /\ doubled' = doubled /\ TablesOK /\ RefsOK /\ SessionsOK /\ InboxesInv /\ Grown
        /\ \A d \in DOMAIN chats' \ DOMAIN chats : ~chats'[d].seeded
        /\ \A j \in DOMAIN parts : ~parts'[j].removed => ~parts[j].removed
        /\ \A j \in DOMAIN parts' \ DOMAIN parts :
              chats'[parts'[j].chat].seeded => parts'[j].who \notin Persons
        /\ \A t \in Sessions : session'[t] # NULL => session'[t] = session[t]
    BY <1>2, <1>11, <1>14, <1>15, <1>21, <2>2 DEF IInv
  <2>4. QED
    BY <2>1, <2>3, InboxesShrunk
<1>23. QED
  BY <1>20, <1>21, <1>22 DEF IInv

---------------------------------------------------------------------------
(* New chats                                                               *)

\* The orders of a finite set are sequences that name each member once.
LEMMA OrdersOf ==
  ASSUME NEW S, IsFiniteSet(S), NEW order \in Orders(S)
  PROVE  /\ order \in Seq(S) /\ Len(order) = Cardinality(S) /\ Cardinality(S) \in Nat
         /\ DOMAIN order = 1..Cardinality(S)
         /\ \A i \in DOMAIN order : order[i] \in S
         /\ \A i, j \in DOMAIN order : order[i] = order[j] => i = j
<1>1. Cardinality(S) \in Nat
  BY FS_CardinalityType
<1>2. order \in [1..Cardinality(S) -> S] /\ \A i, j \in DOMAIN order : i # j => order[i] # order[j]
  BY DEF Orders
<1>3. order \in Seq(S) /\ Len(order) = Cardinality(S)
  BY <1>1, <1>2
<1>4. QED
  BY <1>1, <1>2, <1>3

\* h is f on 1..n, and then g on 1..m.
Parted(h, f, n, g, m) ==
  /\ Len(h) = n + m
  /\ \A i \in 1..n : h[i] = f[i]
  /\ \A i \in 1..(n + m) : ~(i <= n) => i - n \in 1..m /\ h[i] = g[i - n]

\* Two functions on intervals from 1 are the two parts of a sequence.
LEMMA TwoParts ==
  ASSUME NEW S, NEW n \in Nat, NEW m \in Nat, NEW f \in [1..n -> S], NEW g \in [1..m -> S]
  PROVE  f \o g \in Seq(S) /\ Parted(f \o g, f, n, g, m)
<1>1. f \in Seq(S) /\ Len(f) = n /\ g \in Seq(S) /\ Len(g) = m
  OBVIOUS
<1>2. /\ f \o g \in Seq(S) /\ Len(f \o g) = n + m
      /\ \A i \in 1..(n + m) : (f \o g)[i] = IF i <= n THEN f[i] ELSE g[i - n]
  BY <1>1, ConcatProperties
<1>3. \A i \in 1..n : i \in 1..(n + m) /\ i <= n
  OBVIOUS
<1>4. \A i \in 1..(n + m) : ~(i <= n) => i - n \in 1..m
  OBVIOUS
<1>5. QED
  BY <1>2, <1>3, <1>4 DEF Parted

\* The participants of a new chat are of that chat, people first.
LEMMA JoinedRows ==
  ASSUME NEW c \in 1..MaxChats, NEW mode \in Modes,
         NEW named \in Seq(Persons), NEW order \in Seq(Assistants)
  PROVE  /\ Joined(c, named, order, mode) \in Seq(Part)
         /\ Len(Joined(c, named, order, mode)) = Len(named) + Len(order)
         /\ Len(named) \in Nat /\ Len(order) \in Nat
         /\ \A i \in 1..(Len(named) + Len(order)) :
              /\ Joined(c, named, order, mode)[i].chat = c
              /\ ~Joined(c, named, order, mode)[i].removed
              /\ Joined(c, named, order, mode)[i].who \in
                   IF i <= Len(named) THEN Persons ELSE Assistants
<1> DEFINE ps == [i \in DOMAIN named |-> [chat |-> c, who |-> named[i], mode |-> "passive",
                                          removed |-> FALSE]]
           as == [i \in DOMAIN order |-> [chat |-> c, who |-> order[i], mode |-> mode,
                                          removed |-> FALSE]]
<1>1. /\ Len(named) \in Nat /\ DOMAIN named = 1..Len(named)
      /\ Len(order) \in Nat /\ DOMAIN order = 1..Len(order)
      /\ \A i \in DOMAIN named : named[i] \in Persons
      /\ \A i \in DOMAIN order : order[i] \in Assistants
  BY LenProperties, ElementOfSeq
<1>2. /\ \A i \in DOMAIN named : ps[i] \in Part /\ ps[i].chat = c /\ ~ps[i].removed
                                 /\ ps[i].who \in Persons
      /\ \A i \in DOMAIN order : as[i] \in Part /\ as[i].chat = c /\ ~as[i].removed
                                 /\ as[i].who \in Assistants
  BY <1>1 DEF Part, Modes
<1>3. DOMAIN ps = 1..Len(named) /\ DOMAIN as = 1..Len(order)
  BY <1>1
<1>4. /\ ps = [i \in 1..Len(named) |-> ps[i]] /\ as = [i \in 1..Len(order) |-> as[i]]
  BY <1>1
<1>5. ps \in [1..Len(named) -> Part] /\ as \in [1..Len(order) -> Part]
  BY <1>1, <1>2, <1>3, <1>4
<1>6. PICK f \in [1..Len(named) -> Part], g \in [1..Len(order) -> Part] : f = ps /\ g = as
  BY <1>5
<1> HIDE DEF ps, as
<1>7. f \o g \in Seq(Part) /\ Parted(f \o g, f, Len(named), g, Len(order))
  BY <1>1, TwoParts
<1>8. ASSUME NEW i \in 1..(Len(named) + Len(order))
      PROVE  /\ (f \o g)[i].chat = c /\ ~(f \o g)[i].removed
             /\ (f \o g)[i].who \in IF i <= Len(named) THEN Persons ELSE Assistants
  <2>1. CASE i <= Len(named)
    <3>1. i \in DOMAIN named
      BY <1>1, <2>1
    <3>2. (f \o g)[i] = ps[i]
      BY <1>1, <1>6, <1>7, <3>1 DEF Parted
    <3>3. QED
      BY <1>2, <2>1, <3>1, <3>2
  <2>2. CASE ~(i <= Len(named))
    <3>1. i - Len(named) \in DOMAIN order /\ (f \o g)[i] = as[i - Len(named)]
      BY <1>1, <1>6, <1>7, <2>2 DEF Parted
    <3>2. QED
      BY <1>2, <2>2, <3>1
  <2>3. QED
    BY <2>1, <2>2
<1>9. Joined(c, named, order, mode) = f \o g
  BY <1>6 DEF Joined, ps, as
<1>10. QED
  BY <1>1, <1>7, <1>8, <1>9 DEF Parted

\* A chat is created: the ones there are stay what they are, and the new one is in order.
LEMMA ChatCreated ==
  ASSUME IInv, NEW p \in Persons, NEW new \in Openings, NEW order \in Orders(new.assistants),
         CreateChat(p, new, order)
  PROVE  IInv'
<1>1. /\ new.kind \in Kinds /\ new.shared \in BOOLEAN
      /\ new.people \subseteq Persons /\ IsFiniteSet(new.people)
      /\ new.assistants \subseteq Assistants
  BY InputsAssumption DEF Opening
<1>2. PICK people : people = {p} \cup new.people
  OBVIOUS
<1>3. people \subseteq Persons /\ IsFiniteSet(people) /\ IsFiniteSet(new.assistants)
  BY <1>1, <1>2, FS_Singleton, FS_Union, FS_Subset, ConversationsAssumption
<1>4. PICK mode \in Modes : mode = IF new.kind = "assistant" THEN "active" ELSE "passive"
  BY DEF Modes
<1>5. PICK c : c = Len(chats) + 1
  OBVIOUS
<1>6. PICK k : k = Len(parts) + Cardinality(people)
  OBVIOUS
<1>7. PICK named \in Orders(people), primary \in IF order = <<>> THEN {0} ELSE (k + 1)..(k + Len(order)) :
        /\ parts' = parts \o Joined(c, named, order, mode)
        /\ chats' = Append(chats, [kind |-> IF new.kind = "family" /\ order # <<>> THEN "hybrid"
                                            ELSE new.kind,
                                   shared |-> new.shared, owner |-> p, seeded |-> FALSE,
                                   primary |-> primary])
  BY <1>2, <1>4, <1>5, <1>6 DEF CreateChat
<1>8. /\ c <= MaxChats /\ k + Len(order) <= MaxParts /\ messages' = Append(messages, Note(c))
      /\ UNCHANGED <<runs, proposals, session, loop, chatter, orphans, raced, doubled, restarts>>
  BY <1>2, <1>5, <1>6 DEF CreateChat, history
<1>9. /\ named \in Seq(Persons) /\ order \in Seq(Assistants)
      /\ Len(named) = Cardinality(people) /\ Len(named) \in Nat /\ Len(order) \in Nat
  <2>1. named \in Seq(people) /\ Len(named) = Cardinality(people) /\ Cardinality(people) \in Nat
    BY <1>3, OrdersOf
  <2>2. order \in Seq(new.assistants) /\ Len(order) \in Nat
    BY <1>3, OrdersOf
  <2>3. QED
    BY <1>1, <1>3, <2>1, <2>2, SeqMonotonic
<1>10. /\ DOMAIN chats = 1..Len(chats) /\ Len(chats) \in Nat
       /\ DOMAIN parts = 1..Len(parts) /\ Len(parts) \in Nat
  BY Bounds DEF IInv
<1>11. c \in 1..MaxChats /\ c \notin DOMAIN chats
  BY <1>5, <1>8, <1>10, ConversationsAssumption
<1>12. primary \in 0..MaxParts /\ (primary # 0 => primary \in (k + 1)..(k + Len(order)))
  <2>1. k \in Nat
    BY <1>6, <1>9, <1>10
  <2>2. QED
    BY <1>7, <1>8, <1>9, <2>1, ConversationsAssumption
<1>13. PICK y : y = [kind |-> IF new.kind = "family" /\ order # <<>> THEN "hybrid" ELSE new.kind,
                     shared |-> new.shared, owner |-> p, seeded |-> FALSE, primary |-> primary]
  OBVIOUS
<1>14. /\ y \in Chat /\ ~y.seeded /\ y.primary = primary
       /\ y.kind = "family" => order = <<>>
       /\ chats' = Append(chats, y)
  BY <1>1, <1>7, <1>12, <1>13 DEF Chat, Kinds
<1>15. /\ chats' \in Seq(Chat) /\ Len(chats') = Len(chats) + 1
       /\ DOMAIN chats' = DOMAIN chats \cup {c}
       /\ \A d \in DOMAIN chats : chats'[d] = chats[d]
       /\ chats'[c] = y
  <2>1. /\ chats' \in Seq(Chat) /\ Len(chats') = Len(chats) + 1
        /\ DOMAIN chats' = 1..(Len(chats) + 1)
        /\ \A d \in DOMAIN chats : chats'[d] = chats[d]
        /\ chats'[Len(chats) + 1] = y
    BY <1>14, OneMore DEF IInv, TablesOK
  <2>2. QED
    BY <1>5, <1>10, <2>1
<1>16. PICK new2 : new2 = Joined(c, named, order, mode)
  OBVIOUS
<1>17. /\ new2 \in Seq(Part) /\ Len(new2) = Len(named) + Len(order)
       /\ \A i \in 1..(Len(named) + Len(order)) :
             /\ new2[i].chat = c /\ ~new2[i].removed
             /\ new2[i].who \in IF i <= Len(named) THEN Persons ELSE Assistants
  BY <1>9, <1>11, <1>16, JoinedRows
<1>18. /\ parts' \in Seq(Part) /\ Len(parts') = Len(parts) + Len(new2)
       /\ DOMAIN parts' = 1..(Len(parts) + Len(new2)) /\ DOMAIN parts \subseteq DOMAIN parts'
       /\ \A i \in DOMAIN parts : parts'[i] = parts[i]
       /\ \A i \in DOMAIN parts' \ DOMAIN parts :
             i - Len(parts) \in 1..Len(new2) /\ parts'[i] = new2[i - Len(parts)]
  <2>1. parts \in Seq(Part) /\ parts' = parts \o new2
    BY <1>7, <1>16 DEF IInv, TablesOK
  <2>2. parts' \in Seq(Part) /\ Extended(parts', parts, new2)
    BY <1>17, <2>1, ManyMore
  <2>3. QED
    BY <2>2 DEF Extended
<1>19. \A i \in DOMAIN parts' \ DOMAIN parts :
          /\ parts'[i].chat = c /\ ~parts'[i].removed
          /\ parts'[i].who \in IF i - Len(parts) <= Len(named) THEN Persons ELSE Assistants
  BY <1>17, <1>18
<1>20. \A d \in DOMAIN chats : Same(d)
  <2>1. \A d \in DOMAIN chats : ActiveAssistants(d)' = ActiveAssistants(d)
    BY <1>11, <1>18, <1>19 DEF ActiveAssistants, Active
  <2>2. QED
    BY <1>15, <2>1 DEF Same
<1>21. \A i \in ActiveAssistants(c)' : i \in DOMAIN parts' \ DOMAIN parts
  BY <1>11, <1>18 DEF ActiveAssistants, Active, IInv, RefsOK
<1>22. ChatOK(c)'
  <2>1. ASSUME y.kind = "family", NEW i \in ActiveAssistants(c)'
        PROVE  FALSE
    <3>1. Len(order) = 0
      BY <1>14, <2>1
    <3>2. i - Len(parts) \in 1..Len(named)
      BY <1>9, <1>17, <1>18, <1>21, <3>1
    <3>3. parts'[i].who \in Persons /\ parts'[i].who \in Assistants
      BY <1>19, <1>21, <3>2 DEF ActiveAssistants, Active
    <3>4. QED
      BY <3>3, ConversationsAssumption
  <2>2. ASSUME primary # 0
        PROVE  primary \in ActiveAssistants(c)'
    <3>1. /\ primary \in DOMAIN parts' /\ primary \notin DOMAIN parts
          /\ ~(primary - Len(parts) <= Len(named))
      BY <1>6, <1>9, <1>10, <1>12, <1>17, <1>18, <2>2
    <3>2. QED
      BY <1>19, <3>1 DEF ActiveAssistants, Active
  <2>3. QED
    BY <1>14, <1>15, <2>1, <2>2 DEF ChatOK
<1>23. MembershipInv'
  <2>1. \A s \in Sessions : session'[s] # NULL =>
           /\ session'[s] = session[s]
           /\ session[s].op \in Membership => Same(session[s].chat)
    BY <1>8, <1>20 DEF IInv, SessionsOK, RequestOK
  <2>2. QED
    BY <1>8, <1>15, <1>20, <1>22, <2>1, MembershipKept DEF IInv
<1>24. Grown /\ TablesOK' /\ RefsOK' /\ SessionsOK' /\ TurnsInv' /\ RepliesInv'
  <2>1. /\ messages' \in Seq(Message)
        /\ \A m \in DOMAIN messages : m \in DOMAIN messages' /\ messages'[m] = messages[m]
        /\ \A m \in DOMAIN messages' \ DOMAIN messages : messages'[m].run = 0
    BY <1>8, <1>11, NoteWritten DEF IInv
  <2>2. Len(chats') <= MaxChats /\ Len(parts') <= MaxParts
    BY <1>5, <1>6, <1>8, <1>9, <1>10, <1>15, <1>17, <1>18
  <2>3. raced' \subseteq DOMAIN chats' /\ doubled' \subseteq Persons
    BY <1>8, <1>15 DEF IInv, SessionsOK
  <2>4. QED
    BY <1>8, <1>15, <1>18, <1>19, <2>1, <2>2, <2>3, RowsWritten
<1>25. InboxesInv'
  <2>1. /\ doubled' = doubled /\ TablesOK /\ RefsOK /\ SessionsOK /\ InboxesInv /\ Grown
        /\ \A d \in DOMAIN chats : /\ chats'[d].seeded = chats[d].seeded
                                   /\ chats'[d].owner = chats[d].owner
                                   /\ chats'[d].kind = "assistant" <=> chats[d].kind = "assistant"
        /\ \A d \in DOMAIN chats' \ DOMAIN chats : ~chats'[d].seeded
        /\ \A i \in DOMAIN parts : ~parts'[i].removed => ~parts[i].removed
        /\ \A i \in DOMAIN parts' \ DOMAIN parts :
              chats'[parts'[i].chat].seeded => parts'[i].who \notin Persons
        /\ \A s \in Sessions : session'[s] # NULL => session'[s] = session[s]
    BY <1>8, <1>14, <1>15, <1>18, <1>19, <1>24 DEF IInv
  <2>2. QED
    BY <2>1, InboxesShrunk
<1>26. QED
  BY <1>23, <1>24, <1>25 DEF IInv

\* The rows of the private chats that a list seeds: chat n + i of p and order[i], whose
\* participants are numbers k + 2 * i - 1 and k + 2 * i.
SeededRows(new, order, p, n, k) ==
  /\ new.cs \in Seq(Chat) /\ Len(new.cs) = Len(order)
  /\ new.ps \in Seq(Part) /\ Len(new.ps) = 2 * Len(order)
  /\ new.ms \in Seq(Message) /\ Len(new.ms) = Len(order)
  /\ \A i \in 1..Len(order) :
       /\ new.cs[i].kind = "assistant" /\ new.cs[i].seeded
       /\ new.cs[i].owner = p /\ new.cs[i].primary = k + 2 * i
       /\ new.ms[i].run = 0
  /\ \A j \in 1..(2 * Len(order)) :
       /\ ~new.ps[j].removed
       /\ \E i \in 1..Len(order) :
            /\ new.ps[j].chat = n + i
            /\ \/ j = 2 * i - 1 /\ new.ps[j].who = p
               \/ j = 2 * i /\ new.ps[j].who = order[i]

LEMMA SeededAre ==
  ASSUME NEW p \in Persons, NEW order \in Seq(Assistants), NEW n \in Nat, NEW k \in Nat,
         n + Len(order) <= MaxChats, k + 2 * Len(order) <= MaxParts
  PROVE  SeededRows(Seeded(order, p, n, k), order, p, n, k)
<1> DEFINE cs == [i \in 1..Len(order) |-> [kind |-> "assistant", shared |-> FALSE, owner |-> p,
                                           seeded |-> TRUE, primary |-> k + 2 * i]]
           ps == [j \in 1..(2 * Len(order)) |->
                    [chat |-> n + (j + 1) \div 2, mode |-> "active", removed |-> FALSE,
                     who |-> IF j % 2 = 1 THEN p ELSE order[j \div 2]]]
           ms == [i \in 1..Len(order) |-> Note(n + i)]
<1>1. /\ Len(order) \in Nat /\ DOMAIN order = 1..Len(order)
      /\ \A i \in 1..Len(order) : order[i] \in Assistants
  BY LenProperties, ElementOfSeq
<1>2. PICK l : l = Len(order)
  OBVIOUS
<1> l \in Nat
  BY <1>1, <1>2
<1>3. \A i \in 1..l : n + i \in 1..MaxChats /\ k + 2 * i \in 0..MaxParts
  BY <1>2, ConversationsAssumption
<1>4. ASSUME NEW i \in 1..l
      PROVE  cs[i] \in Chat /\ ms[i] \in Message /\ ms[i].run = 0
  <2>1. PICK x \in 0..MaxParts : x = k + 2 * i
    BY <1>3
  <2>2. cs[i] \in Chat
    <3>1. cs[i] = [kind |-> "assistant", shared |-> FALSE, owner |-> p,
                   seeded |-> TRUE, primary |-> x]
      BY <1>2, <2>1
    <3> HIDE DEF cs
    <3>2. QED
      BY <3>1 DEF Chat, Kinds
  <2>3. ms[i] = [chat |-> n + i, by |-> 0, run |-> 0]
    BY <1>2 DEF Note
  <2>4. QED
    BY <1>3, <2>2, <2>3, ConversationsAssumption DEF Message
<1>5. ASSUME NEW j \in 1..(2 * l)
      PROVE  /\ ps[j] \in Part /\ ~ps[j].removed
             /\ \E i \in 1..l : /\ ps[j].chat = n + i
                                /\ \/ j = 2 * i - 1 /\ ps[j].who = p
                                   \/ j = 2 * i /\ ps[j].who = order[i]
  <2>1. ps[j] = [chat |-> n + (j + 1) \div 2, mode |-> "active", removed |-> FALSE,
                 who |-> IF j % 2 = 1 THEN p ELSE order[j \div 2]]
    BY <1>2
  <2>2. PICK i \in 1..l : \/ j = 2 * i - 1 /\ j % 2 = 1 /\ (j + 1) \div 2 = i
                          \/ j = 2 * i /\ j % 2 = 0 /\ (j + 1) \div 2 = i /\ j \div 2 = i
    <3>1. CASE j % 2 = 1
      <4>1. /\ (j + 1) \div 2 \in 1..l /\ j = 2 * ((j + 1) \div 2) - 1
        BY <3>1
      <4>2. QED
        BY <3>1, <4>1
    <3>2. CASE j % 2 = 0
      <4>1. /\ j \div 2 \in 1..l /\ j = 2 * (j \div 2) /\ (j + 1) \div 2 = j \div 2
        BY <3>2
      <4>2. QED
        BY <3>2, <4>1
    <3>3. QED
      BY <3>1, <3>2
  <2>3. PICK w \in Persons \cup Assistants :
           /\ w = IF j % 2 = 1 THEN p ELSE order[j \div 2]
           /\ \/ j = 2 * i - 1 /\ w = p
              \/ j = 2 * i /\ w = order[i]
    BY <1>1, <1>2, <2>2
  <2>4. PICK x \in 1..MaxChats : x = n + i
    BY <1>3
  <2>5. x = n + (j + 1) \div 2
    BY <2>2, <2>4
  <2>6. ps[j] = [chat |-> x, mode |-> "active", removed |-> FALSE, who |-> w]
    BY <2>1, <2>3, <2>5, Zenon
  <2> HIDE DEF ps
  <2>7. ps[j] \in Part /\ ps[j].chat = x /\ ~ps[j].removed /\ ps[j].who = w
    BY <2>6 DEF Part, Modes
  <2>8. QED
    BY <2>3, <2>4, <2>7
<1>6. /\ DOMAIN cs = 1..l /\ DOMAIN ms = 1..l /\ DOMAIN ps = 1..(2 * l)
      /\ cs = [i \in 1..l |-> cs[i]] /\ ms = [i \in 1..l |-> ms[i]]
      /\ ps = [j \in 1..(2 * l) |-> ps[j]]
  BY <1>2
<1>7. \A i \in 1..l : /\ cs[i].kind = "assistant" /\ cs[i].seeded
                      /\ cs[i].owner = p /\ cs[i].primary = k + 2 * i
  BY <1>2
<1> HIDE DEF cs, ps, ms
<1>8. cs \in [1..l -> Chat] /\ ms \in [1..l -> Message] /\ ps \in [1..(2 * l) -> Part]
  BY <1>4, <1>5, <1>6
<1>9. /\ cs \in Seq(Chat) /\ Len(cs) = l
      /\ ms \in Seq(Message) /\ Len(ms) = l
      /\ ps \in Seq(Part) /\ Len(ps) = 2 * l
  <2>1. 2 * l \in Nat
    OBVIOUS
  <2>2. QED
    BY <1>8, <2>1
<1>10. PICK new : new = [cs |-> cs, ps |-> ps, ms |-> ms]
  OBVIOUS
<1>11. SeededRows(new, order, p, n, k)
  <2>1. new.cs = cs /\ new.ps = ps /\ new.ms = ms
    BY <1>10
  <2>2. /\ new.cs \in Seq(Chat) /\ Len(new.cs) = Len(order)
        /\ new.ps \in Seq(Part) /\ Len(new.ps) = 2 * Len(order)
        /\ new.ms \in Seq(Message) /\ Len(new.ms) = Len(order)
    BY <1>2, <1>9, <2>1
  <2>3. \A i \in 1..Len(order) :
           /\ new.cs[i].kind = "assistant" /\ new.cs[i].seeded
           /\ new.cs[i].owner = p /\ new.cs[i].primary = k + 2 * i
           /\ new.ms[i].run = 0
    BY <1>2, <1>4, <1>7, <2>1
  <2>4. \A j \in 1..(2 * Len(order)) :
           /\ ~new.ps[j].removed
           /\ \E i \in 1..Len(order) :
                /\ new.ps[j].chat = n + i
                /\ \/ j = 2 * i - 1 /\ new.ps[j].who = p
                   \/ j = 2 * i /\ new.ps[j].who = order[i]
    <3>1. SUFFICES \A j \in 1..(2 * l) :
            /\ ~ps[j].removed
            /\ \E i \in 1..l : /\ ps[j].chat = n + i
                               /\ \/ j = 2 * i - 1 /\ ps[j].who = p
                                  \/ j = 2 * i /\ ps[j].who = order[i]
      BY <1>2, <2>1, Zenon
    <3>2. QED
      BY <1>5
  <2>5. QED
    BY <2>2, <2>3, <2>4 DEF SeededRows
<1>12. Seeded(order, p, n, k) = new
  BY <1>10 DEF Seeded, cs, ps, ms
<1>13. QED
  BY <1>11, <1>12

\* What a list writes: chat N + i is the new one of person p with order[i].
Seeds(p, order, N, K) ==
  /\ Len(order) \in Nat /\ N \in Nat /\ K \in Nat
  /\ DOMAIN chats = 1..N /\ DOMAIN chats' = 1..(N + Len(order))
  /\ DOMAIN parts = 1..K /\ DOMAIN parts' = 1..(K + 2 * Len(order))
  /\ \A c \in DOMAIN chats : c \in DOMAIN chats' /\ chats'[c] = chats[c]
  /\ \A j \in DOMAIN parts : j \in DOMAIN parts' /\ parts'[j] = parts[j]
  /\ \A c \in DOMAIN chats' \ DOMAIN chats :
       /\ chats'[c].kind = "assistant" /\ chats'[c].seeded /\ chats'[c].owner = p
       /\ \E i \in 1..Len(order) : c = N + i /\ chats'[c].primary = K + 2 * i
  /\ \A j \in DOMAIN parts' \ DOMAIN parts :
       /\ ~parts'[j].removed
       /\ \E i \in 1..Len(order) :
            /\ parts'[j].chat = N + i
            /\ \/ j = K + 2 * i - 1 /\ parts'[j].who = p
               \/ j = K + 2 * i /\ parts'[j].who = order[i]

\* Participant j, of chat c, is the assistant a that was seeded.
SeededPart(j, c, a) ==
  j \in DOMAIN parts' \ DOMAIN parts /\ parts'[j].chat = c /\ parts'[j].who = a

\* The assistant of chat N + i.
LEMMA SeededParts ==
  ASSUME NEW p, NEW order, NEW N, NEW K, Seeds(p, order, N, K), NEW i \in 1..Len(order)
  PROVE  SeededPart(K + 2 * i, N + i, order[i])
<1>1. /\ Len(order) \in Nat /\ N \in Nat /\ K \in Nat
      /\ DOMAIN parts = 1..K /\ DOMAIN parts' = 1..(K + 2 * Len(order))
  BY DEF Seeds
<1>2. K + 2 * i \in DOMAIN parts' \ DOMAIN parts
  BY <1>1
<1>3. PICK y \in 1..Len(order) :
         /\ parts'[K + 2 * i].chat = N + y
         /\ \/ K + 2 * i = K + 2 * y - 1 /\ parts'[K + 2 * i].who = p
            \/ K + 2 * i = K + 2 * y /\ parts'[K + 2 * i].who = order[y]
  BY <1>2 DEF Seeds
<1>4. y = i /\ K + 2 * i # K + 2 * y - 1
  <2>1. y \in Int /\ i \in Int /\ K \in Int
    BY <1>1
  <2>2. K + 2 * i # K + 2 * y - 1
    BY <2>1
  <2>3. K + 2 * i = K + 2 * y
    BY <1>3, <2>2
  <2>4. QED
    BY <2>1, <2>2, <2>3
<1>5. QED
  BY <1>2, <1>3, <1>4 DEF SeededPart

\* The private chats that are open then are those that were, and one of p with each
\* assistant of order.
LEMMA SeededInboxes ==
  ASSUME NEW p \in Persons, NEW order \in Seq(Assistants), NEW N, NEW K,
         Seeds(p, order, N, K), RefsOK, NEW q \in Persons, NEW a, NEW c \in OpenInboxes(q, a)'
  PROVE  \/ c \in OpenInboxes(q, a)
         \/ q = p /\ \E i \in 1..Len(order) : c = N + i /\ a = order[i]
<1>1. /\ c \in DOMAIN chats' /\ chats'[c].seeded /\ chats'[c].owner = q
  BY DEF OpenInboxes
<1>2. PICK i \in Present(c, q)' : i + 1 \in Present(c, a)'
  BY DEF OpenInboxes
<1>3. /\ i \in DOMAIN parts' /\ parts'[i].chat = c /\ ~parts'[i].removed /\ parts'[i].who = q
      /\ i + 1 \in DOMAIN parts' /\ parts'[i + 1].chat = c /\ ~parts'[i + 1].removed
      /\ parts'[i + 1].who = a
  BY <1>2 DEF Present, Active
<1>4. CASE c \in DOMAIN chats
  <2>1. \A j \in DOMAIN parts' : parts'[j].chat = c => j \in DOMAIN parts
    BY <1>4 DEF Seeds
  <2>2. i \in Present(c, q) /\ i + 1 \in Present(c, a)
    BY <1>3, <2>1 DEF Present, Active, Seeds
  <2>3. QED
    BY <1>1, <1>4, <2>2 DEF OpenInboxes, Seeds
<1>5. CASE c \notin DOMAIN chats
  <2>1. q = p
    BY <1>1, <1>5 DEF Seeds
  <2>2. i \notin DOMAIN parts /\ i + 1 \notin DOMAIN parts
    BY <1>3, <1>5 DEF Seeds, RefsOK
  <2>3. PICK x \in 1..Len(order) :
           /\ parts'[i].chat = N + x
           /\ \/ i = K + 2 * x - 1 /\ parts'[i].who = p
              \/ i = K + 2 * x /\ parts'[i].who = order[x]
    BY <1>3, <2>2 DEF Seeds
  <2>4. order[x] \in Assistants
    BY ElementOfSeq
  <2>5. i = K + 2 * x - 1
    BY <1>3, <2>3, <2>4, ConversationsAssumption
  <2>6. Len(order) \in Nat /\ K \in Nat
    BY DEF Seeds
  <2>7. i + 1 = K + 2 * x
    BY <2>5, <2>6
  <2>8. parts'[i + 1].who = order[x]
    BY <2>7, SeededParts DEF SeededPart
  <2>9. QED
    BY <1>3, <2>1, <2>3, <2>8
<1>6. QED
  BY <1>4, <1>5

\* The rows of a list are written after those of the tables.
LEMMA SeedsWritten ==
  ASSUME TablesOK, NEW p \in Persons, NEW order \in Seq(Assistants), NEW new,
         SeededRows(new, order, p, Len(chats), Len(parts)),
         chats' = chats \o new.cs, parts' = parts \o new.ps
  PROVE  /\ Seeds(p, order, Len(chats), Len(parts))
         /\ chats' \in Seq(Chat) /\ Len(chats') = Len(chats) + Len(new.cs)
         /\ parts' \in Seq(Part) /\ Len(parts') = Len(parts) + Len(new.ps)
<1>1. /\ new.cs \in Seq(Chat) /\ Len(new.cs) = Len(order)
      /\ new.ps \in Seq(Part) /\ Len(new.ps) = 2 * Len(order)
  BY DEF SeededRows
<1>2. chats' \in Seq(Chat) /\ Extended(chats', chats, new.cs)
  BY <1>1, ManyMore DEF TablesOK
<1>3. parts' \in Seq(Part) /\ Extended(parts', parts, new.ps)
  BY <1>1, ManyMore DEF TablesOK
<1>4. /\ Len(chats) \in Nat /\ Len(parts) \in Nat /\ Len(order) \in Nat
      /\ DOMAIN chats = 1..Len(chats) /\ DOMAIN chats' = 1..(Len(chats) + Len(order))
      /\ DOMAIN parts = 1..Len(parts) /\ DOMAIN parts' = 1..(Len(parts) + 2 * Len(order))
      /\ Len(chats') = Len(chats) + Len(new.cs) /\ Len(parts') = Len(parts) + Len(new.ps)
  BY <1>1, <1>2, <1>3, LenProperties DEF Extended
<1>5. /\ \A c \in DOMAIN chats : c \in DOMAIN chats' /\ chats'[c] = chats[c]
      /\ \A j \in DOMAIN parts : j \in DOMAIN parts' /\ parts'[j] = parts[j]
  BY <1>2, <1>3 DEF Extended
<1>6. ASSUME NEW c \in DOMAIN chats' \ DOMAIN chats
      PROVE  /\ chats'[c].kind = "assistant" /\ chats'[c].seeded /\ chats'[c].owner = p
             /\ \E i \in 1..Len(order) : c = Len(chats) + i
                                         /\ chats'[c].primary = Len(parts) + 2 * i
  <2>1. PICK i : i = c - Len(chats)
    OBVIOUS
  <2>2. i \in 1..Len(order) /\ chats'[c] = new.cs[i]
    BY <1>1, <1>2, <2>1 DEF Extended
  <2>3. c = Len(chats) + i
    BY <1>4, <2>1
  <2>4. QED
    BY <2>2, <2>3 DEF SeededRows
<1>7. ASSUME NEW j \in DOMAIN parts' \ DOMAIN parts
      PROVE  /\ ~parts'[j].removed
             /\ \E i \in 1..Len(order) :
                  /\ parts'[j].chat = Len(chats) + i
                  /\ \/ j = Len(parts) + 2 * i - 1 /\ parts'[j].who = p
                     \/ j = Len(parts) + 2 * i /\ parts'[j].who = order[i]
  <2>1. PICK x : x = j - Len(parts)
    OBVIOUS
  <2>2. x \in 1..(2 * Len(order)) /\ parts'[j] = new.ps[x]
    BY <1>1, <1>3, <2>1 DEF Extended
  <2>3. PICK i \in 1..Len(order) :
           /\ new.ps[x].chat = Len(chats) + i
           /\ \/ x = 2 * i - 1 /\ new.ps[x].who = p
              \/ x = 2 * i /\ new.ps[x].who = order[i]
    BY <2>2 DEF SeededRows
  <2>4. ~new.ps[x].removed
    BY <2>2 DEF SeededRows
  <2>5. j = Len(parts) + x
    BY <1>4, <2>1
  <2>6. x = 2 * i - 1 => j = Len(parts) + 2 * i - 1
    BY <1>4, <2>5
  <2>7. QED
    BY <2>2, <2>3, <2>4, <2>5, <2>6
<1>8. QED
  BY <1>2, <1>3, <1>4, <1>5, <1>6, <1>7 DEF Seeds

\* A list seeds a private chat with each assistant it missed.
LEMMA ListCommitted ==
  ASSUME IInv, NEW s \in Sessions, CommitList(s)
  PROVE  IInv'
<1>1. PICK r : r = session[s]
  OBVIOUS
<1>2. /\ r # NULL /\ r.op = "list" /\ r.who \in Persons
      /\ r.missing \subseteq Inboxes /\ IsFiniteSet(r.missing)
  <2>1. r # NULL /\ r.op = "list" /\ r \in Request
    BY <1>1 DEF CommitList, IInv, SessionsOK
  <2>2. r \in Listing
    BY <2>1 DEF Request, Listing, Invite, Remove, Posted, Running, InTurn
  <2>3. ListOK(r)
    BY <1>1, <2>1 DEF IInv, InboxesInv
  <2>4. r.missing \subseteq Inboxes
    BY <2>1, <2>3 DEF ListOK
  <2>5. QED
    BY <2>1, <2>2, <2>4, FS_Subset, ConversationsAssumption DEF Listing
<1>3. PICK p \in Persons : p = r.who
  BY <1>2
<1>4. PICK order, new :
         /\ order \in Orders(r.missing)
         /\ new = Seeded(order, p, Len(chats), Len(parts))
         /\ Len(chats) + Len(new.cs) <= MaxChats /\ Len(parts) + Len(new.ps) <= MaxParts
         /\ chats' = chats \o new.cs /\ parts' = parts \o new.ps
         /\ messages' = messages \o new.ms
  BY <1>1, <1>3 DEF CommitList
<1>5. /\ doubled' = IF \E t \in Sessions \ {s} : /\ session[t] # NULL /\ session[t].op = "list"
                                                 /\ session[t].who = p
                    THEN doubled \cup {p} ELSE doubled
      /\ session' = [session EXCEPT ![s] = NULL]
      /\ UNCHANGED <<runs, proposals, loop, chatter, orphans, raced, restarts>>
  BY <1>1, <1>3 DEF CommitList
<1>6. /\ order \in Seq(Assistants) /\ Len(order) \in Nat
      /\ \A i \in 1..Len(order) : order[i] \in r.missing
      /\ \A i, j \in 1..Len(order) : order[i] = order[j] => i = j
  <2>0. order \in Orders(r.missing)
    BY <1>4
  <2>1. /\ order \in Seq(r.missing) /\ Len(order) \in Nat /\ DOMAIN order = 1..Len(order)
        /\ \A i \in DOMAIN order : order[i] \in r.missing
        /\ \A i, j \in DOMAIN order : order[i] = order[j] => i = j
    BY <1>2, <2>0, OrdersOf
  <2>2. r.missing \subseteq Assistants
    BY <1>2, ConversationsAssumption
  <2>3. QED
    BY <2>1, <2>2, SeqMonotonic
<1>7. Len(chats) \in Nat /\ Len(parts) \in Nat /\ TablesOK
  BY Bounds DEF IInv
<1>8. SeededRows(new, order, p, Len(chats), Len(parts))
  <2>1. /\ Len(new.cs) = Len(order) /\ Len(new.ps) = 2 * Len(order)
    <3>1. /\ new.cs = [i \in 1..Len(order) |->
                         [kind |-> "assistant", shared |-> FALSE, owner |-> p,
                          seeded |-> TRUE, primary |-> Len(parts) + 2 * i]]
          /\ new.ps = [j \in 1..(2 * Len(order)) |->
                         [chat |-> Len(chats) + (j + 1) \div 2, mode |-> "active",
                          removed |-> FALSE,
                          who |-> IF j % 2 = 1 THEN p ELSE order[j \div 2]]]
      BY <1>4 DEF Seeded
    <3>2. 2 * Len(order) \in Nat
      BY <1>6
    <3>3. QED
      BY <1>6, <3>1, <3>2
  <2>2. Len(chats) + Len(order) <= MaxChats /\ Len(parts) + 2 * Len(order) <= MaxParts
    BY <1>4, <2>1
  <2>3. QED
    BY <1>4, <1>6, <1>7, <2>2, SeededAre
<1>9. /\ Seeds(p, order, Len(chats), Len(parts))
      /\ chats' \in Seq(Chat) /\ Len(chats') = Len(chats) + Len(new.cs)
      /\ parts' \in Seq(Part) /\ Len(parts') = Len(parts) + Len(new.ps)
  BY <1>4, <1>6, <1>7, <1>8, SeedsWritten
<1>10. /\ messages' \in Seq(Message)
       /\ \A m \in DOMAIN messages : m \in DOMAIN messages' /\ messages'[m] = messages[m]
       /\ \A m \in DOMAIN messages' \ DOMAIN messages : messages'[m].run = 0
  <2>1. new.ms \in Seq(Message) /\ \A i \in 1..Len(new.ms) : new.ms[i].run = 0
    BY <1>8 DEF SeededRows
  <2>2. messages' \in Seq(Message) /\ Extended(messages', messages, new.ms)
    BY <1>4, <2>1, ManyMore DEF IInv, TablesOK
  <2>3. QED
    BY <2>1, <2>2 DEF Extended
<1>11. session'[s] = NULL /\ \A t \in Sessions \ {s} : session'[t] = session[t]
  BY <1>5 DEF IInv, SessionsOK
<1>12. /\ DOMAIN chats \subseteq DOMAIN chats'
       /\ \A c \in DOMAIN chats : chats'[c] = chats[c]
       /\ \A j \in DOMAIN parts : j \in DOMAIN parts' /\ parts'[j] = parts[j]
       /\ \A j \in DOMAIN parts' \ DOMAIN parts : parts'[j].chat \in DOMAIN chats' \ DOMAIN chats
  <2>1. \A i \in 1..Len(order) : Len(chats) + i \in DOMAIN chats' \ DOMAIN chats
    BY <1>6, <1>7, <1>9 DEF Seeds
  <2>2. QED
    BY <1>9, <2>1 DEF Seeds
<1>13. doubled \subseteq doubled' /\ doubled' \subseteq Persons
  BY <1>3, <1>5 DEF IInv, SessionsOK
<1>14. Grown /\ TablesOK' /\ RefsOK' /\ SessionsOK' /\ TurnsInv' /\ RepliesInv'
  <2>1. Len(chats') <= MaxChats /\ Len(parts') <= MaxParts
    BY <1>4, <1>9
  <2>2. raced' \subseteq DOMAIN chats'
    BY <1>5, <1>12 DEF IInv, SessionsOK
  <2>3. session[s] # NULL /\ session[s].op \in {"list", "invite", "remove"}
    BY <1>1, <1>2
  <2>4. QED
    BY <1>5, <1>9, <1>10, <1>12, <1>13, <2>1, <2>2, <2>3, RowsWritten
<1>15. MembershipInv'
  <2>1. ASSUME NEW c \in DOMAIN chats
        PROVE  Same(c)
    <3>1. ActiveAssistants(c)' = ActiveAssistants(c)
      BY <1>12, <2>1 DEF ActiveAssistants, Active
    <3>2. QED
      BY <1>12, <2>1, <3>1 DEF Same
  <2>2. ASSUME NEW c \in DOMAIN chats' \ DOMAIN chats
        PROVE  ChatOK(c)'
    <3>1. PICK i \in 1..Len(order) : /\ c = Len(chats) + i
                                     /\ chats'[c].primary = Len(parts) + 2 * i
      BY <1>9, <2>2 DEF Seeds
    <3>2. PICK N, K : N = Len(chats) /\ K = Len(parts)
      OBVIOUS
    <3> PICK j : j = K + 2 * i
      OBVIOUS
    <3>3. /\ j \in DOMAIN parts' \ DOMAIN parts
          /\ parts'[j].chat = c /\ parts'[j].who = order[i]
      <4>1. Seeds(p, order, N, K)
        BY <1>9, <3>2
      <4>2. QED
        BY <3>1, <3>2, <4>1, SeededParts DEF SeededPart
    <3>4. ~parts'[j].removed /\ chats'[c].kind = "assistant"
      BY <1>9, <2>2, <3>3 DEF Seeds
    <3>5. order[i] \in Assistants
      BY <1>6, ElementOfSeq
    <3>6. j \in ActiveAssistants(c)' /\ chats'[c].primary = j
      BY <3>1, <3>2, <3>3, <3>4, <3>5 DEF ActiveAssistants, Active
    <3>7. QED
      BY <3>4, <3>6 DEF ChatOK
  <2>3. \A t \in Sessions : session'[t] # NULL =>
           /\ session'[t] = session[t]
           /\ session[t].op \in Membership => Same(session[t].chat)
    BY <1>11, <2>1 DEF IInv, SessionsOK, RequestOK
  <2>4. \A c \in DOMAIN chats' \ raced' : Same(c) \/ ChatOK(c)'
    BY <2>1, <2>2
  <2>5. QED
    BY <1>5, <2>3, <2>4, MembershipKept DEF IInv
<1>16. ASSUME NEW q \in Persons, NEW a, NEW c \in OpenInboxes(q, a)'
       PROVE  \/ c \in OpenInboxes(q, a)
              \/ q = p /\ \E i \in 1..Len(order) : c = Len(chats) + i /\ a = order[i]
  BY <1>6, <1>9, <1>16, SeededInboxes DEF IInv
<1>17. \A c \in DOMAIN chats' : chats'[c].seeded => chats'[c].kind = "assistant"
  BY <1>9, <1>12 DEF IInv, InboxesInv, Seeds
<1>18. ASSUME NEW j \in DOMAIN parts', chats'[parts'[j].chat].seeded, parts'[j].who \in Persons
       PROVE  j + 1 \in DOMAIN parts'
  <2>1. CASE j \in DOMAIN parts
    <3>1. parts'[j] = parts[j] /\ parts[j].chat \in DOMAIN chats
      BY <1>12, <2>1 DEF IInv, RefsOK
    <3>2. j + 1 \in DOMAIN parts
      BY <1>12, <1>18, <2>1, <3>1 DEF IInv, InboxesInv
    <3>3. QED
      BY <1>12, <3>2
  <2>2. CASE j \notin DOMAIN parts
    <3>1. PICK i \in 1..Len(order) : \/ j = Len(parts) + 2 * i - 1 /\ parts'[j].who = p
                                     \/ j = Len(parts) + 2 * i /\ parts'[j].who = order[i]
      BY <1>9, <2>2 DEF Seeds
    <3>2. order[i] \in Assistants
      BY <1>6, ElementOfSeq
    <3>3. j = Len(parts) + 2 * i - 1
      BY <1>18, <3>1, <3>2, ConversationsAssumption
    <3>4. DOMAIN parts' = 1..(Len(parts) + 2 * Len(order))
      BY <1>9 DEF Seeds
    <3>5. QED
      BY <1>6, <1>7, <3>3, <3>4
  <2>3. QED
    BY <2>1, <2>2
<1>19. ASSUME NEW t \in Sessions, session'[t] # NULL
       PROVE  ListOK(session[t])' /\ KindOK(session[t])'
  <2>1. PICK q : q = session'[t]
    OBVIOUS
  <2>2. t # s /\ q = session[t] /\ q # NULL /\ q \in Request /\ RequestOK(t, q)
    BY <1>11, <1>19, <2>1 DEF IInv, SessionsOK
  <2>3. ListOK(q) /\ KindOK(q)
    BY <2>2 DEF IInv, InboxesInv
  <2>4. q.op = "list" => q.who \in Persons
    BY <2>2 DEF Request, Listing, Invite, Remove, Posted, Running, InTurn
  <2>5. q.op = "list" /\ q.who \notin doubled' => q.who # p /\ q.who \notin doubled
    BY <1>5, <2>2
  <2>6. q.op = "list" /\ q.who \notin doubled' => \A a \in q.missing : OpenInboxes(q.who, a)' = {}
    BY <1>16, <2>3, <2>4, <2>5 DEF ListOK
  <2>7. q.op \in {"invite", "remove"} => q.chat \in DOMAIN chats
    BY <2>2 DEF RequestOK, Membership
  <2>8. KindOK(q)'
    BY <1>12, <2>3, <2>7 DEF KindOK
  <2>9. QED
    BY <2>1, <2>3, <2>6, <2>8 DEF ListOK, KindOK
<1>20. ASSUME NEW q \in Persons \ doubled', NEW a \in Inboxes,
              NEW c \in OpenInboxes(q, a)', NEW d \in OpenInboxes(q, a)'
       PROVE  c = d
  <2>1. q \notin doubled
    BY <1>13
  <2>2. \A e, f \in OpenInboxes(q, a) : e = f
    BY <2>1 DEF IInv, InboxesInv
  <2>3. ASSUME q = p, NEW i \in 1..Len(order), a = order[i]
        PROVE  OpenInboxes(q, a) = {}
    <3>1. ListOK(r) /\ a \in r.missing /\ q = r.who
      BY <1>1, <1>2, <1>3, <1>6, <2>3 DEF IInv, InboxesInv
    <3>2. QED
      BY <1>2, <2>1, <3>1 DEF ListOK
  <2>4. /\ \/ c \in OpenInboxes(q, a)
           \/ q = p /\ \E i \in 1..Len(order) : c = Len(chats) + i /\ a = order[i]
        /\ \/ d \in OpenInboxes(q, a)
           \/ q = p /\ \E i \in 1..Len(order) : d = Len(chats) + i /\ a = order[i]
    BY <1>16
  <2>5. QED
    BY <1>6, <2>2, <2>3, <2>4
<1>21. InboxesInv'
  BY <1>17, <1>18, <1>19, <1>20 DEF InboxesInv
<1>22. QED
  BY <1>14, <1>15, <1>21 DEF IInv
---------------------------------------------------------------------------
(* Every step, and what the invariant says                                 *)

\* No request and no death of the process breaks the invariant.
LEMMA Step ==
  ASSUME IInv, [Next]_vars
  PROVE  IInv'
<1>1. CASE \E p \in Persons : Creates(p)
  BY <1>1, ChatCreated DEF Creates
<1>2. ASSUME NEW s \in Sessions, NEW p \in Persons,
             \/ BeginList(s, p)
             \/ \E c \in DOMAIN chats :
                  \/ \E new \in Invitations : BeginInvite(s, p, c, new[1], new[2], new[3])
                  \/ \E i \in DOMAIN parts : BeginRemove(s, p, c, i)
                  \/ PostMessage(s, p, c)
      PROVE  IInv'
  <2>1. CASE BeginList(s, p)
    BY <2>1, ListBegun
  <2>2. ASSUME NEW c \in DOMAIN chats, NEW new \in Invitations,
               BeginInvite(s, p, c, new[1], new[2], new[3])
        PROVE  IInv'
    <3>1. new[1] \in Assistants /\ new[2] \in Modes /\ new[3] \in BOOLEAN
      BY InputsAssumption
    <3>2. QED
      BY <2>2, <3>1, InviteBegun
  <2>3. ASSUME NEW c \in DOMAIN chats, NEW i \in DOMAIN parts, BeginRemove(s, p, c, i)
        PROVE  IInv'
    BY <2>3, RemoveBegun
  <2>4. ASSUME NEW c \in DOMAIN chats, PostMessage(s, p, c)
        PROVE  IInv'
    BY <2>4, MessagePosted
  <2>5. QED
    BY <1>2, <2>1, <2>2, <2>3, <2>4
<1>3. ASSUME NEW s \in Sessions, CommitList(s) \/ CommitInvite(s) \/ CommitRemove(s) \/ Turn(s)
      PROVE  IInv'
  <2>1. CASE CommitList(s)
    BY <2>1, ListCommitted
  <2>2. CASE CommitInvite(s)
    BY <2>2, InviteCommitted
  <2>3. CASE CommitRemove(s)
    BY <2>3, RemoveCommitted
  <2>4. ASSUME NEW explicit \in Assistants \cup {NULL}, NEW mentioned \in SUBSET Assistants,
               NEW invoke \in BOOLEAN, NEW acts \in {"none", "running"},
               StartRun(s, explicit, mentioned, invoke, acts)
        PROVE  IInv'
    BY <2>4, RunStarted
  <2>5. CASE StartTurn(s)
    BY <2>5, TurnStarted
  <2>6. ASSUME NEW outcome \in {"completed", "failed"}, EndTurn(s, outcome)
        PROVE  IInv'
    BY <2>6, TurnEnded
  <2>7. QED
    BY <1>3, <2>1, <2>2, <2>3, <2>4, <2>5, <2>6 DEF Turn
<1>4. ASSUME NEW a \in Assistants, AnswerElsewhere(a)
      PROVE  IInv'
  BY <1>4, AnsweredElsewhere
<1>5. ASSUME NEW p \in Persons, NEW c \in DOMAIN chats,
             Summarize(p, c) \/ (\E m \in DOMAIN messages : Share(p, m, c)) \/ Convert(p, c)
      PROVE  IInv'
  <2>1. Summarize(p, c) \/ Convert(p, c)
    BY <1>5 DEF Share
  <2>2. QED
    BY <2>1, Summarized, Converted
<1>6. ASSUME NEW p \in Persons, NEW n \in DOMAIN proposals,
             NEW next \in {"confirmed", "committed", "canceled"}, MutateAction(p, n, next)
      PROVE  IInv'
  BY <1>6, Mutated
<1>7. CASE Restart
  BY <1>7, Restarted
<1>8. CASE UNCHANGED vars
  <2>1. /\ UNCHANGED <<chats, parts, messages, runs, proposals, session, loop, chatter>>
        /\ UNCHANGED <<orphans, raced, doubled>>
    BY <1>8 DEF vars, rows, history
  <2>2. Grown /\ 0 \notin DOMAIN runs
    BY <2>1, Bounds DEF IInv, Grown
  <2>3. TablesOK' /\ RefsOK' /\ RepliesInv'
    BY <2>1 DEF IInv, TablesOK, RefsOK, RepliesInv, IsPart
  <2>4. SessionsOK'
    BY <2>1, <2>2, SessionsSame DEF IInv, SessionsOK
  <2>5. TurnsInv'
    BY <2>1, <2>2, TurnsKept DEF IInv, Handles
  <2>6. InboxesInv' /\ MembershipInv'
    BY <2>1, InboxesRead, MembershipRead DEF IInv
  <2>7. QED
    BY <2>3, <2>4, <2>5, <2>6 DEF IInv
<1>9. QED
  BY <1>1, <1>2, <1>3, <1>4, <1>5, <1>6, <1>7, <1>8 DEF Next

\* What the properties of Conversations ask for.
LEMMA Kept ==
  ASSUME IInv
  PROVE  ConversationsHold
<1>1. TypeOK
  BY Bounds, LenProperties, ElementOfSeq DEF IInv, TypeOK, SessionsOK, TablesOK
<1>2. TurnsSettled
  <2> SUFFICES ASSUME NEW r \in DOMAIN runs
               PROVE  IF runs[r].status = "running"
                      THEN /\ Replies(r) = {} /\ runs[r].acts \in {"none", "running"}
                           /\ Cardinality(Handling(r)) = 1 \/ r \in orphans
                      ELSE /\ Cardinality(Replies(r)) = 1
                           /\ \A m \in Replies(r) : /\ m > runs[r].trigger
                                                    /\ messages[m].chat = runs[r].chat
                           /\ runs[r].acts \in {"none", runs[r].status}
                           /\ Handling(r) = {}
    BY DEF TurnsSettled
  <2>1. RunOK(r)
    BY DEF IInv, TurnsInv
  <2>2. CASE runs[r].status = "running"
    <3>1. Replies(r) = {} /\ runs[r].acts \in {"none", "running"}
      BY <2>1, <2>2 DEF RunOK, Replies
    <3>2. ASSUME NEW s \in Sessions, Handles(s, r)
          PROVE  Cardinality(Handling(r)) = 1
      <4>1. Handling(r) = {s}
        BY <3>2 DEF IInv, TurnsInv, Handles, Handling
      <4>2. QED
        BY <4>1, FS_Singleton
    <3>3. QED
      BY <2>1, <2>2, <3>1, <3>2 DEF RunOK
  <2>3. CASE runs[r].status # "running"
    <3>1. PICK m \in DOMAIN messages : /\ messages[m].run = r
                                       /\ m > runs[r].trigger
                                       /\ messages[m].chat = runs[r].chat
                                       /\ \A n \in DOMAIN messages : messages[n].run = r => n = m
      BY <2>1, <2>3 DEF RunOK
    <3>2. Replies(r) = {m}
      BY <3>1 DEF Replies
    <3>3. Cardinality(Replies(r)) = 1
      BY <3>2, FS_Singleton
    <3>4. Handling(r) = {}
      BY <2>3 DEF IInv, SessionsOK, RequestOK, Handling
    <3>5. runs[r].acts \in {"none", runs[r].status}
      BY <2>1, <2>3 DEF RunOK
    <3>6. QED
      BY <2>3, <3>1, <3>2, <3>3, <3>4, <3>5
  <2>4. QED
    BY <2>2, <2>3
<1>3. TurnsSerial
  BY DEF TurnsSerial, IInv, SessionsOK, RequestOK
<1>4. RepliesByMember
  BY DEF RepliesByMember, IInv, RepliesInv, IsPart
<1>5. InboxesSeededOnce
  <2> SUFFICES ASSUME NEW p \in Persons \ doubled, NEW a \in Inboxes
               PROVE  Cardinality(OpenInboxes(p, a)) <= 1
    BY DEF InboxesSeededOnce
  <2>1. \A c, d \in OpenInboxes(p, a) : c = d
    BY DEF IInv, InboxesInv
  <2>2. CASE OpenInboxes(p, a) = {}
    BY <2>2, FS_EmptySet
  <2>3. ASSUME NEW c \in OpenInboxes(p, a)
        PROVE  Cardinality(OpenInboxes(p, a)) <= 1
    <3>1. OpenInboxes(p, a) = {c}
      BY <2>1, <2>3
    <3>2. Cardinality(OpenInboxes(p, a)) = 1
      BY <3>1, FS_Singleton
    <3>3. QED
      BY <3>2
  <2>4. QED
    BY <2>2, <2>3
<1>6. MembershipConsistent
  BY DEF MembershipConsistent, IInv, MembershipInv, ChatOK
<1>7. QED
  BY <1>1, <1>2, <1>3, <1>4, <1>5, <1>6 DEF ConversationsHold

\* What the conversation workspace promises holds however requests overlap and whenever
\* the process dies: runs are settled by one reply, turns are serial, who speaks takes
\* part, and private chats and memberships are right but for the overlaps the code does
\* not exclude (create_message, list_conversations, invite_assistant, remove_participant).
THEOREM ConversationsKept == Spec => []ConversationsHold
<1>1. Init => IInv
  BY Begin
<1>2. IInv /\ [Next]_vars => IInv'
  BY Step
<1>3. IInv => ConversationsHold
  BY Kept
<1>4. QED
  BY <1>1, <1>2, <1>3, PTL DEF Spec

---------------------------------------------------------------------------
(* The education service                                                   *)

\* The records a row of totals counts, and how many they are.
Of(recs, sc) ==
  {i \in DOMAIN recs : recs[i].scope = sc \/ (sc = "all" /\ recs[i].class = "tracked")}
Size(recs, sc) == Cardinality(Of(recs, sc))

\* Rows of totals, some of them, with what they count.
Counts == UNION {[D -> 0..MaxRecords + 1] : D \in SUBSET Schools!Rows}
Was    == UNION {[D -> 0..MaxRecords \cup {NULL}] : D \in SUBSET Schools!Rows}

\* A writing transaction, and a publication of events.
Writing ==
  [op : {"write"}, record : 0..MaxRecords, class : Schools!Classes,
   scope : Schools!Rows, logs : BOOLEAN, key : Keys \cup {NULL},
   counts : Counts, was : Was, overtaken : BOOLEAN]
Publication ==
  [op : {"publish"}, todo : SUBSET (1..MaxEvents), marks : Seq((1..MaxEvents) \X Schools!Status)]

\* The record that transaction r adds, and the scope its record leaves.
Adds(r)      == IF r.record = 0 /\ r.class # "plain" THEN 1 ELSE 0
Old(r, recs) == IF r.record = 0 THEN {} ELSE {recs[r.record].scope}

\* The records after record i moved to scope b.
Moved(recs, i, b) == [recs EXCEPT ![i].scope = b]

\* The records after r, and how many of them count in scope sc.
New(r, recs) ==
  IF r.record = 0 /\ r.class # "plain" THEN Append(recs, [class |-> r.class, scope |-> r.scope])
  ELSE IF r.record = 0 THEN recs ELSE Moved(recs, r.record, r.scope)
Will(r, sc, recs) ==
  IF r.record = 0 THEN Size(recs, sc) + Adds(r)
  ELSE Cardinality((Of(recs, sc) \ {r.record})
                   \cup (IF sc \in {"all", r.scope} THEN {r.record} ELSE {}))

\* The classes of the records a route changes.
Movable == {"tracked", "journal"}

\* What transaction r of actor s writes belongs together.
Fits(s, r, recs) ==
  /\ DOMAIN r.was = DOMAIN r.counts /\ DOMAIN r.counts \subseteq Schools!Rows
  /\ \A sc \in DOMAIN r.counts : r.counts[sc] \in Nat /\ r.counts[sc] <= Len(recs) + Adds(r)
  /\ r.record # 0 =>
       r.record \in DOMAIN recs /\ r.class \in Movable /\ recs[r.record].class = r.class
  /\ r.class = "tracked" => /\ r.scope \in Scopes /\ {"all", r.scope} \subseteq DOMAIN r.counts
                            /\ r.record = 0 => DOMAIN r.counts = {"all", r.scope}
  /\ r.class = "journal" => r.scope = "all" /\ DOMAIN r.counts = {"all"}
  /\ r.class = "quiz" => r.scope = "quiz" /\ DOMAIN r.counts = {"quiz"}
  /\ r.class = "plain" => DOMAIN r.counts = IF s = Worker THEN {"all"} ELSE {}
  /\ s = Worker => r.class = "plain"

\* A transaction that nothing overtook read the rows as they are.
Right(r, recs, snaps) ==
  /\ Old(r, recs) \subseteq DOMAIN r.counts
  /\ \A sc \in DOMAIN r.counts : r.counts[sc] = Will(r, sc, recs) /\ r.was[sc] = snaps[sc]

WriteOK(s, r, recs, snaps) ==
  r # NULL /\ r.op = "write" => Fits(s, r, recs) /\ (~r.overtaken => Right(r, recs, snaps))

\* What a publication is to mark as published the broker has taken.
Marked(r, evs, got) ==
  r # NULL /\ r.op = "publish" =>
    /\ r.todo \subseteq DOMAIN evs
    /\ \A k \in DOMAIN r.marks : r.marks[k][2] = "published" => r.marks[k][1] \in got

TotalsOK(recs, snaps, races) ==
  \A sc \in Schools!Rows \ races : snaps[sc] # NULL => snaps[sc] = Size(recs, sc)

EduTypes ==
  /\ records \in Seq(Schools!Record) /\ Len(records) <= MaxRecords
  /\ keys \subseteq Keys /\ effects \in [Keys -> Nat]
  /\ snapshots \in [Schools!Rows -> 0..MaxRecords \cup {NULL}]
  /\ events \in Seq(Schools!Status) /\ Len(events) <= MaxEvents /\ sent \subseteq DOMAIN events
  /\ request \in [Schools!Actors -> Writing \cup Publication \cup {NULL}]
  /\ overtaken \subseteq Schools!Rows
  /\ failures \in 0..MaxFailures /\ crashes \in 0..MaxCrashes

EduInv ==
  /\ EduTypes
  /\ \A k \in Keys : effects[k] = IF k \in keys THEN 1 ELSE 0
  /\ TotalsOK(records, snapshots, overtaken)
  /\ \A e \in DOMAIN events : events[e] = "published" => e \in sent
  /\ \A s \in Schools!Actors : WriteOK(s, request[s], records, snapshots)
  /\ \A s \in Schools!Actors : Marked(request[s], events, sent)

\* The bounds are numbers, NULL is none; the worker makes no requests, and a scope is
\* neither all of them nor the quiz.
LEMMA SchoolFacts ==
  /\ MaxRecords \in Nat /\ MaxEvents \in Nat /\ MaxFailures \in Nat /\ MaxCrashes \in Nat
  /\ NULL \notin Nat /\ Worker \notin Sessions /\ "all" \notin Scopes /\ "quiz" \notin Scopes
  /\ Schools!Rows = Scopes \cup {"all", "quiz"}
  /\ Schools!Actors = Sessions \cup {Worker}
BY SchoolsAssumption DEF Schools!EducationAssumption, Schools!Rows, Schools!Actors

\* The counts of the module are the counts here.
LEMMA CountedIs ==
  ASSUME NEW sc
  PROVE  Schools!Counted(sc) = Of(records, sc)
BY DEF Schools!Counted, Of

\* The cardinality of the module is the cardinality here.
LEMMA SchoolSize ==
  ASSUME NEW S
  PROVE  Schools!Cardinality(S) = Cardinality(S)
BY DEF Schools!Cardinality, Cardinality

\* The first n numbers are n.
LEMMA UpTo ==
  ASSUME NEW n \in Nat
  PROVE  IsFiniteSet(1..n) /\ Cardinality(1..n) = n
BY FS_Interval

\* No more records count than there are.
LEMMA OfFinite ==
  ASSUME NEW recs \in Seq(Schools!Record), NEW sc
  PROVE  /\ Of(recs, sc) \subseteq 1..Len(recs) /\ IsFiniteSet(Of(recs, sc))
         /\ Size(recs, sc) \in Nat /\ Size(recs, sc) <= Len(recs)
<1>1. Len(recs) \in Nat /\ DOMAIN recs = 1..Len(recs)
  OBVIOUS
<1>2. Of(recs, sc) \subseteq 1..Len(recs)
  BY <1>1 DEF Of
<1>3. IsFiniteSet(1..Len(recs)) /\ Cardinality(1..Len(recs)) = Len(recs)
  <2>1. PICK n : n = Len(recs)
    OBVIOUS
  <2>2. n \in Nat
    BY <1>1, <2>1
  <2>3. IsFiniteSet(1..n) /\ Cardinality(1..n) = n
    BY <2>2, UpTo
  <2> QED
    BY <2>1, <2>3
<1>4. IsFiniteSet(Of(recs, sc)) /\ Cardinality(Of(recs, sc)) <= Cardinality(1..Len(recs))
  BY <1>2, <1>3, FS_Subset
<1>5. Cardinality(Of(recs, sc)) \in Nat
  BY <1>4, FS_CardinalityType
<1> QED
  BY <1>2, <1>3, <1>4, <1>5 DEF Size

\* A record more counts in its scope, and in all of them if it is tracked.
LEMMA AppendSize ==
  ASSUME NEW recs \in Seq(Schools!Record), NEW x \in Schools!Record, NEW sc
  PROVE  Size(Append(recs, x), sc) =
           Size(recs, sc) + IF x.scope = sc \/ (sc = "all" /\ x.class = "tracked") THEN 1 ELSE 0
<1>1. PICK n, more : n = Len(recs) + 1 /\ more = Append(recs, x)
  OBVIOUS
<1>2. /\ n \in Nat \ {0} /\ DOMAIN recs = 1..n - 1 /\ DOMAIN more = 1..n
      /\ more[n] = x /\ \A i \in 1..n - 1 : more[i] = recs[i]
  BY <1>1
<1>3. Of(recs, sc) \subseteq 1..n - 1 /\ IsFiniteSet(Of(recs, sc)) /\ Size(recs, sc) \in Nat
  BY <1>1, OfFinite
<1>4. CASE x.scope = sc \/ (sc = "all" /\ x.class = "tracked")
  <2>1. Of(more, sc) = Of(recs, sc) \cup {n}
    <3>1. \A i \in 1..n - 1 : (i \in Of(more, sc)) = (i \in Of(recs, sc))
      BY <1>2 DEF Of
    <3>2. n \in Of(more, sc) /\ Of(more, sc) \subseteq (1..n - 1) \cup {n}
      BY <1>2, <1>4 DEF Of
    <3> QED
      BY <3>1, <3>2, <1>3
  <2>2. n \notin Of(recs, sc)
    BY <1>2, <1>3
  <2>3. Cardinality(Of(more, sc)) = Cardinality(Of(recs, sc)) + 1
    BY <2>1, <2>2, <1>3, FS_AddElement
  <2> QED
    BY <2>3, <1>1, <1>4 DEF Size
<1>5. CASE ~(x.scope = sc \/ (sc = "all" /\ x.class = "tracked"))
  <2>1. Of(more, sc) = Of(recs, sc)
    BY <1>2, <1>5 DEF Of
  <2> QED
    BY <2>1, <1>1, <1>3, <1>5 DEF Size
<1> QED
  BY <1>4, <1>5

\* A record that moves counts in the scope it moves to, and in all as before.
LEMMA MoveOf ==
  ASSUME NEW recs \in Seq(Schools!Record), NEW i \in DOMAIN recs, NEW b,
         \/ recs[i].class = "tracked" /\ b \in Scopes
         \/ recs[i].class = "journal" /\ b = "all"
  PROVE  /\ Moved(recs, i, b) \in Seq(Schools!Record) /\ Len(Moved(recs, i, b)) = Len(recs)
         /\ \A j \in DOMAIN recs : Moved(recs, i, b)[j].class = recs[j].class
         /\ \A sc : Of(Moved(recs, i, b), sc) =
              (Of(recs, sc) \ {i}) \cup (IF sc \in {"all", b} THEN {i} ELSE {})
         /\ \A sc : sc \notin {b, recs[i].scope} => Of(Moved(recs, i, b), sc) = Of(recs, sc)
<1>0. PICK moved : moved = Moved(recs, i, b)
  OBVIOUS
<1>1. PICK x : x = [recs[i] EXCEPT !.scope = b]
  OBVIOUS
<1>2. /\ recs[i] \in Schools!Record
      /\ \/ recs[i] \in [class : {"tracked"}, scope : Scopes] /\ b \in Scopes
         \/ recs[i] \in [class : {"journal"}, scope : {"all"}] /\ b = "all"
  <2>1. recs[i] \in Schools!Record
    OBVIOUS
  <2>2. "tracked" # "quiz" /\ "tracked" # "journal" /\ "journal" # "quiz"
    OBVIOUS
  <2> QED
    BY <2>1, <2>2 DEF Schools!Record
<1>3. /\ x \in Schools!Record /\ x.scope = b /\ x.class = recs[i].class
      /\ b = "all" \/ x.class = "tracked"
      /\ b = "all" => recs[i].scope = "all"
      /\ recs[i].class = "tracked" \/ recs[i].scope = b
  <2>1. CASE recs[i] \in [class : {"tracked"}, scope : Scopes] /\ b \in Scopes
    <3>1. x \in [class : {"tracked"}, scope : Scopes] /\ x.scope = b /\ x.class = "tracked"
      BY <2>1, <1>1
    <3> QED
      BY <2>1, <3>1, SchoolFacts DEF Schools!Record
  <2>2. CASE recs[i] \in [class : {"journal"}, scope : {"all"}] /\ b = "all"
    <3>1. x \in [class : {"journal"}, scope : {"all"}] /\ x.scope = b /\ x.class = "journal"
      BY <2>2, <1>1
    <3> QED
      BY <2>2, <3>1 DEF Schools!Record
  <2> QED
    BY <2>1, <2>2, <1>2
<1>4. x \in Schools!Record
  BY <1>3
<1>5. moved = [recs EXCEPT ![i] = x]
  BY <1>0, <1>1 DEF Moved
<1>6. /\ moved \in Seq(Schools!Record) /\ Len(moved) = Len(recs) /\ DOMAIN moved = DOMAIN recs
      /\ moved[i] = x /\ \A j \in DOMAIN recs : j # i => moved[j] = recs[j]
  BY <1>4, <1>5
<1>7. \A j \in DOMAIN recs : moved[j].class = recs[j].class
  BY <1>3, <1>6
<1>9. ASSUME NEW sc
      PROVE  Of(moved, sc) = (Of(recs, sc) \ {i}) \cup (IF sc \in {"all", b} THEN {i} ELSE {})
  <2>1. \A j \in DOMAIN recs : j # i => (j \in Of(moved, sc)) = (j \in Of(recs, sc))
    BY <1>6 DEF Of
  <2>2. (i \in Of(moved, sc)) = (sc \in {"all", b})
    BY <1>3, <1>6 DEF Of
  <2>3. Of(moved, sc) \subseteq DOMAIN recs /\ Of(recs, sc) \subseteq DOMAIN recs
    BY <1>6 DEF Of
  <2> QED
    BY <2>1, <2>2, <2>3
<1>10. ASSUME NEW sc, sc \notin {b, recs[i].scope}
       PROVE  Of(moved, sc) = Of(recs, sc)
  BY <1>3, <1>6, <1>10 DEF Of
<1> QED
  BY <1>0, <1>6, <1>7, <1>9, <1>10

\* What the counts and the snapshots of a transaction are.
LEMMA PartialOK ==
  ASSUME NEW f \in Counts, NEW g \in Was
  PROVE  /\ DOMAIN f \subseteq Schools!Rows /\ DOMAIN g \subseteq Schools!Rows
         /\ \A sc \in DOMAIN f : f[sc] \in 0..MaxRecords + 1
BY DEF Counts, Was

\* The records after a transaction: those that were there stay, with their class, and each
\* row of totals counts what the transaction makes of it, or what it did.
LEMMA Landed ==
  ASSUME NEW recs \in Seq(Schools!Record), NEW s, NEW r \in Writing, Fits(s, r, recs)
  PROVE  /\ New(r, recs) \in Seq(Schools!Record)
         /\ Adds(r) \in {0, 1} /\ Len(New(r, recs)) = Len(recs) + Adds(r)
         /\ DOMAIN recs \subseteq DOMAIN New(r, recs)
         /\ \A j \in DOMAIN recs : New(r, recs)[j].class = recs[j].class
         /\ \A sc \in DOMAIN r.counts : Size(New(r, recs), sc) = Will(r, sc, recs)
         /\ \A sc : sc \notin DOMAIN r.counts \cup Old(r, recs) =>
              Size(New(r, recs), sc) = Size(recs, sc)
<1>1. r.class \in {"tracked", "journal", "plain", "quiz"} /\ Adds(r) \in {0, 1}
  BY DEF Writing, Schools!Classes, Adds
<1>2. CASE r.record = 0 /\ r.class # "plain"
  <2>1. PICK x, new : x = [class |-> r.class, scope |-> r.scope] /\ new = Append(recs, x)
    OBVIOUS
  <2>2. x \in Schools!Record /\ x.class = r.class /\ x.scope = r.scope
    BY <1>1, <1>2, <2>1 DEF Fits, Schools!Record
  <2>3. New(r, recs) = new /\ Adds(r) = 1 /\ Old(r, recs) = {}
    BY <1>2, <2>1 DEF New, Adds, Old
  <2>4. /\ new \in Seq(Schools!Record) /\ Len(new) = Len(recs) + 1
        /\ DOMAIN recs \subseteq DOMAIN new /\ \A j \in DOMAIN recs : new[j] = recs[j]
    BY <2>1, <2>2
  <2>5. \A sc : (x.scope = sc \/ (sc = "all" /\ x.class = "tracked")) = (sc \in DOMAIN r.counts)
    <3>1. CASE r.class = "tracked"
      BY <3>1, <1>2, <2>2 DEF Fits
    <3>2. CASE r.class = "quiz" \/ r.class = "journal"
      BY <3>2, <1>2, <2>2 DEF Fits
    <3> QED
      BY <3>1, <3>2, <1>1, <1>2
  <2>6. \A sc : Size(new, sc) = Size(recs, sc) + IF sc \in DOMAIN r.counts THEN 1 ELSE 0
    BY <2>1, <2>2, <2>5, AppendSize
  <2>7. \A sc \in DOMAIN r.counts : Size(new, sc) = Will(r, sc, recs)
    BY <1>2, <2>3, <2>6 DEF Will
  <2>8. \A sc : sc \notin DOMAIN r.counts => Size(new, sc) = Size(recs, sc)
    BY <2>6, OfFinite
  <2> QED
    BY <1>1, <2>3, <2>4, <2>7, <2>8
<1>3. CASE r.record = 0 /\ r.class = "plain"
  <2>1. New(r, recs) = recs /\ Adds(r) = 0
    BY <1>3 DEF New, Adds
  <2>2. \A sc : Will(r, sc, recs) = Size(recs, sc)
    BY <1>3, <2>1, OfFinite DEF Will
  <2>3. Len(recs) \in Nat
    OBVIOUS
  <2> QED
    BY <2>1, <2>2, <2>3
<1>4. CASE r.record # 0
  <2>1. PICK i, moved : i = r.record /\ moved = Moved(recs, i, r.scope)
    OBVIOUS
  <2>2. /\ i \in DOMAIN recs /\ {"all", r.scope} \subseteq DOMAIN r.counts
        /\ \/ recs[i].class = "tracked" /\ r.scope \in Scopes
           \/ recs[i].class = "journal" /\ r.scope = "all"
    BY <1>4, <2>1 DEF Fits, Movable
  <2>3. New(r, recs) = moved /\ Adds(r) = 0 /\ Old(r, recs) = {recs[i].scope}
    BY <1>4, <2>1 DEF New, Adds, Old
  <2>4. /\ moved \in Seq(Schools!Record) /\ Len(moved) = Len(recs)
        /\ \A j \in DOMAIN recs : moved[j].class = recs[j].class
        /\ \A sc : Of(moved, sc) =
             (Of(recs, sc) \ {i}) \cup (IF sc \in {"all", r.scope} THEN {i} ELSE {})
        /\ \A sc : sc \notin {r.scope, recs[i].scope} => Of(moved, sc) = Of(recs, sc)
    BY <2>1, <2>2, MoveOf
  <2>5. \A sc \in DOMAIN r.counts : Size(moved, sc) = Will(r, sc, recs)
    BY <1>4, <2>1, <2>4 DEF Will, Size
  <2>6. \A sc : sc \notin DOMAIN r.counts \cup Old(r, recs) => Size(moved, sc) = Size(recs, sc)
    BY <2>2, <2>3, <2>4 DEF Size
  <2>7. DOMAIN moved = DOMAIN recs /\ Len(recs) \in Nat
    BY <2>4
  <2> QED
    BY <1>1, <2>3, <2>4, <2>5, <2>6, <2>7
<1> QED
  BY <1>1, <1>2, <1>3, <1>4

\* A transaction that fits the records fits them after others committed.
LEMMA FitsLater ==
  ASSUME NEW recs \in Seq(Schools!Record), NEW more \in Seq(Schools!Record), NEW s,
         NEW r \in Writing, NEW q \in Writing, Fits(s, r, recs),
         q.record = r.record, q.class = r.class, q.scope = r.scope, q.counts = r.counts,
         q.was = r.was,
         Len(recs) <= Len(more), DOMAIN recs \subseteq DOMAIN more,
         \A j \in DOMAIN recs : more[j].class = recs[j].class
  PROVE  Fits(s, q, more)
<1>1. Adds(q) = Adds(r) /\ Adds(r) \in Nat
  BY DEF Adds
<1>2. Len(recs) \in Nat /\ Len(more) \in Nat
  OBVIOUS
<1>3. \A sc \in DOMAIN q.counts : q.counts[sc] \in Nat /\ q.counts[sc] <= Len(more) + Adds(q)
  BY <1>1, <1>2 DEF Fits
<1>4. q.record # 0 =>
        q.record \in DOMAIN more /\ q.class \in Movable /\ more[q.record].class = q.class
  BY DEF Fits
<1> QED
  BY <1>3, <1>4 DEF Fits

\* What a transaction writes: its counts where they are not what it read.
LEMMA WrittenOK ==
  ASSUME EduInv, NEW s \in Schools!Actors, NEW r \in Writing, Fits(s, r, records),
         ~r.overtaken => Right(r, records, snapshots),
         Len(records) + Adds(r) <= MaxRecords,
         snapshots' = Schools!Written(r), records' = New(r, records),
         overtaken' = IF r.overtaken
                      THEN overtaken \cup DOMAIN r.counts
                           \cup (IF DOMAIN r.counts = {} THEN {} ELSE Old(r, records))
                      ELSE overtaken \ DOMAIN r.counts
  PROVE  /\ snapshots' \in [Schools!Rows -> 0..MaxRecords \cup {NULL}]
         /\ TotalsOK(records', snapshots', overtaken')
<1>1. /\ records \in Seq(Schools!Record) /\ overtaken \subseteq Schools!Rows
      /\ snapshots \in [Schools!Rows -> 0..MaxRecords \cup {NULL}]
      /\ TotalsOK(records, snapshots, overtaken)
  BY DEF EduInv, EduTypes
<1>2. snapshots' = [sc \in Schools!Rows |->
                      IF sc \in DOMAIN r.was /\ r.counts[sc] # r.was[sc] THEN r.counts[sc]
                      ELSE snapshots[sc]]
  BY <1>1 DEF Schools!Written
<1>3. DOMAIN r.was = DOMAIN r.counts /\ DOMAIN r.counts \subseteq Schools!Rows
  BY DEF Fits
<1>4. \A sc \in DOMAIN r.counts : r.counts[sc] \in 0..MaxRecords
  <2>1. MaxRecords \in Nat /\ Len(records) \in Nat /\ Adds(r) \in Nat
    BY SchoolFacts, <1>1 DEF Adds
  <2> QED
    BY <2>1 DEF Fits
<1>5. snapshots' \in [Schools!Rows -> 0..MaxRecords \cup {NULL}]
  BY <1>1, <1>2, <1>3, <1>4
<1>6. DOMAIN r.counts = {} => Old(r, records) = {}
  BY DEF Fits, Old, Movable
<1>7. \A sc : sc \notin DOMAIN r.counts \cup Old(r, records) =>
        Size(records', sc) = Size(records, sc)
  BY <1>1, Landed
<1>8. ASSUME NEW sc \in Schools!Rows \ overtaken', snapshots'[sc] # NULL
      PROVE  snapshots'[sc] = Size(records', sc)
  <2>1. CASE sc \notin DOMAIN r.counts
    <3>1. snapshots'[sc] = snapshots[sc] /\ sc \notin overtaken
      BY <2>1, <1>2, <1>3, <1>8
    <3>2. sc \notin Old(r, records)
      BY <2>1, <1>6, <1>8 DEF Right
    <3>3. Size(records', sc) = Size(records, sc)
      BY <2>1, <3>2, <1>7
    <3> QED
      BY <3>1, <3>3, <1>1, <1>8 DEF TotalsOK
  <2>2. CASE sc \in DOMAIN r.counts
    <3>1. ~r.overtaken
      BY <2>2, <1>8
    <3>2. r.counts[sc] = Will(r, sc, records) /\ r.was[sc] = snapshots[sc]
      BY <2>2, <3>1 DEF Right
    <3>3. snapshots'[sc] = r.counts[sc]
      BY <2>2, <3>2, <1>2, <1>3
    <3>4. Size(records', sc) = Will(r, sc, records)
      BY <2>2, <1>1, Landed
    <3> QED
      BY <3>2, <3>3, <3>4
  <2> QED
    BY <2>1, <2>2
<1> QED
  BY <1>5, <1>8 DEF TotalsOK

\* A writing request of the invariant, and any other.
LEMMA RequestKinds ==
  ASSUME EduInv, NEW s \in Schools!Actors, request[s] # NULL
  PROVE  /\ request[s].op = "write" => /\ request[s] \in Writing
                                       /\ Fits(s, request[s], records)
                                       /\ ~request[s].overtaken => Right(request[s], records, snapshots)
         /\ request[s].op = "publish" => /\ request[s] \in Publication
                                         /\ Marked(request[s], events, sent)
<1>1. request[s] \in Writing \cup Publication
  BY DEF EduInv, EduTypes
<1>2. request[s] \in Writing => request[s].op = "write"
  BY DEF Writing
<1>3. request[s] \in Publication => request[s].op = "publish"
  BY DEF Publication
<1>4. WriteOK(s, request[s], records, snapshots) /\ Marked(request[s], events, sent)
  BY DEF EduInv
<1> QED
  BY <1>1, <1>2, <1>3, <1>4 DEF WriteOK

\* One actor's transaction begins or ends, and nothing else happens.
LEMMA RequestSet ==
  ASSUME EduInv, NEW s \in Schools!Actors, NEW q \in Writing \cup Publication \cup {NULL},
         WriteOK(s, q, records, snapshots), Marked(q, events, sent),
         request' = [request EXCEPT ![s] = q], crashes' \in 0..MaxCrashes,
         UNCHANGED <<records, keys, effects, snapshots, events, sent, overtaken, failures>>
  PROVE  EduInv'
<1>1. /\ request' \in [Schools!Actors -> Writing \cup Publication \cup {NULL}]
      /\ request'[s] = q /\ \A t \in Schools!Actors : t # s => request'[t] = request[t]
  BY DEF EduInv, EduTypes
<1>2. EduTypes'
  BY <1>1 DEF EduInv, EduTypes
<1>3. \A t \in Schools!Actors : WriteOK(t, request'[t], records, snapshots)
  BY <1>1 DEF EduInv
<1>4. \A t \in Schools!Actors : Marked(request'[t], events, sent)
  BY <1>1 DEF EduInv
<1> QED
  BY <1>2, <1>3, <1>4 DEF EduInv

\* The count of scope sc that a route computes for transaction r.
Would(r, sc) ==
  Schools!CountWith(sc, IF r.record = 0 THEN MaxRecords + 1 ELSE r.record, r.class, r.scope)

\* Transaction r adds a record of a class that counts in scope sc, or changes one.
Counting(r, sc) ==
  /\ r.class \in {"tracked", "journal", "quiz"}
  /\ \/ r.record = 0 /\ sc \in Schools!Refreshes(r.class, r.scope, r.scope)
     \/ r.record \in DOMAIN records /\ r.class = "tracked"
     \/ r.record \in DOMAIN records /\ r.class = "journal" /\ r.scope = "all"

\* The count a route computes when it begins is that of what it is to write.
LEMMA CountIsRight ==
  ASSUME EduInv, NEW r, NEW sc, Counting(r, sc)
  PROVE  /\ Would(r, sc) = Will(r, sc, records)
         /\ Would(r, sc) \in Nat /\ Would(r, sc) <= Len(records) + Adds(r)
<1>0. /\ r.class \in {"tracked", "journal", "quiz"}
      /\ \/ r.record = 0 /\ sc \in Schools!Refreshes(r.class, r.scope, r.scope)
         \/ r.record \in DOMAIN records /\ r.class = "tracked"
         \/ r.record \in DOMAIN records /\ r.class = "journal" /\ r.scope = "all"
  BY DEF Counting
<1>1. records \in Seq(Schools!Record) /\ Len(records) \in Nat /\ Len(records) <= MaxRecords
  BY DEF EduInv, EduTypes
<1>2. PICK here : here = Of(records, sc)
  OBVIOUS
<1>3. /\ here \subseteq 1..Len(records) /\ IsFiniteSet(here)
      /\ Cardinality(here) \in Nat /\ Cardinality(here) <= Len(records)
  BY <1>1, <1>2, OfFinite DEF Size
<1>4. PICK n, j, i, class, b :
        n = Would(r, sc) /\ j = (IF r.record = 0 THEN MaxRecords + 1 ELSE r.record) /\ i = r.record /\ class = r.class /\ b = r.scope
  OBVIOUS
<1>5. n = Cardinality((here \ {j}) \cup (IF sc \in Schools!Refreshes(class, b, b) THEN {j} ELSE {}))
  BY <1>2, <1>4, CountedIs, SchoolSize DEF Would, Schools!CountWith
<1>6. ASSUME i = 0
      PROVE  n = Will(r, sc, records) /\ n \in Nat /\ n <= Len(records) + Adds(r)
  <2>1. j \notin here /\ Adds(r) = 1 /\ sc \in Schools!Refreshes(class, b, b)
    BY <1>1, <1>3, <1>4, <1>6, <1>0, SchoolFacts DEF Adds
  <2>2. (here \ {j}) \cup {j} = here \cup {j}
    OBVIOUS
  <2>3. Cardinality(here \cup {j}) = Cardinality(here) + 1
    BY <2>1, <1>3, FS_AddElement
  <2>4. n = Cardinality(here) + 1
    BY <2>1, <2>2, <2>3, <1>5
  <2> QED
    BY <2>1, <2>4, <1>1, <1>2, <1>3, <1>4, <1>6 DEF Will, Size
<1>7. ASSUME i # 0
      PROVE  n = Will(r, sc, records) /\ n \in Nat /\ n <= Len(records) + Adds(r)
  <2>1. /\ i \in DOMAIN records /\ j = i /\ Adds(r) = 0
        /\ class = "tracked" \/ (class = "journal" /\ b = "all")
    BY <1>0, <1>4, <1>7 DEF Adds
  <2>2. Schools!Refreshes(class, b, b) = {"all", b}
    BY <2>1 DEF Schools!Refreshes
  <2>3. PICK there : there = (here \ {i}) \cup (IF sc \in {"all", b} THEN {i} ELSE {})
    OBVIOUS
  <2>4. n = Cardinality(there)
    BY <2>1, <2>2, <2>3, <1>5
  <2>5. Will(r, sc, records) = Cardinality(there)
    BY <2>3, <1>2, <1>4, <1>7 DEF Will
  <2>6. PICK m : m = Len(records)
    OBVIOUS
  <2>7. m \in Nat /\ i \in 1..m /\ here \subseteq 1..m
    BY <2>1, <2>6, <1>1, <1>3
  <2>8. there \subseteq 1..m
    BY <2>3, <2>7
  <2>9. IsFiniteSet(1..m) /\ Cardinality(1..m) = m
    BY <2>7, UpTo
  <2>10. Cardinality(there) \in Nat /\ Cardinality(there) <= m
    BY <2>8, <2>9, FS_Subset, FS_CardinalityType
  <2> QED
    BY <2>1, <2>4, <2>5, <2>6, <2>10, <1>1
<1> QED
  BY <1>4, <1>6, <1>7

\* A route begins: what it is to write belongs together and is right.
LEMMA BeginStep ==
  ASSUME EduInv, NEW s \in Sessions, NEW i, NEW class, NEW a, NEW b, NEW logs \in BOOLEAN,
         NEW key \in Keys \cup {NULL}, Schools!Begin(s, i, class, a, b, logs, key),
         \/ i = 0 /\ class = "tracked" /\ a = b /\ b \in Scopes
         \/ i \in DOMAIN records /\ class = "tracked" /\ records[i].class = "tracked"
            /\ a = records[i].scope /\ b \in Scopes
         \/ i = 0 /\ class = "journal" /\ a = "all" /\ b = "all"
         \/ i \in DOMAIN records /\ class = "journal" /\ records[i].class = "journal"
            /\ a = "all" /\ b = "all"
         \/ i = 0 /\ class = "plain" /\ a = "all" /\ b = "all"
         \/ i = 0 /\ class = "quiz" /\ a = "quiz" /\ b = "quiz"
  PROVE  EduInv'
<1>1. PICK refreshed, counts, was, q :
        /\ refreshed = Schools!Refreshes(class, a, b)
        /\ counts = [sc \in refreshed |->
             Schools!CountWith(sc, IF i = 0 THEN MaxRecords + 1 ELSE i, class, b)]
        /\ was = [sc \in refreshed |-> snapshots[sc]]
        /\ q = [op |-> "write", record |-> i, class |-> class, scope |-> b, logs |-> logs,
                key |-> key, counts |-> counts, was |-> was, overtaken |-> FALSE]
  OBVIOUS
<1>2. /\ request' = [request EXCEPT ![s] = q]
      /\ UNCHANGED <<records, keys, effects, snapshots, events, sent, overtaken, failures, crashes>>
  BY <1>1 DEF Schools!Begin, Schools!tables, Schools!outbox, Schools!bounds
<1>3. /\ records \in Seq(Schools!Record) /\ Len(records) \in Nat /\ Len(records) <= MaxRecords
      /\ snapshots \in [Schools!Rows -> 0..MaxRecords \cup {NULL}] /\ crashes \in 0..MaxCrashes
  BY DEF EduInv, EduTypes
<1>4. s \in Schools!Actors /\ s # Worker
  BY SchoolFacts
<1>5. /\ refreshed \subseteq Schools!Rows
      /\ class = "tracked" => {"all", b} \subseteq refreshed /\ a \in refreshed
      /\ class = "tracked" /\ i = 0 => refreshed = {"all", b}
      /\ class = "plain" => refreshed = {}
      /\ class = "journal" => refreshed = {"all"}
      /\ class = "quiz" => refreshed = {"quiz"}
      /\ i = 0 /\ class # "plain" => refreshed = Schools!Refreshes(class, b, b)
  <2>1. i \in DOMAIN records => i # 0 /\ records[i] \in Schools!Record
    BY <1>3
  <2>2. i \in DOMAIN records => records[i].scope \in Schools!Rows
    BY <2>1, SchoolFacts DEF Schools!Record
  <2> QED
    BY <2>1, <2>2, <1>1, SchoolFacts DEF Schools!Refreshes
<1>6. \A sc \in refreshed : /\ counts[sc] = Will(q, sc, records)
                            /\ counts[sc] \in Nat /\ counts[sc] <= Len(records) + Adds(q)
  <2>1. SUFFICES ASSUME NEW sc \in refreshed
                 PROVE  /\ counts[sc] = Will(q, sc, records)
                        /\ counts[sc] \in Nat /\ counts[sc] <= Len(records) + Adds(q)
    OBVIOUS
  <2>2. counts[sc] = Schools!CountWith(sc, IF i = 0 THEN MaxRecords + 1 ELSE i, class, b)
    BY <1>1
  <2>3. class \in {"tracked", "journal", "quiz"} /\ q.record = i /\ q.class = class /\ q.scope = b
    BY <1>1, <1>5
  <2>4. \/ i = 0 /\ sc \in Schools!Refreshes(class, b, b)
        \/ i \in DOMAIN records /\ class = "tracked"
        \/ i \in DOMAIN records /\ class = "journal" /\ b = "all"
    BY <1>5, <2>3
  <2>5. Counting(q, sc)
    BY <2>3, <2>4 DEF Counting
  <2>6. /\ Would(q, sc) = Will(q, sc, records)
        /\ Would(q, sc) \in Nat /\ Would(q, sc) <= Len(records) + Adds(q)
    BY <2>5, CountIsRight
  <2> QED
    BY <2>2, <2>3, <2>6 DEF Would
<1>7. Adds(q) \in {0, 1}
  BY DEF Adds
<1>8. counts \in Counts /\ was \in Was
  <2>1. \A sc \in refreshed : counts[sc] \in 0..MaxRecords + 1
    BY <1>3, <1>6, <1>7, SchoolFacts
  <2>2. counts \in [refreshed -> 0..MaxRecords + 1]
    BY <2>1, <1>1
  <2>3. was \in [refreshed -> 0..MaxRecords \cup {NULL}]
    BY <1>1, <1>3, <1>5
  <2> QED
    BY <2>2, <2>3, <1>5 DEF Counts, Was
<1>9. i \in 0..MaxRecords /\ class \in Schools!Classes /\ b \in Schools!Rows
  BY <1>3, SchoolFacts DEF Schools!Classes
<1>10. q \in Writing
  BY <1>1, <1>8, <1>9 DEF Writing
<1>11. /\ q.record = i /\ q.class = class /\ q.scope = b /\ q.counts = counts /\ q.was = was
       /\ DOMAIN counts = refreshed /\ DOMAIN was = refreshed
  BY <1>1
<1>12. Fits(s, q, records)
  <2>1. i \in DOMAIN records => i # 0
    BY <1>3
  <2> QED
    BY <2>1, <1>4, <1>5, <1>6, <1>11 DEF Fits, Movable
<1>13. Right(q, records, snapshots)
  <2>1. Old(q, records) \subseteq refreshed
    <3>1. CASE i = 0
      BY <3>1, <1>11 DEF Old
    <3>2. CASE i # 0
      <4>1. i \in DOMAIN records => records[i] \in Schools!Record
        BY <1>3
      <4>2. i \in DOMAIN records /\ records[i].class = "journal" => records[i].scope = "all"
        BY <4>1 DEF Schools!Record
      <4> QED
        BY <3>2, <4>2, <1>5, <1>11 DEF Old
    <3> QED
      BY <3>1, <3>2
  <2>2. \A sc \in refreshed : was[sc] = snapshots[sc]
    BY <1>1
  <2> QED
    BY <2>1, <2>2, <1>6, <1>11 DEF Right
<1>14. WriteOK(s, q, records, snapshots)
  BY <1>12, <1>13 DEF WriteOK
<1>15. Marked(q, events, sent)
  BY <1>1 DEF Marked
<1> QED
  BY <1>2, <1>3, <1>4, <1>10, <1>14, <1>15, RequestSet

\* The transactions of the others after s committed: those that write were overtaken.
LEMMA OvertakeOK ==
  ASSUME EduInv, NEW s \in Schools!Actors, NEW q \in Publication \cup {NULL},
         request' = [Schools!Overtake(s) EXCEPT ![s] = q]
  PROVE  /\ request' \in [Schools!Actors -> Writing \cup Publication \cup {NULL}]
         /\ request'[s] = q
         /\ \A t \in Schools!Actors : t # s =>
              IF request[t] = NULL \/ request[t].op # "write" THEN request'[t] = request[t]
              ELSE /\ request[t] \in Writing /\ request'[t] \in Writing /\ request'[t].overtaken
                   /\ request'[t].record = request[t].record /\ request'[t].class = request[t].class
                   /\ request'[t].scope = request[t].scope /\ request'[t].was = request[t].was
                   /\ request'[t].counts = request[t].counts
<1>1. PICK over : over = Schools!Overtake(s)
  OBVIOUS
<1>2. over = [t \in Schools!Actors |->
                IF request[t] = NULL \/ t = s \/ request[t].op # "write" THEN request[t]
                ELSE [request[t] EXCEPT !.overtaken = TRUE]]
  BY <1>1 DEF Schools!Overtake
<1>3. \A t \in Schools!Actors : request[t] \in Writing \cup Publication \cup {NULL}
  BY DEF EduInv, EduTypes
<1>4. ASSUME NEW t \in Schools!Actors, t # s, ~(request[t] = NULL \/ request[t].op # "write")
      PROVE  /\ request[t] \in Writing /\ over[t] \in Writing /\ over[t].overtaken
             /\ over[t].record = request[t].record /\ over[t].class = request[t].class
             /\ over[t].scope = request[t].scope /\ over[t].was = request[t].was
             /\ over[t].counts = request[t].counts
  <2>1. request[t] \in Writing
    BY <1>4, RequestKinds
  <2>2. over[t] = [request[t] EXCEPT !.overtaken = TRUE]
    BY <1>2, <1>4
  <2> QED
    BY <2>1, <2>2 DEF Writing
<1>5. \A t \in Schools!Actors : (t = s \/ request[t] = NULL \/ request[t].op # "write") =>
        over[t] = request[t]
  BY <1>2
<1>6. over \in [Schools!Actors -> Writing \cup Publication \cup {NULL}]
  <2>1. \A t \in Schools!Actors : over[t] \in Writing \cup Publication \cup {NULL}
    BY <1>3, <1>4, <1>5
  <2> QED
    BY <2>1, <1>2
<1>7. /\ request' \in [Schools!Actors -> Writing \cup Publication \cup {NULL}]
      /\ request'[s] = q /\ \A t \in Schools!Actors : t # s => request'[t] = over[t]
  BY <1>1, <1>6
<1> QED
  BY <1>4, <1>5, <1>7

\* What a commit does to the outbox and the keys.
Heard(got, evs, more) ==
  /\ DOMAIN evs \subseteq DOMAIN more
  /\ \A e \in DOMAIN more : more[e] = "published" => e \in got

\* A transaction that commits keeps the invariant, and leaves a publication behind.
LEMMA CommitOK ==
  ASSUME EduInv, NEW s \in Schools!Actors, NEW r \in Writing, r = request[s], request[s] # NULL,
         Len(records) + Adds(r) <= MaxRecords,
         records' = New(r, records), snapshots' = Schools!Written(r),
         overtaken' = IF r.overtaken
                      THEN overtaken \cup DOMAIN r.counts
                           \cup (IF DOMAIN r.counts = {} THEN {} ELSE Old(r, records))
                      ELSE overtaken \ DOMAIN r.counts,
         keys' \subseteq Keys, effects' \in [Keys -> Nat],
         \A k \in Keys : effects'[k] = IF k \in keys' THEN 1 ELSE 0,
         events' \in Seq(Schools!Status), Len(events') <= MaxEvents,
         Heard(sent, events, events'),
         NEW q \in Publication \cup {NULL}, Marked(q, events', sent),
         request' = [Schools!Overtake(s) EXCEPT ![s] = q],
         UNCHANGED <<sent, failures, crashes>>
  PROVE  EduInv'
<1>1. r.op = "write"
  BY DEF Writing
<1>2. Fits(s, r, records) /\ (~r.overtaken => Right(r, records, snapshots))
  BY <1>1, RequestKinds
<1>3. /\ snapshots' \in [Schools!Rows -> 0..MaxRecords \cup {NULL}]
      /\ TotalsOK(records', snapshots', overtaken')
  BY <1>2, WrittenOK
<1>4. records \in Seq(Schools!Record) /\ Len(records) \in Nat
  BY DEF EduInv, EduTypes
<1>5. /\ records' \in Seq(Schools!Record) /\ Len(records') <= MaxRecords
      /\ Len(records) <= Len(records') /\ DOMAIN records \subseteq DOMAIN records'
      /\ \A j \in DOMAIN records : records'[j].class = records[j].class
  BY <1>2, <1>4, Landed, SchoolFacts
<1>6. overtaken' \subseteq Schools!Rows
  <2>1. Old(r, records) \subseteq Schools!Rows
    <3>1. CASE r.record = 0
      BY <3>1 DEF Old
    <3>2. CASE r.record # 0
      <4>1. r.record \in DOMAIN records
        BY <3>2, <1>2 DEF Fits
      <4>2. records[r.record] \in Schools!Record
        BY <4>1, <1>4
      <4>3. records[r.record].scope \in Schools!Rows
        BY <4>2, SchoolFacts DEF Schools!Record
      <4> QED
        BY <3>2, <4>3 DEF Old
    <3> QED
      BY <3>1, <3>2
  <2>2. overtaken \subseteq Schools!Rows /\ DOMAIN r.counts \subseteq Schools!Rows
    BY <1>2 DEF EduInv, EduTypes, Fits
  <2> QED
    BY <2>1, <2>2
<1>7. sent \subseteq DOMAIN events'
  BY DEF EduInv, EduTypes, Heard
<1>8. /\ request' \in [Schools!Actors -> Writing \cup Publication \cup {NULL}]
      /\ request'[s] = q
      /\ \A t \in Schools!Actors : t # s =>
           IF request[t] = NULL \/ request[t].op # "write" THEN request'[t] = request[t]
           ELSE /\ request[t] \in Writing /\ request'[t] \in Writing /\ request'[t].overtaken
                /\ request'[t].record = request[t].record /\ request'[t].class = request[t].class
                /\ request'[t].scope = request[t].scope /\ request'[t].was = request[t].was
                /\ request'[t].counts = request[t].counts
  BY OvertakeOK
<1>9. EduTypes'
  BY <1>3, <1>5, <1>6, <1>7, <1>8 DEF EduInv, EduTypes
<1>10. ASSUME NEW t \in Schools!Actors
       PROVE  /\ WriteOK(t, request'[t], records', snapshots')
              /\ Marked(request'[t], events', sent)
  <2>1. CASE t = s
    <3>1. q # NULL => q.op = "publish"
      BY DEF Publication
    <3> QED
      BY <2>1, <3>1, <1>8 DEF WriteOK
  <2>2. CASE t # s /\ (request[t] = NULL \/ request[t].op # "write")
    <3>1. request'[t] = request[t]
      BY <2>2, <1>8
    <3>2. Marked(request[t], events, sent)
      BY DEF EduInv
    <3>3. Marked(request[t], events', sent)
      BY <3>2 DEF Marked, Heard
    <3> QED
      BY <2>2, <3>1, <3>3 DEF WriteOK
  <2>3. CASE t # s /\ ~(request[t] = NULL \/ request[t].op # "write")
    <3>1. /\ request[t] \in Writing /\ request'[t] \in Writing /\ request'[t].overtaken
          /\ request'[t].record = request[t].record /\ request'[t].class = request[t].class
          /\ request'[t].scope = request[t].scope /\ request'[t].was = request[t].was
          /\ request'[t].counts = request[t].counts
      BY <2>3, <1>8
    <3>2. Fits(t, request[t], records)
      BY <2>3, RequestKinds
    <3>3. Fits(t, request'[t], records')
      BY <3>1, <3>2, <1>4, <1>5, FitsLater
    <3>4. request'[t].op = "write"
      BY <3>1 DEF Writing
    <3> QED
      BY <3>1, <3>3, <3>4 DEF WriteOK, Marked
  <2> QED
    BY <2>1, <2>2, <2>3
<1> QED
  BY <1>3, <1>9, <1>10 DEF EduInv, Heard

\* A route commits its change, its key and its event in one transaction.
LEMMA CommitStep ==
  ASSUME EduInv, NEW s \in Sessions, Schools!Commit(s)
  PROVE  EduInv'
<1>1. PICK r, q :
        /\ r = request[s]
        /\ q = IF r.logs THEN [op |-> "publish", todo |-> {Len(events) + 1}, marks |-> <<>>]
               ELSE NULL
  OBVIOUS
<1>2. /\ r # NULL /\ r.op = "write" /\ ~Schools!Doomed(r)
      /\ r.record = 0 /\ r.class # "plain" => Len(records) + 1 <= MaxRecords
      /\ r.logs => Len(events) < MaxEvents
      /\ records' = New(r, records)
      /\ keys' = (IF r.key = NULL THEN keys ELSE keys \cup {r.key})
      /\ effects' = (IF r.key = NULL THEN effects ELSE [effects EXCEPT ![r.key] = @ + 1])
      /\ snapshots' = Schools!Written(r)
      /\ events' = (IF r.logs THEN Append(events, "pending") ELSE events)
      /\ overtaken' = IF r.overtaken
                      THEN overtaken \cup DOMAIN r.counts
                           \cup (IF DOMAIN r.counts = {} THEN {} ELSE Old(r, records))
                      ELSE overtaken \ DOMAIN r.counts
      /\ request' = [Schools!Overtake(s) EXCEPT ![s] = q]
      /\ UNCHANGED <<sent, failures, crashes>>
  BY <1>1 DEF Schools!Commit, Schools!bounds, New, Moved, Old
<1>3. s \in Schools!Actors /\ MaxEvents \in Nat /\ NULL \notin Nat /\ MaxRecords \in Nat
  BY SchoolFacts
<1>4. r \in Writing
  BY <1>1, <1>2, <1>3, RequestKinds
<1>5. /\ records \in Seq(Schools!Record) /\ Len(records) \in Nat /\ Len(records) <= MaxRecords
      /\ keys \subseteq Keys /\ effects \in [Keys -> Nat]
      /\ events \in Seq(Schools!Status) /\ Len(events) \in Nat /\ Len(events) <= MaxEvents
      /\ sent \subseteq DOMAIN events
      /\ \A k \in Keys : effects[k] = IF k \in keys THEN 1 ELSE 0
      /\ \A e \in DOMAIN events : events[e] = "published" => e \in sent
  BY DEF EduInv, EduTypes
<1>6. Len(records) + Adds(r) <= MaxRecords
  BY <1>2, <1>5 DEF Adds
<1>7. /\ keys' \subseteq Keys /\ effects' \in [Keys -> Nat]
      /\ \A k \in Keys : effects'[k] = IF k \in keys' THEN 1 ELSE 0
  <2>1. CASE r.key = NULL
    BY <2>1, <1>2, <1>5
  <2>2. CASE r.key # NULL
    <3>1. r.key \in Keys /\ r.key \notin keys
      BY <2>2, <1>2, <1>4 DEF Writing, Schools!Doomed
    <3> QED
      BY <2>2, <3>1, <1>2, <1>5
  <2> QED
    BY <2>1, <2>2
<1>8. /\ events' \in Seq(Schools!Status) /\ Len(events') <= MaxEvents
      /\ DOMAIN events \subseteq DOMAIN events'
      /\ \A e \in DOMAIN events' : events'[e] = "published" => e \in sent
      /\ r.logs => Len(events) + 1 \in DOMAIN events' /\ Len(events) + 1 \in 1..MaxEvents
  <2>1. CASE r.logs
    <3>1. events' = Append(events, "pending") /\ Len(events) < MaxEvents
      BY <2>1, <1>2
    <3>2. "pending" \in Schools!Status
      BY DEF Schools!Status
    <3>3. /\ events' \in Seq(Schools!Status) /\ Len(events') = Len(events) + 1
          /\ events'[Len(events) + 1] = "pending"
          /\ \A e \in DOMAIN events : events'[e] = events[e]
          /\ DOMAIN events = 1..Len(events) /\ DOMAIN events' = 1..Len(events) + 1
      BY <3>1, <3>2, <1>5
    <3>4. \A e \in DOMAIN events' : e \in DOMAIN events \/ e = Len(events) + 1
      BY <3>3, <1>5
    <3> QED
      BY <3>1, <3>3, <3>4, <1>3, <1>5
  <2>2. CASE ~r.logs
    BY <2>2, <1>2, <1>5
  <2> QED
    BY <2>1, <2>2
<1>9. q \in Publication \cup {NULL} /\ Marked(q, events', sent)
  <2>1. CASE r.logs
    <3>1. q = [op |-> "publish", todo |-> {Len(events) + 1}, marks |-> <<>>]
      BY <2>1, <1>1
    <3>2. q \in Publication
      BY <2>1, <3>1, <1>8 DEF Publication
    <3>3. Marked(q, events', sent)
      BY <2>1, <3>1, <1>8 DEF Marked
    <3> QED
      BY <3>2, <3>3
  <2>2. CASE ~r.logs
    BY <2>2, <1>1 DEF Marked
  <2> QED
    BY <2>1, <2>2
<1>10. Heard(sent, events, events')
  BY <1>8 DEF Heard
<1> QED
  BY <1>1, <1>2, <1>3, <1>4, <1>6, <1>7, <1>8, <1>9, <1>10, CommitOK

\* The worker commits the snapshot of all scopes.
LEMMA CommitRefreshStep ==
  ASSUME EduInv, Schools!CommitRefresh
  PROVE  EduInv'
<1>1. PICK r : r = request[Worker]
  OBVIOUS
<1>2. /\ r # NULL /\ r.op = "write"
      /\ snapshots' = Schools!Written(r)
      /\ overtaken' = IF r.overtaken THEN overtaken \cup {"all"} ELSE overtaken \ {"all"}
      /\ request' = [Schools!Overtake(Worker) EXCEPT ![Worker] = NULL]
      /\ UNCHANGED <<records, keys, effects, events, sent, failures, crashes>>
  BY <1>1 DEF Schools!CommitRefresh, Schools!bounds, Schools!outbox
<1>3. Worker \in Schools!Actors /\ MaxRecords \in Nat
  BY SchoolFacts
<1>4. r \in Writing /\ Fits(Worker, r, records)
  BY <1>1, <1>2, <1>3, RequestKinds
<1>5. r.class = "plain" /\ r.record = 0 /\ DOMAIN r.counts = {"all"}
  BY <1>4 DEF Fits, Movable
<1>6. /\ New(r, records) = records /\ Old(r, records) = {} /\ Adds(r) = 0
  BY <1>5 DEF New, Old, Adds
<1>7. /\ Len(records) + Adds(r) <= MaxRecords
      /\ keys \subseteq Keys /\ effects \in [Keys -> Nat]
      /\ \A k \in Keys : effects[k] = IF k \in keys THEN 1 ELSE 0
      /\ events \in Seq(Schools!Status) /\ Len(events) <= MaxEvents
      /\ Heard(sent, events, events)
  BY <1>6 DEF EduInv, EduTypes, Heard
<1>8. overtaken' = IF r.overtaken
                   THEN overtaken \cup DOMAIN r.counts
                        \cup (IF DOMAIN r.counts = {} THEN {} ELSE Old(r, records))
                   ELSE overtaken \ DOMAIN r.counts
  BY <1>2, <1>5, <1>6
<1>9. Marked(NULL, events, sent)
  BY DEF Marked
<1> QED
  BY <1>1, <1>2, <1>3, <1>4, <1>6, <1>7, <1>8, <1>9, CommitOK

\* The worker begins to refresh the snapshot of all scopes.
LEMMA BeginRefreshStep ==
  ASSUME EduInv, Schools!BeginRefresh
  PROVE  EduInv'
<1>1. PICK q, n, counts, was :
        /\ n = Schools!Cardinality(Schools!Counted("all"))
        /\ counts = [sc \in {"all"} |-> Schools!Cardinality(Schools!Counted(sc))]
        /\ was = [sc \in {"all"} |-> snapshots[sc]]
        /\ q = [op |-> "write", record |-> 0, class |-> "plain", scope |-> "all", logs |-> FALSE,
                key |-> NULL, counts |-> counts, was |-> was, overtaken |-> FALSE]
  OBVIOUS
<1>2. /\ request' = [request EXCEPT ![Worker] = q]
      /\ UNCHANGED <<records, keys, effects, snapshots, events, sent, overtaken, failures, crashes>>
  BY <1>1 DEF Schools!BeginRefresh, Schools!tables, Schools!outbox, Schools!bounds
<1>3. /\ records \in Seq(Schools!Record) /\ Len(records) \in Nat /\ Len(records) <= MaxRecords
      /\ snapshots \in [Schools!Rows -> 0..MaxRecords \cup {NULL}] /\ crashes \in 0..MaxCrashes
  BY DEF EduInv, EduTypes
<1>4. n = Size(records, "all") /\ n \in Nat /\ n <= Len(records)
  BY <1>1, <1>3, CountedIs, SchoolSize, OfFinite DEF Size
<1>5. /\ Worker \in Schools!Actors /\ "all" \in Schools!Rows /\ MaxRecords \in Nat
      /\ "plain" \in Schools!Classes
  BY SchoolFacts DEF Schools!Classes
<1>6. counts = q.counts /\ was = q.was
  BY <1>1
<1>7. /\ counts = [sc \in {"all"} |-> n] /\ was = [sc \in {"all"} |-> snapshots[sc]]
      /\ counts["all"] = n /\ was["all"] = snapshots["all"]
      /\ DOMAIN counts = {"all"} /\ DOMAIN was = {"all"}
  BY <1>1
<1>8. counts \in Counts /\ was \in Was
  <2>1. n \in 0..MaxRecords + 1 /\ snapshots["all"] \in 0..MaxRecords \cup {NULL}
    BY <1>3, <1>4, <1>5
  <2>2. counts \in [{"all"} -> 0..MaxRecords + 1]
    BY <2>1, <1>7
  <2>3. was \in [{"all"} -> 0..MaxRecords \cup {NULL}]
    BY <2>1, <1>7
  <2>4. {"all"} \in SUBSET Schools!Rows
    BY <1>5
  <2> QED
    BY <2>2, <2>3, <2>4 DEF Counts, Was
<1>9. q \in Writing
  <2>1. 0 \in 0..MaxRecords
    BY <1>5
  <2> QED
    BY <2>1, <1>1, <1>5, <1>8 DEF Writing
<1>10. q.record = 0 /\ q.class = "plain" /\ Adds(q) = 0 /\ Old(q, records) = {}
  BY <1>1 DEF Adds, Old
<1>11. Fits(Worker, q, records)
  BY <1>3, <1>4, <1>5, <1>6, <1>7, <1>10 DEF Fits
<1>12. Right(q, records, snapshots)
  <2>1. Will(q, "all", records) = n
    BY <1>4, <1>10 DEF Will
  <2> QED
    BY <2>1, <1>6, <1>7, <1>10 DEF Right
<1>13. WriteOK(Worker, q, records, snapshots)
  BY <1>11, <1>12 DEF WriteOK
<1>14. Marked(q, events, sent)
  BY <1>1 DEF Marked
<1> QED
  BY <1>2, <1>3, <1>5, <1>9, <1>13, <1>14, RequestSet

\* A transaction that is refused, or dies, leaves everything as it was.
LEMMA GoneStep ==
  ASSUME EduInv, NEW s \in Schools!Actors, Schools!Rollback(s) \/ Schools!Die(s)
  PROVE  EduInv'
<1>1. /\ request' = [request EXCEPT ![s] = NULL]
      /\ \/ crashes' = crashes
         \/ crashes' = crashes + 1 /\ crashes < MaxCrashes
      /\ UNCHANGED <<records, keys, effects, snapshots, events, sent, overtaken, failures>>
  BY DEF Schools!Rollback, Schools!Die, Schools!tables, Schools!outbox, Schools!bounds
<1>2. crashes' \in 0..MaxCrashes
  BY <1>1, SchoolFacts DEF EduInv, EduTypes
<1>3. WriteOK(s, NULL, records, snapshots) /\ Marked(NULL, events, sent)
  BY DEF WriteOK, Marked
<1> QED
  BY <1>1, <1>2, <1>3, RequestSet

\* The worker takes what is left to publish.
LEMMA PublishPendingStep ==
  ASSUME EduInv, Schools!PublishPending
  PROVE  EduInv'
<1>1. PICK todo, q :
        /\ todo = {e \in DOMAIN events : events[e] # "published"}
        /\ q = [op |-> "publish", todo |-> todo, marks |-> <<>>]
  OBVIOUS
<1>2. /\ request' = [request EXCEPT ![Worker] = q]
      /\ UNCHANGED <<records, keys, effects, snapshots, events, sent, overtaken, failures, crashes>>
  BY <1>1 DEF Schools!PublishPending, Schools!tables, Schools!outbox, Schools!bounds
<1>3. Worker \in Schools!Actors /\ MaxEvents \in Nat
  BY SchoolFacts
<1>4. events \in Seq(Schools!Status) /\ Len(events) <= MaxEvents /\ crashes \in 0..MaxCrashes
  BY DEF EduInv, EduTypes
<1>5. todo \subseteq DOMAIN events /\ DOMAIN events \subseteq 1..MaxEvents
  BY <1>1, <1>3, <1>4
<1>6. q \in Publication /\ q.op = "publish" /\ q.todo = todo /\ DOMAIN q.marks = {}
  BY <1>1, <1>5 DEF Publication
<1>7. WriteOK(Worker, q, records, snapshots) /\ Marked(q, events, sent)
  BY <1>5, <1>6 DEF WriteOK, Marked
<1> QED
  BY <1>2, <1>3, <1>4, <1>6, <1>7, RequestSet

\* One event is published, or the broker refuses it.
LEMMA PublishOneStep ==
  ASSUME EduInv, NEW s \in Schools!Actors, NEW ok \in BOOLEAN, Schools!PublishOne(s, ok)
  PROVE  EduInv'
<1>1. PICK r, e, word, todo, marks, q :
        /\ r = request[s] /\ e = First(r.todo)
        /\ word = (IF ok THEN "published" ELSE "failed")
        /\ todo = r.todo \ {e} /\ marks = Append(r.marks, <<e, word>>)
        /\ q = [op |-> "publish", todo |-> todo, marks |-> marks]
  OBVIOUS
<1>2. /\ r # NULL /\ r.op = "publish" /\ r.todo # {}
      /\ IF ok THEN sent' = sent \cup {e} /\ failures' = failures
         ELSE failures < MaxFailures /\ failures' = failures + 1 /\ sent' = sent
      /\ request' = [request EXCEPT ![s].todo = @ \ {e}, ![s].marks = Append(@, <<e, word>>)]
      /\ UNCHANGED <<records, keys, effects, snapshots, events, overtaken, crashes>>
  BY <1>1 DEF Schools!PublishOne, Schools!tables, First
<1>3. r \in Publication /\ Marked(r, events, sent)
  BY <1>1, <1>2, RequestKinds
<1>4. /\ request \in [Schools!Actors -> Writing \cup Publication \cup {NULL}]
      /\ events \in Seq(Schools!Status) /\ Len(events) <= MaxEvents
      /\ sent \subseteq DOMAIN events /\ failures \in 0..MaxFailures
  BY DEF EduInv, EduTypes
<1>5. /\ r.todo \subseteq 1..MaxEvents /\ r.todo \subseteq DOMAIN events
      /\ r.marks \in Seq((1..MaxEvents) \X Schools!Status)
  BY <1>2, <1>3 DEF Publication, Marked
<1>6. e \in r.todo
  <2>1. r.todo \in SUBSET Nat
    BY <1>5
  <2> QED
    BY <2>1, <1>1, <1>2, FirstIsOne
<1>7. /\ <<e, word>> \in (1..MaxEvents) \X Schools!Status
      /\ <<e, word>>[1] = e /\ <<e, word>>[2] = word
  BY <1>1, <1>5, <1>6 DEF Schools!Status
<1>8. /\ marks \in Seq((1..MaxEvents) \X Schools!Status)
      /\ \A k \in DOMAIN marks : \/ k \in DOMAIN r.marks /\ marks[k] = r.marks[k]
                                 \/ marks[k] = <<e, word>>
  BY <1>1, <1>5, <1>7
<1>9. q \in Publication /\ q.todo = todo /\ q.marks = marks /\ q.op = "publish"
  BY <1>1, <1>5, <1>8 DEF Publication
<1>10. request' = [request EXCEPT ![s] = q]
  <2>1. [r EXCEPT !.todo = todo, !.marks = marks] = q
    <3>1. PICK x : x = [r EXCEPT !.todo = todo, !.marks = marks]
      OBVIOUS
    <3>2. x \in Publication /\ x.todo = todo /\ x.marks = marks
      BY <3>1, <1>1, <1>3, <1>5, <1>8 DEF Publication
    <3>3. x = [op |-> x.op, todo |-> x.todo, marks |-> x.marks] /\ x.op = "publish"
      BY <3>2 DEF Publication
    <3> QED
      BY <3>1, <3>2, <3>3, <1>1
  <2>2. request' = [request EXCEPT ![s] = [r EXCEPT !.todo = todo, !.marks = marks]]
    BY <1>1, <1>2, <1>3, <1>4 DEF Publication
  <2> QED
    BY <2>1, <2>2
<1>11. /\ sent \subseteq sent' /\ sent' \subseteq DOMAIN events
       /\ failures' \in 0..MaxFailures /\ (word = "published" => e \in sent')
  BY <1>1, <1>2, <1>4, <1>5, <1>6, SchoolFacts
<1>12. /\ request' \in [Schools!Actors -> Writing \cup Publication \cup {NULL}]
       /\ request'[s] = q /\ \A t \in Schools!Actors : t # s => request'[t] = request[t]
  BY <1>4, <1>9, <1>10
<1>13. EduTypes'
  BY <1>2, <1>11, <1>12 DEF EduInv, EduTypes
<1>14. Marked(q, events, sent')
  <2>1. todo \subseteq DOMAIN events
    BY <1>1, <1>5
  <2>2. ASSUME NEW k \in DOMAIN marks, marks[k][2] = "published"
        PROVE  marks[k][1] \in sent'
    <3>1. CASE k \in DOMAIN r.marks /\ marks[k] = r.marks[k]
      BY <3>1, <2>2, <1>2, <1>3, <1>11 DEF Marked
    <3>2. CASE marks[k] = <<e, word>>
      BY <3>2, <2>2, <1>7, <1>11
    <3> QED
      BY <3>1, <3>2, <1>8
  <2> QED
    BY <2>1, <2>2, <1>9 DEF Marked
<1>15. \A t \in Schools!Actors : /\ WriteOK(t, request'[t], records, snapshots)
                                 /\ Marked(request'[t], events, sent')
  <2>1. SUFFICES ASSUME NEW t \in Schools!Actors, t # s
                 PROVE  /\ WriteOK(t, request'[t], records, snapshots)
                        /\ Marked(request'[t], events, sent')
    BY <1>9, <1>12, <1>14 DEF WriteOK
  <2>2. WriteOK(t, request[t], records, snapshots) /\ Marked(request[t], events, sent)
    BY DEF EduInv
  <2>3. Marked(request[t], events, sent')
    BY <2>2, <1>11 DEF Marked
  <2> QED
    BY <2>1, <2>2, <2>3, <1>12
<1> QED
  BY <1>2, <1>11, <1>13, <1>15 DEF EduInv

\* A publication commits its marks, of events the broker has taken if they say so.
LEMMA CommitMarksStep ==
  ASSUME EduInv, NEW s \in Schools!Actors, Schools!CommitMarks(s)
  PROVE  EduInv'
<1>1. PICK r, mark :
        /\ r = request[s]
        /\ mark = [e \in DOMAIN events |->
                     {r.marks[k][2] : k \in {n \in DOMAIN r.marks : r.marks[n][1] = e}}]
  OBVIOUS
<1>2. /\ r # NULL /\ r.op = "publish"
      /\ events' = [e \in DOMAIN events |->
                      IF mark[e] = {} THEN events[e] ELSE CHOOSE m \in mark[e] : TRUE]
      /\ request' = [request EXCEPT ![s] = NULL]
      /\ UNCHANGED <<records, keys, effects, snapshots, sent, overtaken, failures, crashes>>
  BY <1>1 DEF Schools!CommitMarks, Schools!tables, Schools!bounds
<1>3. r \in Publication /\ Marked(r, events, sent)
  BY <1>1, <1>2, RequestKinds
<1>4. /\ request \in [Schools!Actors -> Writing \cup Publication \cup {NULL}]
      /\ events \in Seq(Schools!Status) /\ Len(events) \in Nat /\ Len(events) <= MaxEvents
      /\ DOMAIN events = 1..Len(events) /\ sent \subseteq DOMAIN events
      /\ \A e \in DOMAIN events : events[e] = "published" => e \in sent
  BY DEF EduInv, EduTypes
<1>5. ASSUME NEW e \in DOMAIN events, NEW m \in mark[e]
      PROVE  m \in Schools!Status /\ (m = "published" => e \in sent)
  <2>1. PICK k \in DOMAIN r.marks : r.marks[k][1] = e /\ m = r.marks[k][2]
    BY <1>1, <1>5
  <2>2. r.marks[k] \in (1..MaxEvents) \X Schools!Status
    BY <1>3 DEF Publication
  <2> QED
    BY <2>1, <2>2, <1>2, <1>3 DEF Marked
<1>6. ASSUME NEW e \in DOMAIN events
      PROVE  events'[e] \in Schools!Status /\ (events'[e] = "published" => e \in sent)
  <2>1. CASE mark[e] = {}
    BY <2>1, <1>2, <1>4
  <2>2. CASE mark[e] # {}
    <3>1. events'[e] = CHOOSE m \in mark[e] : TRUE
      BY <2>2, <1>2
    <3>2. (CHOOSE m \in mark[e] : TRUE) \in mark[e]
      BY <2>2
    <3> QED
      BY <3>1, <3>2, <1>5
  <2> QED
    BY <2>1, <2>2
<1>7. events' \in Seq(Schools!Status) /\ Len(events') = Len(events) /\ DOMAIN events' = DOMAIN events
  <2>1. events' \in [1..Len(events) -> Schools!Status]
    BY <1>2, <1>4, <1>6
  <2> QED
    BY <2>1, <1>4
<1>8. /\ request' \in [Schools!Actors -> Writing \cup Publication \cup {NULL}]
      /\ request'[s] = NULL /\ \A t \in Schools!Actors : t # s => request'[t] = request[t]
  BY <1>2, <1>4
<1>9. EduTypes'
  BY <1>2, <1>4, <1>7, <1>8 DEF EduInv, EduTypes
<1>10. \A t \in Schools!Actors : /\ WriteOK(t, request'[t], records, snapshots)
                                 /\ Marked(request'[t], events', sent)
  <2>1. SUFFICES ASSUME NEW t \in Schools!Actors, t # s
                 PROVE  /\ WriteOK(t, request'[t], records, snapshots)
                        /\ Marked(request'[t], events', sent)
    BY <1>8 DEF WriteOK, Marked
  <2>2. WriteOK(t, request[t], records, snapshots) /\ Marked(request[t], events, sent)
    BY DEF EduInv
  <2>3. Marked(request[t], events', sent)
    BY <2>2, <1>7 DEF Marked
  <2> QED
    BY <2>1, <2>2, <2>3, <1>8
<1> QED
  BY <1>2, <1>6, <1>7, <1>9, <1>10 DEF EduInv

\* A route that writes begins.
LEMMA WritesStep ==
  ASSUME EduInv, NEW s \in Sessions, Schools!Writes(s)
  PROVE  EduInv'
<1>1. PICK key \in Keys \cup {NULL} :
        \/ Schools!Plain(s, key)
        \/ Schools!QuizRow(s, FALSE, key) \/ Schools!QuizRow(s, TRUE, key)
        \/ Schools!Journal(s, 0, key)
        \/ \E i \in DOMAIN records : records[i].class = "journal" /\ Schools!Journal(s, i, key)
        \/ \E b \in Scopes :
             \/ Schools!Tracked(s, b, key)
             \/ \E i \in DOMAIN records : Schools!TrackedPatch(s, i, b, key)
  BY DEF Schools!Writes, Schools!CreateLearner, Schools!UpdateLearner, Schools!CreateGoal,
         Schools!UpdateGoal, Schools!CreateAssignment, Schools!UpdateAssignment,
         Schools!CreateJournal, Schools!UpdateJournal, Schools!CreateQuiz,
         Schools!CreateAttachment, Schools!AddQuizItems, Schools!AddQuizResponses,
         Schools!CreateActivity, Schools!CreateAssessment, Schools!CreatePractice,
         Schools!UpdateActivity, Schools!UpdateAssessment, Schools!UpdatePractice
<1>2. CASE Schools!Plain(s, key)
  BY <1>2, BeginStep DEF Schools!Plain
<1>3. CASE Schools!QuizRow(s, FALSE, key) \/ Schools!QuizRow(s, TRUE, key)
  BY <1>3, BeginStep DEF Schools!QuizRow
<1>4. ASSUME NEW b \in Scopes, Schools!Tracked(s, b, key)
      PROVE  EduInv'
  BY <1>4, BeginStep DEF Schools!Tracked
<1>5. ASSUME NEW b \in Scopes, NEW i \in DOMAIN records, Schools!TrackedPatch(s, i, b, key)
      PROVE  EduInv'
  <2>1. PICK a : a = records[i].scope
    OBVIOUS
  <2>2. records[i].class = "tracked" /\ Schools!Begin(s, i, "tracked", a, b, TRUE, key)
    BY <2>1, <1>5 DEF Schools!TrackedPatch
  <2> QED
    BY <2>1, <2>2, BeginStep
<1>6. CASE Schools!Journal(s, 0, key)
  BY <1>6, BeginStep DEF Schools!Journal
<1>7. ASSUME NEW i \in DOMAIN records, records[i].class = "journal", Schools!Journal(s, i, key)
      PROVE  EduInv'
  <2>1. Schools!Begin(s, i, "journal", "all", "all", TRUE, key)
    BY <1>7 DEF Schools!Journal
  <2> QED
    BY <2>1, <1>7, BeginStep
<1> QED
  BY <1>1, <1>2, <1>3, <1>4, <1>5, <1>6, <1>7

\* Every step of the education service keeps its invariant.
LEMMA EduStep ==
  ASSUME EduInv, [Schools!Next]_(Schools!vars)
  PROVE  EduInv'
<1>1. CASE UNCHANGED Schools!vars
  BY <1>1 DEF Schools!vars, Schools!tables, Schools!outbox, Schools!bounds, EduInv, EduTypes
<1>2. ASSUME NEW s \in Sessions, Schools!Writes(s) \/ Schools!Commit(s)
      PROVE  EduInv'
  BY <1>2, WritesStep, CommitStep
<1>3. ASSUME NEW s \in Schools!Actors,
             \/ Schools!Rollback(s) \/ Schools!Die(s)
             \/ Schools!PublishOne(s, FALSE) \/ Schools!Publishes(s)
      PROVE  EduInv'
  <2>1. CASE Schools!Rollback(s) \/ Schools!Die(s)
    BY <2>1, GoneStep
  <2>2. CASE Schools!PublishOne(s, FALSE) \/ Schools!PublishOne(s, TRUE)
    BY <2>2, PublishOneStep
  <2>3. CASE Schools!CommitMarks(s)
    BY <2>3, CommitMarksStep
  <2> QED
    BY <1>3, <2>1, <2>2, <2>3 DEF Schools!Publishes
<1>4. CASE Schools!PublishPending
  BY <1>4, PublishPendingStep
<1>5. CASE Schools!BeginRefresh
  BY <1>5, BeginRefreshStep
<1>6. CASE Schools!CommitRefresh
  BY <1>6, CommitRefreshStep
<1> QED
  BY <1>1, <1>2, <1>3, <1>4, <1>5, <1>6 DEF Schools!Next

\* There is no row yet but the quiz's, which counts nothing.
LEMMA EduBegin == Schools!Init => EduInv
<1> SUFFICES ASSUME Schools!Init PROVE EduInv
  OBVIOUS
<1>1. /\ records = <<>> /\ keys = {} /\ effects = [k \in Keys |-> 0]
      /\ snapshots = [sc \in Schools!Rows |-> IF sc = "quiz" THEN 0 ELSE NULL]
      /\ events = <<>> /\ sent = {} /\ request = [s \in Schools!Actors |-> NULL]
      /\ overtaken = {} /\ failures = 0 /\ crashes = 0
  BY DEF Schools!Init
<1>2. /\ MaxRecords \in Nat /\ MaxEvents \in Nat /\ MaxFailures \in Nat /\ MaxCrashes \in Nat
  BY SchoolFacts
<1>3. EduTypes
  <2>1. records \in Seq(Schools!Record) /\ Len(records) <= MaxRecords
    BY <1>1, <1>2
  <2>2. events \in Seq(Schools!Status) /\ Len(events) <= MaxEvents /\ sent \subseteq DOMAIN events
    BY <1>1, <1>2
  <2>3. snapshots \in [Schools!Rows -> 0..MaxRecords \cup {NULL}]
    BY <1>1, <1>2
  <2>4. request \in [Schools!Actors -> Writing \cup Publication \cup {NULL}]
    BY <1>1
  <2> QED
    BY <1>1, <1>2, <2>1, <2>2, <2>3, <2>4 DEF EduTypes
<1>4. TotalsOK(records, snapshots, overtaken)
  <2>1. SUFFICES ASSUME NEW sc \in Schools!Rows, snapshots[sc] # NULL
                 PROVE  snapshots[sc] = Size(records, sc)
    BY DEF TotalsOK
  <2>2. snapshots[sc] = 0
    BY <2>1, <1>1
  <2>3. Of(records, sc) = {}
    BY <1>1 DEF Of
  <2> QED
    BY <2>2, <2>3, FS_EmptySet DEF Size
<1>5. \A s \in Schools!Actors : /\ WriteOK(s, request[s], records, snapshots)
                                /\ Marked(request[s], events, sent)
  BY <1>1 DEF WriteOK, Marked
<1>6. /\ \A k \in Keys : effects[k] = IF k \in keys THEN 1 ELSE 0
      /\ \A e \in DOMAIN events : events[e] = "published" => e \in sent
  <2>1. DOMAIN events = {}
    BY <1>1
  <2>2. \A k \in Keys : effects[k] = 0 /\ k \notin keys
    BY <1>1
  <2> QED
    BY <2>1, <2>2
<1> QED
  BY <1>3, <1>4, <1>5, <1>6 DEF EduInv

\* What the invariant says of the education service is what it promises.
LEMMA EduKept == EduInv => EducationAgrees
<1> SUFFICES ASSUME EduInv
             PROVE  /\ Schools!TypeOK /\ Schools!IdempotentOnce
                    /\ Schools!SnapshotsCurrent /\ Schools!PublishedWasSent
  BY DEF EducationAgrees
<1>1. DOMAIN snapshots = Schools!Rows
  BY DEF EduInv, EduTypes
<1>2. Writing = Schools!Transaction
  BY <1>1 DEF Writing, Counts, Was, Schools!Transaction
<1>3. ASSUME NEW s \in Schools!Actors
      PROVE  \/ request[s] = NULL
             \/ request[s] \in Schools!Transaction
             \/ /\ request[s].op = "publish"
                /\ request[s].todo \subseteq DOMAIN events
                /\ request[s].marks \in Seq((1..MaxEvents) \X Schools!Status)
  <2>1. request[s] \in Writing \cup Publication \cup {NULL} /\ Marked(request[s], events, sent)
    BY DEF EduInv, EduTypes
  <2>2. CASE request[s] \in Publication /\ request[s] # NULL
    BY <2>1, <2>2 DEF Publication, Marked
  <2> QED
    BY <2>1, <2>2, <1>2
<1>4. Schools!TypeOK
  BY <1>3 DEF Schools!TypeOK, EduInv, EduTypes
<1>5. Schools!IdempotentOnce
  BY DEF Schools!IdempotentOnce, EduInv
<1>6. Schools!SnapshotsCurrent
  <2>1. SUFFICES ASSUME NEW sc \in Schools!Rows \ overtaken, snapshots[sc] # NULL
                 PROVE  snapshots[sc] = Schools!Cardinality(Schools!Counted(sc))
    BY <1>1 DEF Schools!SnapshotsCurrent
  <2>2. snapshots[sc] = Cardinality(Of(records, sc))
    BY <2>1 DEF EduInv, TotalsOK, Size
  <2> QED
    BY <2>2, CountedIs, SchoolSize
<1>7. Schools!PublishedWasSent
  BY DEF Schools!PublishedWasSent, EduInv
<1> QED
  BY <1>4, <1>5, <1>6, <1>7

\* In every behaviour of the education service a request repeated under its key is carried
\* out once, a total that nothing overtook counts the records there are, also after one
\* moved to another scope, and what is marked published the broker has taken
\* (consume_idempotency, refresh_snapshot_transition, try_publish_event_rows).
THEOREM EducationStays == Schools!Spec => []EducationAgrees
<1>1. Schools!Init => EduInv
  BY EduBegin
<1>2. EduInv /\ [Schools!Next]_(Schools!vars) => EduInv'
  BY EduStep
<1>3. EduInv => EducationAgrees
  BY EduKept
<1> QED
  BY <1>1, <1>2, <1>3, PTL DEF Schools!Spec
=============================================================================
