---------------------------- MODULE Conversations ----------------------------
(***************************************************************************)
(* The conversation workspace: chats of people and assistants, the turns   *)
(* an assistant takes, and the proposals a chat is turned into             *)
(* (conversation-workspace-service, routers/conversations.py and           *)
(* services/conversations.py).                                             *)
(*                                                                         *)
(* One process serves every request. Handlers that are plain functions     *)
(* run in threads and overlap: Begin... is what such a request reads,      *)
(* Commit... what it writes (no row locks are taken by the reads). Posting *)
(* a message is a coroutine: between two awaits it holds the event loop,   *)
(* and it holds it for the whole of an assistant's turn, which is a        *)
(* blocking call of a subprocess.                                          *)
(*                                                                         *)
(* Abstractions: one family; texts, blocks, summaries and files are left   *)
(* out; the people a chat is created with are distinct; every message a    *)
(* request adds is one record.                                             *)
(***************************************************************************)
EXTENDS Integers, Sequences, FiniteSets

CONSTANTS
  Persons,
  Assistants,   \* TopLevelAssistant
  Inboxes,      \* those of ASSISTANT_DEFINITIONS, who have a private chat with everyone
  Openings,     \* what chats are created: kind, visibility, people and assistants
  Invitations,  \* whom a chat is asked to take in: assistant, mode, made primary or not
  Sessions,     \* requests that may be in progress at once
  NULL,
  MaxChats,     \* bound: chats
  MaxParts,     \* bound: participants
  MaxMessages,  \* bound: messages, the replies of turns under way not counted
  MaxRuns,      \* bound: runs
  MaxProposals, \* bound: proposals
  MaxRestarts   \* bound: deaths of the process

ASSUME ConversationsAssumption ==
  /\ MaxChats \in Nat /\ MaxParts \in Nat /\ MaxMessages \in Nat
  /\ MaxRuns \in Nat /\ MaxProposals \in Nat /\ MaxRestarts \in Nat
  /\ Persons \cap Assistants = {}
  /\ Inboxes \subseteq Assistants /\ IsFiniteSet(Assistants)

VARIABLES
  chats,      \* rows of conversations
  parts,      \* rows of conversation_participants, in the order they joined
  messages,   \* rows of messages, in order
  runs,       \* rows of agent_runs, each with the state of its domain_activity rows
  proposals,  \* rows of action_proposals
  session,    \* per session NULL or where its request is
  loop,       \* the session whose coroutine holds the event loop, or NULL
  chatter,    \* assistants that finished an answer elsewhere during the present turn
  orphans,    \* runs whose request died with the process
  raced,      \* chats on which two membership requests overlapped
  doubled,    \* people two of whose lists of chats overlapped
  restarts    \* deaths so far (bound)

rows    == <<chats, parts, messages, runs, proposals>>
history == <<orphans, raced, doubled, restarts>>
vars    == <<rows, session, loop, chatter, history>>

Kinds == {"assistant", "family", "hybrid"}
Modes == {"active", "passive"}

Chat == [kind : Kinds, shared : BOOLEAN, owner : Persons, seeded : BOOLEAN,
         primary : 0..MaxParts]
Part == [chat : 1..MaxChats, who : Persons \cup Assistants, mode : Modes, removed : BOOLEAN]
Message  == [chat : 1..MaxChats, by : 0..MaxParts, run : 0..MaxRuns]
Run      == [chat : 1..MaxChats, trigger : 1..MaxMessages, assistant : Assistants,
             status : {"running", "completed", "failed"},
             acts : {"none", "running", "completed", "failed"},
             text : {"none", "own", "other"}]
Proposal == [chat : 1..MaxChats, message : 1..MaxMessages,
             status : {"proposed", "confirmed", "committed", "canceled"}]

\* Where a request is.
Listing == [op : {"list"}, who : Persons, missing : SUBSET Assistants]
Invite == [op : {"invite"}, chat : 1..MaxChats, who : Assistants, mode : Modes,
           part : 0..MaxParts, hybrid : BOOLEAN, primary : BOOLEAN]
Remove == [op : {"remove"}, chat : 1..MaxChats, part : 1..MaxParts, family : BOOLEAN,
           repoint : BOOLEAN, next : 0..MaxParts]
Posted  == [op : {"posted"}, chat : 1..MaxChats, message : 1..MaxMessages]
Running == [op : {"running"}, chat : 1..MaxChats, run : 1..MaxRuns]
InTurn  == [op : {"turn"}, chat : 1..MaxChats, run : 1..MaxRuns, speaker : 0..MaxParts]
Request == Listing \cup Invite \cup Remove \cup Posted \cup Running \cup InTurn

\* What a chat is opened with. No request is the absence of one.
Opening == [kind : Kinds, shared : BOOLEAN, people : {S \in SUBSET Persons : IsFiniteSet(S)},
            assistants : SUBSET Assistants]

ASSUME InputsAssumption ==
  /\ Openings \subseteq Opening
  /\ Invitations \subseteq Assistants \X Modes \X BOOLEAN
  /\ NULL \notin Request \cup Sessions \cup Assistants

Active(c) == {i \in DOMAIN parts : parts[i].chat = c /\ ~parts[i].removed}

ActiveAssistants(c) == {i \in Active(c) : parts[i].who \in Assistants}

Present(c, w) == {i \in Active(c) : parts[i].who = w}

First(S) == CHOOSE i \in S : \A j \in S : i <= j

Visible(p, c) == \/ chats[c].shared
                 \/ Present(c, p) # {}
                 \/ chats[c].kind = "assistant" /\ chats[c].owner = p

Room(n) == Len(messages) + n <= MaxMessages

\* A message of the system in chat c, and one of participant i about run r.
Note(c)      == [chat |-> c, by |-> 0, run |-> 0]
Said(c, i, r) == [chat |-> c, by |-> i, run |-> r]

---------------------------------------------------------------------------
(* Chats                                                                   *)

\* list_conversations finds for which assistants a person has no private chat.
BeginList(s, p) ==
  LET mine    == {c \in DOMAIN chats : Present(c, p) # {} /\ chats[c].kind = "assistant"}
      missing == {a \in Inboxes : \A c \in mine : Present(c, a) = {}}
  IN  /\ session[s] = NULL
      /\ missing # {}
      /\ session' = [session EXCEPT ![s] = [op |-> "list", who |-> p, missing |-> missing]]
      /\ UNCHANGED <<rows, loop, chatter, history>>

\* The private chats it seeds, in the order of ASSISTANT_DEFINITIONS.
Seeded(order, p, n, k) ==
  [cs |-> [i \in 1..Len(order) |-> [kind |-> "assistant", shared |-> FALSE, owner |-> p,
                                    seeded |-> TRUE, primary |-> k + 2 * i]],
   ps |-> [j \in 1..(2 * Len(order)) |->
             [chat |-> n + (j + 1) \div 2, mode |-> "active", removed |-> FALSE,
              who |-> IF j % 2 = 1 THEN p ELSE order[j \div 2]]],
   ms |-> [i \in 1..Len(order) |-> Note(n + i)]]

Orders(S) == {f \in [1..Cardinality(S) -> S] : \A i, j \in DOMAIN f : i # j => f[i] # f[j]}

CommitList(s) ==
  /\ session[s] # NULL /\ session[s].op = "list"
  /\ \E order \in Orders(session[s].missing) :
       LET new == Seeded(order, session[s].who, Len(chats), Len(parts))
       IN  /\ Len(chats) + Len(new.cs) <= MaxChats /\ Len(parts) + Len(new.ps) <= MaxParts
           /\ Room(Len(new.ms))
           /\ chats' = chats \o new.cs
           /\ parts' = parts \o new.ps
           /\ messages' = messages \o new.ms
  /\ doubled' = IF \E t \in Sessions \ {s} : /\ session[t] # NULL /\ session[t].op = "list"
                                             /\ session[t].who = session[s].who
                THEN doubled \cup {session[s].who} ELSE doubled
  /\ session' = [session EXCEPT ![s] = NULL]
  /\ UNCHANGED <<runs, proposals, loop, chatter, orphans, raced, restarts>>

\* Participants of a new chat: the people named, then the assistants in order.
Joined(c, named, order, mode) ==
  [i \in DOMAIN named |-> [chat |-> c, who |-> named[i], mode |-> "passive", removed |-> FALSE]]
    \o [i \in DOMAIN order |-> [chat |-> c, who |-> order[i], mode |-> mode, removed |-> FALSE]]

\* create_conversation: rows of its own only, so one step.
CreateChat(p, new, order) ==
  LET kind   == new.kind
      people == {p} \cup new.people
      c    == Len(chats) + 1
      k    == Len(parts) + Cardinality(people)
      mode == IF kind = "assistant" THEN "active" ELSE "passive"
  IN  /\ kind = "assistant" => Len(order) = 1
      /\ c <= MaxChats /\ k + Len(order) <= MaxParts /\ Room(1)
      /\ \E named \in Orders(people) : parts' = parts \o Joined(c, named, order, mode)
      /\ \E primary \in IF order = <<>> THEN {0} ELSE (k + 1)..(k + Len(order)) :
           chats' = Append(chats, [kind |-> IF kind = "family" /\ order # <<>> THEN "hybrid"
                                            ELSE kind,
                                   shared |-> new.shared, owner |-> p, seeded |-> FALSE,
                                   primary |-> primary])
      /\ messages' = Append(messages, Note(c))
      /\ UNCHANGED <<runs, proposals, session, loop, chatter, history>>

---------------------------------------------------------------------------
(* Who takes part                                                          *)

BeginInvite(s, p, c, a, mode, setPrimary) ==
  LET existing == Present(c, a)
  IN  /\ session[s] = NULL
      /\ Visible(p, c)
      /\ session' = [session EXCEPT ![s] =
           [op |-> "invite", chat |-> c, who |-> a, mode |-> mode,
            part |-> IF existing = {} THEN 0 ELSE First(existing),
            hybrid |-> chats[c].kind = "family",
            primary |-> setPrimary \/ chats[c].primary = 0]]
      /\ UNCHANGED <<rows, loop, chatter, history>>

\* Mutant: the participant that leaves, not flushed yet, counts among the others.
BeginRemoveUnflushed(s, p, c, i) ==
  LET others == ActiveAssistants(c)
  IN  /\ session[s] = NULL
      /\ Visible(p, c)
      /\ parts[i].chat = c
      /\ session' = [session EXCEPT ![s] =
           [op |-> "remove", chat |-> c, part |-> i,
            family |-> others = {} /\ chats[c].kind = "hybrid",
            repoint |-> chats[c].primary = i,
            next |-> IF others = {} THEN 0 ELSE First(others)]]
      /\ UNCHANGED <<rows, loop, chatter, history>>

BeginRemove(s, p, c, i) ==
  LET others == ActiveAssistants(c) \ {i}
  IN  /\ session[s] = NULL
      /\ Visible(p, c)
      /\ parts[i].chat = c
      /\ session' = [session EXCEPT ![s] =
           [op |-> "remove", chat |-> c, part |-> i,
            family |-> others = {} /\ chats[c].kind = "hybrid",
            repoint |-> chats[c].primary = i,
            next |-> IF others = {} THEN 0 ELSE First(others)]]
      /\ UNCHANGED <<rows, loop, chatter, history>>

Membership == {"invite", "remove"}

\* A chat on which another membership request has read and not yet written.
NoteRace(s, c) ==
  raced' = IF \E t \in Sessions \ {s} : /\ session[t] # NULL
                                        /\ session[t].op \in Membership
                                        /\ session[t].chat = c
           THEN raced \cup {c} ELSE raced

CommitInvite(s) ==
  LET r == session[s]
      i == IF r.part = 0 THEN Len(parts) + 1 ELSE r.part
  IN  /\ r # NULL /\ r.op = "invite"
      /\ i <= MaxParts /\ Room(1)
      /\ parts' = IF r.part = 0
                  THEN Append(parts, [chat |-> r.chat, who |-> r.who, mode |-> r.mode,
                                      removed |-> FALSE])
                  ELSE [parts EXCEPT ![i].mode = r.mode]
      /\ chats' = [chats EXCEPT ![r.chat].kind = IF r.hybrid THEN "hybrid" ELSE @,
                                ![r.chat].primary = IF r.primary THEN i ELSE @]
      /\ messages' = Append(messages, Note(r.chat))
      /\ NoteRace(s, r.chat)
      /\ session' = [session EXCEPT ![s] = NULL]
      /\ UNCHANGED <<runs, proposals, loop, chatter, orphans, doubled, restarts>>

CommitRemove(s) ==
  LET r == session[s]
  IN  /\ r # NULL /\ r.op = "remove"
      /\ Room(1)
      /\ parts' = [parts EXCEPT ![r.part].removed = TRUE]
      /\ chats' = [chats EXCEPT ![r.chat].kind = IF r.family THEN "family" ELSE @,
                                ![r.chat].primary = IF r.repoint THEN r.next ELSE @]
      /\ messages' = Append(messages, Note(r.chat))
      /\ NoteRace(s, r.chat)
      /\ session' = [session EXCEPT ![s] = NULL]
      /\ UNCHANGED <<runs, proposals, loop, chatter, orphans, doubled, restarts>>

---------------------------------------------------------------------------
(* A message and the turn it asks for                                      *)

\* create_message up to its first await: the message of a participant.
PostMessage(s, p, c) ==
  /\ session[s] = NULL /\ loop = NULL
  /\ Visible(p, c) /\ Present(c, p) # {}
  /\ Room(1)
  /\ messages' = Append(messages, Said(c, First(Present(c, p)), 0))
  /\ session' = [session EXCEPT ![s] = [op |-> "posted", chat |-> c,
                                        message |-> Len(messages) + 1]]
  /\ \E l \in {s, NULL} : loop' = l
  /\ UNCHANGED <<chats, parts, runs, proposals, chatter, history>>

\* select_assistant_for_message. explicit is assistant_id or NULL; mentioned the
\* assistants the text names; invoke the flag of the request.
Selected(c, explicit, mentioned, invoke) ==
  LET here   == ActiveAssistants(c)
      called == {a \in mentioned : Present(c, a) # {}}
      ready  == {i \in here : parts[i].mode = "active"}
      main   == chats[c].primary
  IN  CASE chats[c].kind = "assistant" ->
             IF here = {} THEN {} ELSE {parts[First(here)].who}
        [] chats[c].kind # "assistant" /\ explicit # NULL -> {explicit}
        [] chats[c].kind # "assistant" /\ explicit = NULL /\ called # {} -> called
        [] OTHER -> IF ~invoke \/ ready = {} THEN {}
                    ELSE {parts[IF main \in ready THEN main ELSE First(ready)].who}

\* The rest up to the next await: a run with its activities, or nothing to do.
StartRun(s, explicit, mentioned, invoke, acts) ==
  LET r == session[s]
      chosen == Selected(r.chat, explicit, mentioned, invoke)
  IN  /\ r # NULL /\ r.op = "posted"
      /\ loop \in {s, NULL}
      /\ \/ /\ chosen = {}
            /\ session' = [session EXCEPT ![s] = NULL]
            /\ loop' = NULL
            /\ UNCHANGED runs
         \/ \E a \in chosen :
              /\ Len(runs) < MaxRuns
              /\ runs' = Append(runs, [chat |-> r.chat, trigger |-> r.message, assistant |-> a,
                                       status |-> "running", acts |-> acts, text |-> "none"])
              /\ session' = [session EXCEPT ![s] = [op |-> "running", chat |-> r.chat,
                                                    run |-> Len(runs) + 1]]
              /\ \E l \in IF acts = "none" THEN {s} ELSE {s, NULL} : loop' = l
      /\ UNCHANGED <<chats, parts, messages, proposals, chatter, history>>

\* The participants are read again, then the assistant runs; the loop is held.
StartTurn(s) ==
  LET r == session[s]
      a == Present(r.chat, runs[r.run].assistant)
  IN  /\ r # NULL /\ r.op = "running"
      /\ loop \in {s, NULL}
      /\ loop' = s
      /\ chatter' = {}
      /\ session' = [session EXCEPT ![s] = [op |-> "turn", chat |-> r.chat, run |-> r.run,
                                            speaker |-> IF a = {} THEN 0 ELSE First(a)]]
      /\ UNCHANGED <<rows, history>>

\* Another session of the assistant, on another channel, finishes an answer.
AnswerElsewhere(a) ==
  /\ \E s \in Sessions : session[s] # NULL /\ session[s].op = "turn"
  /\ a \notin chatter
  /\ chatter' = chatter \cup {a}
  /\ UNCHANGED <<rows, session, loop, history>>

\* Where run_turn finds the text: the reply of the turn, or, when the turn stopped
\* early, the newest final answer in any recent session log of the assistant.
Texts(a) == IF a \in chatter THEN {"own", "other"} ELSE {"own"}

EndTurn(s, outcome) ==
  LET r == session[s]
  IN  /\ r # NULL /\ r.op = "turn"
      /\ \E text \in IF outcome = "failed" THEN {"none"} ELSE Texts(runs[r.run].assistant) :
           runs' = [runs EXCEPT ![r.run].status = outcome,
                                ![r.run].acts = IF @ = "none" THEN @ ELSE outcome,
                                ![r.run].text = text]
      /\ messages' = Append(messages, Said(r.chat, IF outcome = "failed" THEN 0 ELSE r.speaker,
                                           r.run))
      /\ session' = [session EXCEPT ![s] = NULL]
      /\ loop' = NULL
      /\ UNCHANGED <<chats, parts, proposals, chatter, history>>

\* The process dies and is started again: nothing looks for its runs.
Restart ==
  /\ restarts < MaxRestarts
  /\ \E s \in Sessions : session[s] # NULL
  /\ restarts' = restarts + 1
  /\ orphans' = {r \in DOMAIN runs : runs[r].status = "running"}
  /\ session' = [s \in Sessions |-> NULL]
  /\ loop' = NULL
  /\ UNCHANGED <<rows, chatter, raced, doubled>>

---------------------------------------------------------------------------
(* Summaries, shares and proposals: one step each                          *)

Summarize(p, c) ==
  /\ Visible(p, c) /\ Room(1)
  /\ messages' = Append(messages, Note(c))
  /\ UNCHANGED <<chats, parts, runs, proposals, session, loop, chatter, history>>

Share(p, m, c) ==
  /\ Visible(p, messages[m].chat)
  /\ Summarize(p, c)

Convert(p, c) ==
  /\ Visible(p, c) /\ Room(1) /\ Len(proposals) < MaxProposals
  /\ messages' = Append(messages, Note(c))
  /\ proposals' = Append(proposals, [chat |-> c, message |-> Len(messages) + 1,
                                     status |-> "proposed"])
  /\ UNCHANGED <<chats, parts, runs, session, loop, chatter, history>>

\* confirm, commit and cancel, whatever the proposal's status is.
MutateAction(p, n, next) ==
  /\ Visible(p, proposals[n].chat) /\ Room(1)
  /\ proposals' = [proposals EXCEPT ![n].status = next]
  /\ messages' = Append(messages, Note(proposals[n].chat))
  /\ UNCHANGED <<chats, parts, runs, session, loop, chatter, history>>

---------------------------------------------------------------------------
Init ==
  /\ chats = <<>> /\ parts = <<>> /\ messages = <<>> /\ runs = <<>> /\ proposals = <<>>
  /\ session = [s \in Sessions |-> NULL]
  /\ loop = NULL
  /\ chatter = {} /\ orphans = {} /\ raced = {} /\ doubled = {}
  /\ restarts = 0

Creates(p) ==
  \E new \in Openings : \E order \in Orders(new.assistants) : CreateChat(p, new, order)

Turn(s) ==
  \/ \E explicit \in Assistants \cup {NULL}, mentioned \in SUBSET Assistants,
        invoke \in BOOLEAN, acts \in {"none", "running"} :
       StartRun(s, explicit, mentioned, invoke, acts)
  \/ StartTurn(s)
  \/ \E outcome \in {"completed", "failed"} : EndTurn(s, outcome)

Next ==
  \/ \E p \in Persons : Creates(p)
  \/ \E s \in Sessions, p \in Persons :
       \/ BeginList(s, p)
       \/ \E c \in DOMAIN chats :
            \/ \E new \in Invitations : BeginInvite(s, p, c, new[1], new[2], new[3])
            \/ \E i \in DOMAIN parts : BeginRemove(s, p, c, i)
            \/ PostMessage(s, p, c)
  \/ \E s \in Sessions : CommitList(s) \/ CommitInvite(s) \/ CommitRemove(s) \/ Turn(s)
  \/ \E a \in Assistants : AnswerElsewhere(a)
  \/ \E p \in Persons, c \in DOMAIN chats :
       \/ Summarize(p, c)
       \/ \E m \in DOMAIN messages : Share(p, m, c)
       \/ Convert(p, c)
  \/ \E p \in Persons, n \in DOMAIN proposals, next \in {"confirmed", "committed", "canceled"} :
       MutateAction(p, n, next)
  \/ Restart

Spec == Init /\ [][Next]_vars

---------------------------------------------------------------------------
(* Properties                                                              *)

\* Every variable keeps its type: the rows of the tables, where each request is and
\* who holds the event loop.
TypeOK ==
  /\ \A i \in DOMAIN chats : chats[i] \in Chat
  /\ \A i \in DOMAIN parts : parts[i] \in Part
  /\ \A i \in DOMAIN messages : messages[i] \in Message
  /\ \A i \in DOMAIN runs : runs[i] \in Run
  /\ \A i \in DOMAIN proposals : proposals[i] \in Proposal
  /\ session \in [Sessions -> Request \cup {NULL}]
  /\ loop \in Sessions \cup {NULL}
  /\ chatter \subseteq Assistants
  /\ orphans \subseteq DOMAIN runs
  /\ raced \subseteq DOMAIN chats /\ doubled \subseteq Persons

Handling(r) == {s \in Sessions : /\ session[s] # NULL
                                 /\ session[s].op \in {"running", "turn"}
                                 /\ session[s].run = r}

Replies(r) == {m \in DOMAIN messages : messages[m].run = r}

\* create_message settles what it starts: a run that is not running has exactly one
\* reply, in its own chat and after the message that asked for it, and its
\* activities are settled with it; a running one has none, and either one
\* request is still handling it or the process died under it.
TurnsSettled ==
  \A r \in DOMAIN runs :
    IF runs[r].status = "running"
    THEN /\ Replies(r) = {} /\ runs[r].acts \in {"none", "running"}
         /\ Cardinality(Handling(r)) = 1 \/ r \in orphans
    ELSE /\ Cardinality(Replies(r)) = 1
         /\ \A m \in Replies(r) : m > runs[r].trigger /\ messages[m].chat = runs[r].chat
         /\ runs[r].acts \in {"none", runs[r].status}
         /\ Handling(r) = {}

\* Turns never overlap: one turn of an assistant is over before any other begins, so
\* two messages of one chat never drive one assistant session at once.
TurnsSerial ==
  \A s, t \in Sessions : \/ s = t
                         \/ session[s] = NULL \/ session[t] = NULL
                         \/ session[s].op # "turn" \/ session[t].op # "turn"

\* Who speaks for an assistant in a chat took part in that chat, as that assistant.
RepliesByMember ==
  \A m \in DOMAIN messages : (messages[m].run # 0 /\ messages[m].by # 0) =>
    /\ parts[messages[m].by].chat = messages[m].chat
    /\ parts[messages[m].by].who = runs[messages[m].run].assistant

\* The private chats of p and a that list_conversations seeded and nobody left: the
\* participants it seeded for the two are next to each other.
OpenInboxes(p, a) ==
  {c \in DOMAIN chats : /\ chats[c].seeded /\ chats[c].owner = p
                        /\ \E i \in Present(c, p) : i + 1 \in Present(c, a)}

\* A person gets a second private chat with an assistant they already have one with
\* only when two of their lists of chats overlapped.
InboxesSeededOnce ==
  \A p \in Persons \ doubled, a \in Inboxes : Cardinality(OpenInboxes(p, a)) <= 1

\* Membership stays consistent but for overlapping invitations and removals: a family
\* chat has no assistant, and the primary assistant of a chat takes part in it.
MembershipConsistent ==
  \A c \in DOMAIN chats \ raced :
    /\ chats[c].kind = "family" => ActiveAssistants(c) = {}
    /\ chats[c].primary # 0 => chats[c].primary \in ActiveAssistants(c)

\* All of the above, through requests that overlap at every await and a process that dies
\* among them (create_message, invite_assistant, remove_participant, list_conversations).
ConversationsHold ==
  /\ TypeOK /\ TurnsSettled /\ TurnsSerial /\ RepliesByMember
  /\ InboxesSeededOnce /\ MembershipConsistent
=============================================================================
