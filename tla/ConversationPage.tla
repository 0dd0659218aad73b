--------------------------- MODULE ConversationPage ---------------------------
(***************************************************************************)
(* The page of the conversation workspace: what a browser shows while its  *)
(* calls are answered in any order and the server tells it of news at any  *)
(* time. The conversation selected and the one shown are two states: a     *)
(* message goes to the first, the buttons act on the second.               *)
(*                                                                         *)
(* An effect refills the composer from the drafts, and drops what is to go *)
(* with the message, whenever the drafts, the selection or the             *)
(* conversation shown change. Left out: contexts, assistants, search, the  *)
(* forms and the messages; the text of a conversation's draft is one       *)
(* value, the conversation it was typed for.                               *)
(***************************************************************************)
EXTENDS Integers, Sequences, SequencesExt, FiniteSets

CONSTANTS
  Convs,     \* conversations there may be
  MaxCalls,  \* bound on calls in flight
  NULL

VARIABLES
  page,
  calls,  \* calls in flight, in the order they were sent
  there,  \* the server: conversations there are
  smooth  \* history: since all was at rest with nothing shown but what is selected, answers
          \* came in order, none was an error, and nothing but conversations was picked over
          \* calls in flight

vars == <<page, calls, there, smooth>>

Call(op, conv) == [op |-> op, conv |-> conv]

\* The effect on the drafts, the conversation shown and the selection.
Refilled(p) ==
  IF p.selected = NULL THEN p
  ELSE [p EXCEPT !.composer = p.drafts[p.selected], !.attachments = {}, !.quick = FALSE]

\* The effect that keeps a target to share messages with.
Targeted(p) ==
  LET options == p.list \ {p.shown}
  IN  IF p.shown = NULL \/ p.target \in options THEN {p}
      ELSE {[p EXCEPT !.target = x] : x \in IF options = {} THEN {NULL} ELSE options}

\* The page becomes p, with its effects, and calls next go out.
Show(p, rest, next) ==
  /\ page' \in Targeted(p)
  /\ calls' = rest \o next
  /\ Len(calls') <= MaxCalls

\* refreshConversations until its first await.
Refresh(conv) == <<Call("list", conv)>>

\* listConversations of refreshConversations: the preferred one, or the first.
ListAnswered(c, rest) ==
  LET p == [page EXCEPT !.list = there]
  IN  IF c.conv # NULL THEN Show(p, rest, <<Call("detail", c.conv)>>)
      ELSE IF there = {} THEN Show([p EXCEPT !.shown = NULL, !.selected = NULL], rest, <<>>)
      ELSE \E x \in there : Show(p, rest, <<Call("detail", x)>>)

\* The bootstrap selects the first conversation before it is loaded.
BootAnswered(rest) ==
  IF there = {} THEN Show([page EXCEPT !.booted = TRUE], rest, <<>>)
  ELSE \E x \in there :
         Show(Refilled([page EXCEPT !.booted = TRUE, !.list = there, !.selected = x]), rest,
              <<Call("open", x)>>)

\* getConversation of refreshConversations: what is shown is selected.
DetailAnswered(c, rest) ==
  Show(Refilled([page EXCEPT !.shown = c.conv, !.selected = c.conv]), rest, <<>>)

\* handleSendMessage, once the message is stored: the draft of the conversation it went to
\* is cleared, with what was typed meanwhile.
SendAnswered(c, rest) ==
  Show(Refilled([page EXCEPT !.shown = c.conv, !.drafts[c.conv] = NULL]), rest, Refresh(c.conv))

Answer(i) ==
  LET c    == calls[i]
      rest == RemoveAt(calls, i)
  IN  /\ smooth' = (smooth /\ i = 1)
      /\ there' = IF c.op = "create" THEN there \cup {c.conv} ELSE there
      /\ \/ c.op = "me" /\ BootAnswered(rest)
         \/ c.op = "list" /\ ListAnswered(c, rest)
         \/ c.op = "detail" /\ DetailAnswered(c, rest)
         \/ c.op = "open" /\ Show(Refilled([page EXCEPT !.shown = c.conv]), rest, <<>>)
         \/ c.op = "send" /\ SendAnswered(c, rest)
         \/ c.op = "upload" /\ Show([page EXCEPT !.attachments = @ \cup {c.conv}], rest, <<>>)
         \/ c.op = "change" /\ Show(Refilled([page EXCEPT !.shown = c.conv]), rest, Refresh(c.conv))
         \/ c.op \in {"convert", "share", "create"} /\ Show(page, rest, Refresh(c.conv))

Fail(i) ==
  /\ smooth' = FALSE
  /\ Show(page, RemoveAt(calls, i), <<>>)
  /\ UNCHANGED there

---------------------------------------------------------------------------
(* The viewer and the server                                               *)

InFlight(op) == \E i \in DOMAIN calls : calls[i].op = op

\* A button: what it asks for is about conv, or leads to it.
Press(op, conv) ==
  /\ Show(page, calls, <<Call(op, conv)>>)
  /\ smooth' = (smooth /\ calls = <<>>)
  /\ UNCHANGED there

\* The websocket of the conversation selected says there is news.
Notified ==
  /\ page.selected # NULL /\ Show(page, calls, Refresh(page.selected))
  /\ smooth' = (smooth \/ calls = <<>>)
  /\ UNCHANGED there

OpenConversation ==
  /\ \E x \in page.list :
       Show(IF x = page.selected THEN page ELSE Refilled([page EXCEPT !.selected = x]), calls,
            <<Call("open", x)>>)
  /\ smooth' = (calls = <<>> \/ (smooth /\ \A i \in DOMAIN calls : calls[i].op = "open"))
  /\ UNCHANGED there

\* setDraftValue: also the draft of the conversation changes, so the effect runs.
Type ==
  /\ page.selected # NULL
  /\ Show(Refilled([page EXCEPT !.drafts[page.selected] = page.selected]), calls, <<>>)
  /\ UNCHANGED <<there, smooth>>

PickQuickAction ==
  /\ page.shown # NULL /\ Show([page EXCEPT !.quick = TRUE], calls, <<>>)
  /\ UNCHANGED <<there, smooth>>

SendMessage ==
  /\ page.selected # NULL /\ ~InFlight("send")
  /\ page.composer # NULL \/ page.attachments # {}
  /\ Press("send", page.selected)

Upload == page.selected # NULL /\ Press("upload", page.selected)

\* handleInviteAssistant, handleRemoveParticipant, handleCreateSummary
ChangeConversation == page.shown # NULL /\ Press("change", page.shown)

\* handleConvert, handleActionMutation
Convert == page.shown # NULL /\ Press("convert", page.shown)

\* handleShareSelectedMessage: afterwards the conversation selected is loaded.
ShareMessage == page.target # NULL /\ page.selected # NULL /\ Press("share", page.selected)

CreateConversation ==
  /\ page.booted /\ ~InFlight("create")
  /\ \E new \in Convs \ there : Press("create", new)

---------------------------------------------------------------------------
Init ==
  /\ page = [booted |-> FALSE, list |-> {}, selected |-> NULL, shown |-> NULL,
             drafts |-> [x \in Convs |-> NULL], composer |-> NULL, attachments |-> {},
             quick |-> FALSE, target |-> NULL]
  /\ calls = <<Call("me", NULL)>>
  /\ there \in SUBSET Convs
  /\ smooth = TRUE

Next ==
  \/ \E i \in DOMAIN calls : Answer(i) \/ Fail(i)
  \/ Notified \/ OpenConversation \/ Type \/ PickQuickAction \/ SendMessage \/ Upload
  \/ ChangeConversation \/ Convert \/ ShareMessage \/ CreateConversation

Spec == Init /\ [][Next]_vars

\* What is in the composer was typed for the conversation it would be sent to, in whatever
\* order anything is answered; and at rest that conversation is the one shown, whatever was
\* picked and whatever news came, as long as no call failed or was overtaken and nothing but
\* conversations was picked, and that only over their own loading (page.tsx, the effect on
\* drafts, openConversation and refreshConversations).
ShownIsSelected ==
  /\ page.selected # NULL => page.composer \in {NULL, page.selected}
  /\ calls = <<>> /\ smooth =>
       /\ page.shown = page.selected
       /\ page.target \notin {page.shown} \ {NULL}
=============================================================================
