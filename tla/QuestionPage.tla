----------------------------- MODULE QuestionPage -----------------------------
(***************************************************************************)
(* The page of the question service: what a browser shows while its calls  *)
(* are answered in any order. Loading the questions keeps the selection    *)
(* when it can; an effect loads the history of the question selected and   *)
(* fills the box for its answer whenever the questions were loaded anew.   *)
(*                                                                         *)
(* A button's chain ends with a load for the family and the filters of     *)
(* when it was pressed. Left out: sorting, expanded rows, contexts and     *)
(* the messages about errors; of a question only that it is there.         *)
(***************************************************************************)
EXTENDS Integers, Sequences, SequencesExt

CONSTANTS
  Families,  \* a sequence: the memberships of the viewer
  Questions, \* family -> its questions
  Filters,   \* filters -> the questions they let pass
  NoFilters, \* the filters a family begins with
  MaxCalls,  \* bound on calls in flight
  NULL

VARIABLES
  page,
  calls,  \* calls in flight, in the order they were sent
  there,  \* the server: family -> questions there are
  smooth  \* history: since a family was picked at rest, answers came in order and none was
          \* an error

vars == <<page, calls, there, smooth>>

Call(op, family, filters, question, by) ==
  [op |-> op, family |-> family, filters |-> filters, question |-> question, by |-> by]

\* Mutant: the history is only loaded when another question is selected.
HistoryAfterSelection(old, new, loaded) ==
  IF new.selected # old.selected /\ NULL \notin {new.family, new.selected}
  THEN <<Call("history", new.family, NULL, new.selected, NULL)>> ELSE <<>>

\* The effect on the family, the selection and the questions.
HistoryAfter(old, new, loaded) ==
  IF /\ loaded \/ <<new.family, new.selected>> # <<old.family, old.selected>>
     /\ NULL \notin {new.family, new.selected}
  THEN <<Call("history", new.family, NULL, new.selected, NULL)>> ELSE <<>>

\* The page becomes p and calls next go out; loaded when the questions were set.
Show(p, rest, next, loaded) ==
  /\ page' = IF NULL \in {p.family, p.selected} THEN [p EXCEPT !.history = NULL] ELSE p
  /\ calls' = rest \o next \o HistoryAfter(page, p, loaded)
  /\ Len(calls') <= MaxCalls

\* loadQuestions and bootstrapFamily until their first await: loading, until the first of
\* the loads in flight is answered or fails.
Loading(p) == [p EXCEPT !.loading = TRUE]

Load(c) == <<[c EXCEPT !.op = "list"]>>

\* loadQuestions: the selection stays if it is still in the list.
ListAnswered(c, rest) ==
  LET items == there[c.family] \cap Filters[c.filters]
  IN  \E s \in items \cup (IF items = {} THEN {NULL} ELSE {}) :
        /\ page.selected \in items => s = page.selected
        /\ Show([page EXCEPT !.list = [family |-> c.family, filters |-> c.filters, items |-> items],
                             !.applied = c.filters, !.selected = s, !.loading = FALSE], rest, <<>>, TRUE)

\* bootstrapFamily until its first await.
Bootstrap(p, family) ==
  Loading([p EXCEPT !.family = family, !.list = NULL, !.history = NULL])

Boot(family) == <<Call("context", family, NoFilters, NULL, NULL)>>

\* bootstrapFamily after its first await.
ContextAnswered(c, rest) ==
  Show(Loading([page EXCEPT !.applied = NoFilters]), rest, Load(c), FALSE)

\* A question that is gone or of another family is an error, which changes nothing shown.
HistoryAnswered(c, rest) ==
  Show(IF c.question \in there[c.family]
       THEN [page EXCEPT !.history = c.question, !.box = c.question] ELSE page, rest, <<>>, FALSE)

\* What a button asked for is done: answers and resolutions leave the question there.
Done(c) ==
  there' = CASE c.op = "delete" -> [there EXCEPT ![c.family] = @ \ {c.question}]
             [] c.op = "purge"  -> [there EXCEPT ![c.family] = @ \ Filters[c.filters]]
             [] OTHER           -> there

Answer(i) ==
  LET c    == calls[i]
      rest == RemoveAt(calls, i)
  IN  /\ smooth' = (smooth /\ i = 1)
      /\ Done(c)
      /\ \/ c.op = "me" /\ Show(Bootstrap(page, Families[1]), rest, Boot(Families[1]), TRUE)
         \/ c.op = "context" /\ ContextAnswered(c, rest)
         \/ c.op = "list" /\ ListAnswered(c, rest)
         \/ c.op = "history" /\ HistoryAnswered(c, rest)
         \/ c.op \in {"answer", "resolve", "purge", "delete"}
              /\ Show(Loading(page), rest, <<[c EXCEPT !.op = "list", !.filters = c.by]>>, FALSE)

Fail(i) ==
  /\ smooth' = FALSE
  /\ Show(IF calls[i].op \in {"me", "context", "list"} THEN [page EXCEPT !.loading = FALSE] ELSE page,
          RemoveAt(calls, i), <<>>, FALSE)
  /\ UNCHANGED there

---------------------------------------------------------------------------
(* The viewer                                                              *)

Saving == \E i \in DOMAIN calls : calls[i].by # NULL

\* A button: its chain goes on with the filters applied when it was pressed.
Press(op, filters, question) ==
  /\ page.family # NULL /\ ~Saving
  /\ Show(page, calls, <<Call(op, page.family, filters, question, page.applied)>>, FALSE)
  /\ UNCHANGED <<there, smooth>>

Shown == page.list # NULL /\ page.selected \in page.list.items

\* submitAnswer: what is in the box, for the question selected.
SubmitAnswer == Shown /\ page.box # NULL /\ Press("answer", NULL, page.selected)

ResolveSelected == Shown /\ Press("resolve", NULL, page.selected)

DeleteSelected == Shown /\ Press("delete", NULL, page.selected)

PurgeFiltered == \E f \in {page.applied, NoFilters} : Press("purge", f, NULL)

\* submitFilters, handleResetFilters and the refresh: not disabled by a chain of a button.
SubmitFilters ==
  /\ page.family # NULL /\ ~page.loading
  /\ \E f \in DOMAIN Filters :
       Show(Loading(page), calls, <<Call("list", page.family, f, NULL, NULL)>>, FALSE)
  /\ UNCHANGED <<there, smooth>>

PickQuestion ==
  /\ page.list # NULL
  /\ \E s \in page.list.items : Show([page EXCEPT !.selected = s], calls, <<>>, FALSE)
  /\ UNCHANGED <<there, smooth>>

\* handleFamilyChange
PickFamily ==
  /\ page.family # NULL
  /\ \E f \in Range(Families) \ {page.family} : Show(Bootstrap(page, f), calls, Boot(f), TRUE)
  /\ smooth' = (smooth \/ calls = <<>>)
  /\ UNCHANGED there

---------------------------------------------------------------------------
Init ==
  /\ page = [family |-> NULL, list |-> NULL, applied |-> NoFilters, selected |-> NULL,
             history |-> NULL, box |-> NULL, loading |-> TRUE]
  /\ calls = <<Call("me", NULL, NULL, NULL, NULL)>>
  /\ there = Questions
  /\ smooth = TRUE

Next ==
  \/ \E i \in DOMAIN calls : Answer(i) \/ Fail(i)
  \/ SubmitAnswer \/ ResolveSelected \/ DeleteSelected \/ PurgeFiltered
  \/ SubmitFilters \/ PickQuestion \/ PickFamily

Spec == Init /\ [][Next]_vars

\* At rest the questions listed are of the family and the filters there are, and the history
\* and the text in the box are of the question selected, whatever was picked, selected,
\* answered, filtered or deleted while calls were in flight, as long as no call failed or was
\* overtaken (loadQuestions, the effect of the history).
ShownIsSelected ==
  calls = <<>> /\ smooth =>
    /\ page.list.family = page.family /\ page.list.filters = page.applied
    /\ page.selected \in page.list.items \cup {NULL}
    /\ page.history = page.selected
    /\ page.selected # NULL => page.box = page.selected
=============================================================================
