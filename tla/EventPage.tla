------------------------------ MODULE EventPage ------------------------------
(***************************************************************************)
(* The page of the event viewer: what a browser shows while its calls are  *)
(* answered in any order. A search keeps the family and the filters it     *)
(* began with. The effect that offers values for the filters cancels its   *)
(* predecessor: of its calls only the last is listened to.                 *)
(*                                                                         *)
(* Filters are one value and an offset. Left out: sorting, expanded rows,  *)
(* a draft that still lacks its person, and the messages about errors.     *)
(***************************************************************************)
EXTENDS Integers, Sequences, SequencesExt

CONSTANTS
  Families,  \* a sequence: the memberships of the viewer
  Filters,   \* values of the filters
  Default,   \* family -> the filters its context begins with
  MaxOffset, \* bound of the offset, in pages
  MaxCalls,  \* bound on calls in flight
  NULL

VARIABLES
  page,
  calls,   \* calls in flight but those of the options, in the order they were sent
  asking,  \* NULL or what the last call for options is about, from its timer on
  smooth   \* history: since the family was picked at rest, answers came in order and none
           \* was an error

vars == <<page, calls, asking, smooth>>

Call(op, family, filters, offset) ==
  [op |-> op, family |-> family, filters |-> filters, offset |-> offset]

\* buildFilterOptionPayload
Asked(p) == [family |-> p.family, filters |-> p.draft]

\* The effect that loads the options: its cleanup cancels the call before.
AskingAfter(old, new, again) ==
  IF ~again /\ Asked(old) = Asked(new) /\ old.context = new.context THEN asking
  ELSE IF new.family = NULL \/ ~new.context THEN NULL ELSE Asked(new)

\* The page becomes p and calls next go out; again when the context is another object.
Show(p, rest, next, again) ==
  /\ page' = p
  /\ calls' = rest \o next
  /\ Len(calls') <= MaxCalls
  /\ asking' = AskingAfter(page, p, again)

\* runSearch
Search(p) == [p EXCEPT !.searching = TRUE]

SearchCall(family, filters, offset) == <<Call("search", family, filters, offset)>>

\* bootstrapFamily until its first await.
Bootstrap(p, family) ==
  [p EXCEPT !.family = family, !.context = FALSE, !.results = NULL, !.options = NULL]

\* bootstrapFamily after its first await: the defaults of the family, and a search.
ContextAnswered(c, rest) ==
  LET d == Default[c.family]
  IN  Show(Search([page EXCEPT !.context = TRUE, !.draft = d, !.applied = d, !.offset = 0]),
           rest, SearchCall(c.family, d, 0), TRUE)

SearchAnswered(c, rest) ==
  Show([page EXCEPT !.searching = FALSE,
          !.results = [family |-> c.family, filters |-> c.filters, offset |-> c.offset]],
       rest, <<>>, FALSE)

Answer(i) ==
  LET c    == calls[i]
      rest == RemoveAt(calls, i)
  IN  /\ smooth' = (smooth /\ i = 1)
      /\ \/ /\ c.op = "me"
            /\ Show(Bootstrap(page, Families[1]), rest, <<Call("context", Families[1], NULL, 0)>>, FALSE)
         \/ c.op = "context" /\ ContextAnswered(c, rest)
         \/ c.op = "search" /\ SearchAnswered(c, rest)

Fail(i) ==
  /\ smooth' = FALSE
  /\ Show(IF calls[i].op = "search" THEN [page EXCEPT !.searching = FALSE, !.results = NULL] ELSE page,
          RemoveAt(calls, i), <<>>, FALSE)

OptionsAnswered ==
  /\ asking # NULL /\ asking' = NULL
  /\ \E o \in {asking, NULL} : page' = [page EXCEPT !.options = o]
  /\ UNCHANGED <<calls, smooth>>

---------------------------------------------------------------------------
(* The viewer                                                              *)

\* handleFamilyChange: disabled only while the page starts.
PickFamily ==
  /\ page.family # NULL
  /\ \E f \in Range(Families) \ {page.family} :
       Show(Bootstrap(page, f), calls, <<Call("context", f, NULL, 0)>>, FALSE)
  /\ smooth' = (smooth \/ calls = <<>>)

EditDraft ==
  /\ \E d \in Filters \ {page.draft} : Show([page EXCEPT !.draft = d], calls, <<>>, FALSE)
  /\ UNCHANGED smooth

\* handleSubmit
Submit ==
  /\ page.family # NULL /\ ~page.searching
  /\ Show(Search([page EXCEPT !.applied = page.draft, !.offset = 0]), calls,
          SearchCall(page.family, page.draft, 0), FALSE)
  /\ UNCHANGED smooth

\* handleReset: the context may still be the one of the family before.
Reset ==
  /\ page.family # NULL /\ page.context /\ ~page.searching
  /\ LET d == Default[page.family]
     IN  Show(Search([page EXCEPT !.draft = d, !.applied = d, !.offset = 0]), calls,
              SearchCall(page.family, d, 0), FALSE)
  /\ UNCHANGED smooth

\* paginate, with the filters that were applied and not those in the form.
Paginate ==
  /\ page.family # NULL /\ page.results # NULL /\ ~page.searching
  /\ \E n \in {page.offset - 1, page.offset + 1} \cap (0..MaxOffset) :
       Show(Search([page EXCEPT !.offset = n]), calls,
            SearchCall(page.family, page.applied, n), FALSE)
  /\ UNCHANGED smooth

---------------------------------------------------------------------------
Init ==
  /\ page = [family |-> NULL, context |-> FALSE, draft |-> Default[Families[1]],
             applied |-> Default[Families[1]], offset |-> 0, results |-> NULL,
             options |-> NULL, searching |-> FALSE]
  /\ calls = <<Call("me", NULL, NULL, 0)>>
  /\ asking = NULL
  /\ smooth = TRUE

Next ==
  \/ \E i \in DOMAIN calls : Answer(i) \/ Fail(i)
  \/ OptionsAnswered \/ PickFamily \/ EditDraft \/ Submit \/ Reset \/ Paginate

Spec == Init /\ [][Next]_vars

\* Values offered for the filters are never those of another family or other filters, in
\* whatever order anything is answered; and at rest the results are those of the filters and
\* the page applied in the family picked, as long as no call but those for options failed or
\* was overtaken (page.tsx: the effect's cancelled flag, runSearch).
ShownIsSelected ==
  /\ asking = NULL => page.options \in {NULL, Asked(page)}
  /\ calls = <<>> /\ smooth =>
       page.results = [family |-> page.family, filters |-> page.applied, offset |-> page.offset]
=============================================================================
