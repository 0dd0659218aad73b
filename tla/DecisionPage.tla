----------------------------- MODULE DecisionPage -----------------------------
(***************************************************************************)
(* The pages of the decision system: decisions, goals, the budget, the     *)
(* road map and families. They share one loader, which asks for the list   *)
(* of families, selects the one it was called for and then asks for that   *)
(* family's rows; an effect calls the loader whenever the selection        *)
(* changes, so the loader sets what its own effect watches. The page of    *)
(* families asks for the rows (its members) without the list.              *)
(*                                                                         *)
(* A row of the page of decisions has a scoring sheet of its own, filled   *)
(* by a call and emptied when the rows are loaded again. Left out: forms,  *)
(* filters, the persons the forms offer, and the messages.                 *)
(***************************************************************************)
EXTENDS Integers, Sequences, SequencesExt

CONSTANTS
  Families,  \* a sequence: the families of the viewer
  MaxCalls,  \* bound on calls in flight
  NULL

VARIABLES
  page,    \* kind of page, family selected, families whose rows and scoring sheet are shown
  calls,   \* calls in flight, in the order they were sent
  smooth   \* history: since all was at rest, answers came in order, none was an error, and
           \* nothing was picked or pressed over calls in flight

vars == <<page, calls, smooth>>

Call(op, family) == [op |-> op, family |-> family]

\* Mutant: an effect without its list of what to watch, which runs on every rendering.
EffectsOfRendering(old, new) ==
  IF new.family = NULL THEN <<>>
  ELSE <<Call(IF new.kind = "families" THEN "rows" ELSE "list", new.family)>>

\* The effect on familyId.
Effects(old, new) ==
  IF new.family \in {NULL, old.family} THEN <<>>
  ELSE <<Call(IF new.kind = "families" THEN "rows" ELSE "list", new.family)>>

Show(p, rest, next) ==
  /\ page' = p
  /\ calls' = rest \o next \o Effects(page, p)
  /\ Len(calls') <= MaxCalls

\* listFamilies of the loader: the family it was called for, or the first.
ListAnswered(c, rest) ==
  LET f == IF c.family # NULL THEN c.family ELSE IF Families = <<>> THEN NULL ELSE Head(Families)
  IN  IF f = NULL THEN Show([page EXCEPT !.family = NULL, !.rows = NULL], rest, <<>>)
      ELSE Show([page EXCEPT !.family = f], rest, <<Call("rows", f)>>)

\* Rows of another family are other components: what they were waiting for is dropped.
Mounted(f, rest) ==
  IF f = page.rows THEN rest ELSE SelectSeq(rest, LAMBDA c : c.op # "sheet")

\* The rows of a family, and with them the effect of each row that empties its sheet.
RowsAnswered(c, rest) ==
  Show([page EXCEPT !.rows = c.family, !.sheet = NULL], Mounted(c.family, rest), <<>>)

Answer(i) ==
  LET c    == calls[i]
      rest == RemoveAt(calls, i)
  IN  /\ smooth' = (smooth /\ i = 1)
      /\ \/ c.op = "list" /\ ListAnswered(c, rest)
         \/ c.op = "rows" /\ RowsAnswered(c, rest)
         \/ c.op = "sheet" /\ Show([page EXCEPT !.sheet = c.family], rest, <<>>)
         \/ c.op = "change" /\ Show(page, rest, <<Call("list", c.family)>>)
         \/ c.op = "member" /\ Show(page, rest, <<Call("rows", c.family)>>)

Fail(i) ==
  /\ Show(page, RemoveAt(calls, i), <<>>)
  /\ smooth' = FALSE

---------------------------------------------------------------------------
(* The viewer                                                              *)

PickFamily ==
  /\ page.family # NULL
  /\ \E f \in Range(Families) \ {page.family} : Show([page EXCEPT !.family = f], calls, <<>>)
  /\ smooth' = (calls = <<>>)

Press(op, f) ==
  /\ Show(page, calls, <<Call(op, f)>>)
  /\ smooth' = (smooth /\ calls = <<>>)

\* Create, save, score or delete a row, rename a family: then the loader, for the family
\* that was selected. The page of families has no such guard.
Change ==
  /\ page.family # NULL \/ page.kind = "families"
  /\ Press("change", page.family)

\* The policy or the reset of the budget, whose answer is the summary it shows; a member of
\* the family, after which the members are asked for.
ChangeInPlace ==
  /\ page.family # NULL
  /\ \/ page.kind = "budget" /\ page.rows # NULL /\ Press("rows", page.family)
     \/ page.kind = "families" /\ Press("member", page.family)

\* ensureScoringData of a row that is shown.
OpenScoring ==
  /\ page.kind = "decisions" /\ page.rows # NULL /\ page.sheet = NULL
  /\ Press("sheet", page.rows)

---------------------------------------------------------------------------
Init ==
  /\ \E kind \in {"decisions", "budget", "families"} :
       page = [kind |-> kind, family |-> NULL, rows |-> NULL, sheet |-> NULL]
  /\ calls = <<Call("list", NULL)>>
  /\ smooth = TRUE

Next ==
  \/ \E i \in DOMAIN calls : Answer(i) \/ Fail(i)
  \/ PickFamily \/ Change \/ ChangeInPlace \/ OpenScoring

Spec == Init /\ [][Next]_vars /\ WF_vars(calls # <<>> /\ Answer(1))

\* At rest the rows are those of the family selected, and the scoring sheet is one of these
\* rows, as long as no call failed or was overtaken and nothing was picked over calls in
\* flight: the loader that selects a family and the effect that loads it agree (page.tsx).
\* A sheet in any state is of the rows shown.
ShownIsSelected ==
  /\ page.sheet \in {NULL, page.rows}
  /\ calls = <<>> /\ smooth => page.rows = page.family
=============================================================================
