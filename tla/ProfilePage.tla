----------------------------- MODULE ProfilePage -----------------------------
(***************************************************************************)
(* The page of the profile service: what a browser shows while its calls   *)
(* are answered in any order. Every handler sends a call and goes on when  *)
(* its answer comes, with the family and the person it began with; React   *)
(* effects send further calls in the step that changes what they watch.    *)
(*                                                                         *)
(* A call carries who began its chain, which is what keeps a button        *)
(* disabled. Left out: the contents of a profile, the draft of a           *)
(* relationship, and the messages about errors.                            *)
(***************************************************************************)
EXTENDS Integers, Sequences, SequencesExt

CONSTANTS
  Families,  \* a sequence: the memberships of the viewer
  People,    \* family -> sequence of its persons, the viewer first
  MaxCalls,  \* bound on calls in flight
  NULL

VARIABLES
  page,     \* what the page holds
  calls,    \* calls in flight, in the order they were sent
  enabled,  \* families whose profiles are enabled, as the server has it
  smooth    \* history: since the family was picked at rest, answers came in order, none
            \* was an error, and no family was picked while calls were in flight

vars == <<page, calls, enabled, smooth>>

Call(op, family, person, by) == [op |-> op, family |-> family, person |-> person, by |-> by]

Watched(p) == <<p.family, p.selected, p.context.enabled>>

\* The two effects after load: refreshWorkspace and loadProfileDetail.
Effects(old, new) ==
  (IF new.family \notin {NULL, old.family}
   THEN <<Call("context", new.family, new.selected, NULL)>> ELSE <<>>)
  \o IF Watched(new) # Watched(old) /\ NULL \notin {new.family, new.selected} /\ new.context.enabled
     THEN <<Call("profile", new.family, new.selected, NULL)>> ELSE <<>>

\* The state of the page becomes p, calls next go out, then those of the effects.
Show(p, rest, next) ==
  /\ page' = p
  /\ calls' = rest \o next \o Effects(page, p)
  /\ Len(calls') <= MaxCalls

\* getViewerContext of refreshWorkspace, up to the list of profiles.
ContextAnswered(c, rest) ==
  LET on == c.family \in enabled
      p  == [page EXCEPT !.context = [family |-> c.family, enabled |-> on]]
  IN  IF on THEN Show(p, rest, <<[c EXCEPT !.op = "profiles"]>>)
      ELSE Show([p EXCEPT !.list = NULL, !.selected = People[c.family][1], !.draft = NULL], rest, <<>>)

\* listProfiles of refreshWorkspace: the preferred person, or the first.
ProfilesAnswered(c, rest) ==
  LET first == People[c.family][1]
      next  == IF c.person \in Range(People[c.family]) THEN c.person ELSE first
  IN  Show([page EXCEPT !.list = c.family, !.selected = next], rest, <<>>)

Refresh(c) == [c EXCEPT !.op = "context"]

\* loadProfileDetail: a person the family does not have is an error, which the handler
\* takes itself; saveRelationship and deleteRelationship go on to refreshWorkspace.
ProfileAnswered(c, rest) ==
  LET p == IF c.person \in Range(People[c.family])
           THEN [page EXCEPT !.draft = [family |-> c.family, person |-> c.person]] ELSE page
  IN  Show(p, rest, IF c.by \in {"relation", "remove"} THEN <<Refresh(c)>> ELSE <<>>)

\* saveProfile, once the profile is stored.
SaveAnswered(c, rest) ==
  Show([page EXCEPT !.draft = [family |-> c.family, person |-> c.person]], rest, <<Refresh(c)>>)

Answer(i) ==
  LET c    == calls[i]
      rest == RemoveAt(calls, i)
  IN  /\ smooth' = (smooth /\ i = 1)
      /\ enabled' = IF c.op = "enable" THEN enabled \cup {c.family} ELSE enabled
      /\ CASE c.op = "me"       -> Show([page EXCEPT !.family = Families[1]], rest, <<>>)
           [] c.op = "context"  -> ContextAnswered(c, rest)
           [] c.op = "profiles" -> ProfilesAnswered(c, rest)
           [] c.op = "profile"  -> ProfileAnswered(c, rest)
           [] c.op = "save"     -> SaveAnswered(c, rest)
           [] c.op = "change"   -> Show(page, rest, <<[c EXCEPT !.op = "profile"]>>)
           [] c.op = "enable"   -> Show(page, rest, <<Refresh(c)>>)

Fail(i) ==
  LET c == calls[i]
  IN  /\ smooth' = FALSE
      /\ Show(page, RemoveAt(calls, i),
              IF c.op = "profile" /\ c.by \in {"relation", "remove"} THEN <<Refresh(c)>> ELSE <<>>)
      /\ UNCHANGED enabled

---------------------------------------------------------------------------
(* The viewer                                                              *)

Idle(by) == \A i \in DOMAIN calls : calls[i].by # by

PickFamily ==
  /\ page.family # NULL
  /\ \E f \in Range(Families) \ {page.family} :
       Show([page EXCEPT !.family = f, !.selected = NULL, !.draft = NULL], calls, <<>>)
  /\ smooth' = (calls = <<>>)
  /\ UNCHANGED enabled

\* peopleOptions: the profiles, or while there are none the persons of the context.
PeopleOptions ==
  IF page.list # NULL THEN Range(People[page.list])
  ELSE IF page.context.family # NULL THEN Range(People[page.context.family]) ELSE {}

PickPerson ==
  /\ \E x \in PeopleOptions : Show([page EXCEPT !.selected = x], calls, <<>>)
  /\ UNCHANGED <<enabled, smooth>>

EnableProfiles ==
  /\ page.family # NULL /\ page.context.family # NULL /\ ~page.context.enabled /\ Idle("enable")
  /\ Show(page, calls, <<Call("enable", page.family, People[page.context.family][1], "enable")>>)
  /\ UNCHANGED <<enabled, smooth>>

SaveProfile ==
  /\ page.family # NULL /\ page.draft # NULL /\ Idle("save")
  /\ Show(page, calls, <<Call("save", page.family, page.draft.person, "save")>>)
  /\ UNCHANGED <<enabled, smooth>>

\* saveRelationship, deleteRelationship: only the first disables its button.
ChangeRelationship ==
  /\ page.family # NULL /\ page.draft # NULL
  /\ \E by \in {"relation", "remove"} :
       /\ by = "relation" => Idle(by)
       /\ Show(page, calls, <<Call("change", page.family, page.selected, by)>>)
  /\ UNCHANGED <<enabled, smooth>>

---------------------------------------------------------------------------
Init ==
  /\ page = [family |-> NULL, context |-> [family |-> NULL, enabled |-> FALSE], list |-> NULL,
             selected |-> NULL, draft |-> NULL]
  /\ calls = <<Call("me", NULL, NULL, NULL)>>
  /\ enabled \in SUBSET Range(Families)
  /\ smooth = TRUE

Next ==
  \/ \E i \in DOMAIN calls : Answer(i) \/ Fail(i)
  \/ PickFamily \/ PickPerson \/ EnableProfiles \/ SaveProfile \/ ChangeRelationship

Spec == Init /\ [][Next]_vars

\* At rest the page shows the family and the person that are selected, or that profiles are
\* off, whatever was picked and saved while calls were in flight, as long as no call failed
\* or was overtaken and no family was picked over calls in flight (page.tsx, effects).
ShownIsSelected ==
  calls = <<>> /\ smooth =>
    /\ page.context.family = page.family
    /\ IF page.context.enabled
       THEN page.list = page.family /\ page.draft = [family |-> page.family, person |-> page.selected]
       ELSE page.draft = NULL
=============================================================================
