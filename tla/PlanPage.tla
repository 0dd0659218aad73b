------------------------------- MODULE PlanPage -------------------------------
(***************************************************************************)
(* The page of the planning service: what a browser shows while its calls  *)
(* are answered in any order. The handlers keep the family and the plan    *)
(* they began with; the effects load the workspace of a family and the     *)
(* detail of a plan in the step that changes what they watch.              *)
(*                                                                         *)
(* The plan that is selected and the plan that is shown are two states:    *)
(* the buttons act on the one shown. Left out: goal options, the form of   *)
(* a new plan, and the messages about errors.                              *)
(***************************************************************************)
EXTENDS Integers, Sequences, SequencesExt, FiniteSets

CONSTANTS
  Families,  \* a sequence: the memberships of the viewer
  Plans,     \* family -> plans it may come to have
  MaxCalls,  \* bound on calls in flight
  NULL

VARIABLES
  page,
  calls,    \* calls in flight, in the order they were sent
  planning, \* the server: family -> NULL while planning is off, or the plans there are
  smooth    \* history: since the family was picked at rest, answers came in order, none
            \* was an error, and the viewer did not act over calls it had to wait for

vars == <<page, calls, planning, smooth>>

Call(op, family, plan, by) == [op |-> op, family |-> family, plan |-> plan, by |-> by]

Watched(p) == <<p.family, p.selected, p.context.enabled>>

\* The two effects after load: refreshWorkspace and loadPlanDetail.
Effects(old, new) ==
  (IF new.family \notin {NULL, old.family}
   THEN <<Call("context", new.family, new.selected, NULL)>> ELSE <<>>)
  \o IF Watched(new) # Watched(old) /\ NULL \notin {new.family, new.selected} /\ new.context.enabled
     THEN <<Call("plan", new.family, new.selected, NULL)>> ELSE <<>>

There(f) == IF planning[f] = NULL THEN {} ELSE planning[f]

Show(p, rest, next) ==
  /\ page' = p
  /\ calls' = rest \o next \o Effects(page, p)
  /\ Len(calls') <= MaxCalls

NoPlan(p) == [p EXCEPT !.plan = NULL, !.instances = NULL]

\* getViewerContext of refreshWorkspace, up to the list of plans.
ContextAnswered(c, rest) ==
  LET on == planning[c.family] # NULL
      p  == [page EXCEPT !.context = [family |-> c.family, enabled |-> on]]
  IN  IF on THEN Show(p, rest, <<[c EXCEPT !.op = "plans"]>>)
      ELSE Show([NoPlan(p) EXCEPT !.list = {}, !.selected = NULL], rest, <<>>)

\* listPlans of refreshWorkspace: the preferred plan, or the first.
PlansAnswered(c, rest) ==
  \E s \in There(c.family) \cup (IF There(c.family) = {} THEN {NULL} ELSE {}) :
    /\ c.plan \in There(c.family) => s = c.plan
    /\ LET p == [page EXCEPT !.list = There(c.family), !.selected = s]
       IN  Show(IF s = NULL THEN NoPlan(p) ELSE p, rest, <<>>)

\* loadPlanDetail: the plan and its instances together, or an error.
PlanAnswered(c, rest) ==
  Show(IF c.plan \in There(c.family)
       THEN [page EXCEPT !.plan = c.plan, !.instances = c.plan, !.preview = NULL] ELSE page,
       rest, <<>>)

Refresh(c, plan) == [c EXCEPT !.op = "context", !.plan = plan]

Answer(i) ==
  LET c    == calls[i]
      rest == RemoveAt(calls, i)
      Quiet == UNCHANGED planning
  IN  /\ smooth' = (smooth /\ i = 1)
      /\ \/ c.op = "me" /\ Show([page EXCEPT !.family = Families[1]], rest, <<>>) /\ Quiet
         \/ c.op = "context" /\ ContextAnswered(c, rest) /\ Quiet
         \/ c.op = "plans" /\ PlansAnswered(c, rest) /\ Quiet
         \/ c.op = "plan" /\ PlanAnswered(c, rest) /\ Quiet
         \/ /\ c.op = "enable" /\ Show(page, rest, <<Refresh(c, NULL)>>)
            /\ planning' = [planning EXCEPT ![c.family] = IF @ = NULL THEN {} ELSE @]
         \/ /\ c.op = "create" /\ Show(page, rest, <<Refresh(c, c.plan)>>)
            /\ planning' = [planning EXCEPT ![c.family] = @ \cup {c.plan}]
         \/ c.op = "mutate" /\ Show(page, rest, <<Refresh(c, c.plan)>>) /\ Quiet
         \/ c.op = "preview" /\ Show([page EXCEPT !.preview = c.plan], rest, <<>>) /\ Quiet
         \/ /\ c.op = "checkin" /\ Quiet
            /\ Show([page EXCEPT !.plan = c.plan], rest, <<[c EXCEPT !.op = "instances"]>>)
         \/ c.op = "instances" /\ Show([page EXCEPT !.instances = c.plan], rest, <<>>) /\ Quiet

Fail(i) ==
  /\ Show(page, RemoveAt(calls, i), <<>>)
  /\ smooth' = FALSE
  /\ UNCHANGED planning

---------------------------------------------------------------------------
(* The viewer                                                              *)

Idle == \A i \in DOMAIN calls : calls[i].by # "save"

\* A button that starts a chain; "save" disables the buttons of that kind.
Press(op, plan, by) ==
  /\ page.family # NULL
  /\ Show(page, calls, <<Call(op, page.family, plan, by)>>)
  /\ smooth' = (smooth /\ calls = <<>>)
  /\ UNCHANGED planning

PickFamily ==
  /\ page.family # NULL
  /\ \E f \in Range(Families) \ {page.family} :
       Show([NoPlan(page) EXCEPT !.family = f, !.selected = NULL, !.preview = NULL], calls, <<>>)
  /\ smooth' = (calls = <<>>)
  /\ UNCHANGED planning

PickPlan ==
  /\ \E s \in page.list : Show([page EXCEPT !.selected = s], calls, <<>>)
  /\ smooth' = (smooth /\ \A i \in DOMAIN calls : calls[i].by = NULL)
  /\ UNCHANGED planning

EnablePlanning == ~page.context.enabled /\ Idle /\ Press("enable", NULL, "save")

\* createDraftPlan: the server gives the plan a new id.
CreateDraftPlan ==
  /\ page.context.enabled /\ Idle /\ page.family # NULL /\ planning[page.family] # NULL
  /\ \E new \in Plans[page.family] \ There(page.family) : Press("create", new, "save")

RunPreview ==
  /\ page.plan # NULL /\ \A i \in DOMAIN calls : calls[i].by # "preview"
  /\ Press("preview", page.plan, "preview")

MutatePlan == page.plan # NULL /\ Idle /\ Press("mutate", page.plan, "save")

\* Not disabled while another is being recorded.
RecordOutcome == page.plan # NULL /\ page.instances # NULL /\ Press("checkin", page.plan, "record")

---------------------------------------------------------------------------
Init ==
  /\ page = [family |-> NULL, context |-> [family |-> NULL, enabled |-> FALSE], list |-> {},
             selected |-> NULL, plan |-> NULL, instances |-> NULL, preview |-> NULL]
  /\ calls = <<Call("me", NULL, NULL, NULL)>>
  /\ planning = [f \in Range(Families) |-> NULL]
  /\ smooth = TRUE

Next ==
  \/ \E i \in DOMAIN calls : Answer(i) \/ Fail(i)
  \/ PickFamily \/ PickPlan \/ EnablePlanning \/ CreateDraftPlan \/ RunPreview
  \/ MutatePlan \/ RecordOutcome

Spec == Init /\ [][Next]_vars

\* At rest the plan shown, its instances and its preview are those of the plan selected in
\* the family selected, whatever plans were picked while others were loading, as long as no
\* call failed or was overtaken and nothing was pressed over calls in flight (page.tsx).
ShownIsSelected ==
  calls = <<>> /\ smooth =>
    /\ page.context.family = page.family
    /\ page.plan = page.selected /\ page.instances = page.selected
    /\ page.selected # NULL => page.selected \in There(page.family)
    /\ page.preview \in {NULL, page.selected}
=============================================================================
