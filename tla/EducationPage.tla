---------------------------- MODULE EducationPage ----------------------------
(***************************************************************************)
(* The page of the education service: what a browser shows while its calls *)
(* are answered in any order. Loading a family is a chain of four loads:   *)
(* its context, its dashboard, the workspace of a learner and a quiz. Each *)
(* goes on with the family, the learner and the quiz the chain began with, *)
(* and chains may overlap.                                                 *)
(*                                                                         *)
(* Left out: tabs, the fields of the editor, and the messages. Loads that  *)
(* go out together are one.                                                *)
(***************************************************************************)
EXTENDS Integers, Sequences, SequencesExt

CONSTANTS
  Families,  \* a sequence: the memberships of the viewer
  Learners,  \* family -> persons it may track as learners
  Quizzes,   \* learner -> quizzes taken
  MaxCalls,  \* bound on calls in flight
  NULL

VARIABLES
  page,
  calls,   \* calls in flight, in the order they were sent
  tracked, \* the server: family -> NULL while education is off, or the learners tracked
  smooth   \* history: since a load of the family at rest, answers came in order, none was
           \* an error, and nothing but a learner was picked over calls in flight,
           \* and that only over workspaces that no quiz follows

vars == <<page, calls, tracked, smooth>>

Call(op, family, learner, quiz, by) ==
  [op |-> op, family |-> family, learner |-> learner, quiz |-> quiz, by |-> by]

Show(p, rest, next) ==
  /\ page' = p
  /\ calls' = rest \o next
  /\ Len(calls') <= MaxCalls

There(f) == IF tracked[f] = NULL THEN {} ELSE tracked[f]

QuizzesOf(x) == IF x = NULL THEN {} ELSE Quizzes[x]

\* loadFamily until its first await: the editor is closed, the quiz selected goes with it.
LoadFamily(p, rest, family, learner) ==
  Show([p EXCEPT !.editor = NULL], rest, <<Call("context", family, learner, page.quiz, NULL)>>)

NoLearner(p) == [p EXCEPT !.workspace = NULL, !.quiz = NULL, !.detail = NULL]

\* getViewerContext of loadFamily.
ContextAnswered(c, rest) ==
  LET on == tracked[c.family] # NULL
      p  == [page EXCEPT !.context = on, !.family = c.family]
  IN  IF on THEN Show(p, rest, <<[c EXCEPT !.op = "dashboard"]>>)
      ELSE Show([NoLearner(p) EXCEPT !.dashboard = NULL, !.learner = NULL, !.editor = NULL], rest, <<>>)

\* getFamilyDashboard of loadFamily: the preferred learner, or the first.
DashboardAnswered(c, rest) ==
  \E x \in There(c.family) \cup (IF There(c.family) = {} THEN {NULL} ELSE {}) :
    /\ c.learner \in There(c.family) => x = c.learner
    /\ LET p == [page EXCEPT !.dashboard = c.family, !.learner = x]
       IN  IF x = NULL THEN Show(NoLearner(p), rest, <<>>)
           ELSE Show(p, rest, <<[c EXCEPT !.op = "workspace", !.learner = x]>>)

\* loadWorkspace: the quiz stays selected if it is one of the learner's.
WorkspaceAnswered(c, rest) ==
  LET p == [page EXCEPT !.workspace = c.learner]
  IN  IF c.quiz \in QuizzesOf(c.learner)
      THEN Show([p EXCEPT !.quiz = c.quiz], rest, <<[c EXCEPT !.op = "quiz"]>>)
      ELSE Show([p EXCEPT !.quiz = NULL, !.detail = NULL], rest, <<>>)

\* What a button asked for is done, and refreshCurrentView follows.
Done(c) ==
  tracked' = CASE c.op = "enable" -> [tracked EXCEPT ![c.family] = There(c.family)]
               [] c.op = "create" -> [tracked EXCEPT ![c.family] = @ \cup {c.learner}]
               [] OTHER           -> tracked

Answer(i) ==
  LET c    == calls[i]
      rest == RemoveAt(calls, i)
  IN  /\ smooth' = (smooth /\ i = 1)
      /\ Done(c)
      /\ \/ c.op = "me" /\ LoadFamily(page, rest, Families[1], NULL)
         \/ c.op = "context" /\ ContextAnswered(c, rest)
         \/ c.op = "dashboard" /\ DashboardAnswered(c, rest)
         \/ c.op = "workspace" /\ WorkspaceAnswered(c, rest)
         \/ c.op = "quiz" /\ Show([page EXCEPT !.detail = c.quiz], rest, <<>>)
         \/ c.op \in {"enable", "create", "save"} /\ LoadFamily(page, rest, c.family, c.learner)

\* loadWorkspace clears what it shows, the others leave it.
Fail(i) ==
  /\ smooth' = FALSE
  /\ Show(IF calls[i].op \in {"workspace", "quiz"} /\ calls[i].by # "view"
          THEN [page EXCEPT !.workspace = NULL, !.detail = NULL] ELSE page,
          RemoveAt(calls, i), <<>>)
  /\ UNCHANGED tracked

---------------------------------------------------------------------------
(* The viewer                                                              *)

Submitting == \E i \in DOMAIN calls : calls[i].by = "submit"

Press(op, learner, quiz, by) ==
  /\ page.family # NULL
  /\ Show(IF op = "quiz" THEN [page EXCEPT !.quiz = quiz] ELSE page, calls,
          <<Call(op, page.family, learner, quiz, by)>>)
  /\ smooth' = (smooth /\ calls = <<>>)
  /\ UNCHANGED tracked

PickFamily ==
  /\ \E f \in Range(Families) : f # page.family /\ LoadFamily(page, calls, f, NULL)
  /\ smooth' = (calls = <<>>)
  /\ UNCHANGED tracked

RefreshCurrentView ==
  /\ page.family # NULL /\ calls = <<>>
  /\ LoadFamily(page, calls, page.family, page.learner)
  /\ smooth' = TRUE
  /\ UNCHANGED tracked

\* handleSelectLearner: the row of a dashboard, of the family picked.
SelectLearner ==
  /\ page.dashboard # NULL
  /\ \E x \in There(page.dashboard) :
       Show([page EXCEPT !.learner = x, !.editor = NULL], calls,
            <<Call("workspace", page.family, x, NULL, NULL)>>)
  /\ smooth' = (smooth /\ \A i \in DOMAIN calls : calls[i].op = "workspace" /\ calls[i].quiz = NULL)
  /\ UNCHANGED tracked

EnableEducation == ~page.context /\ ~Submitting /\ Press("enable", page.learner, NULL, "submit")

CreateLearner ==
  /\ page.dashboard # NULL /\ ~Submitting
  /\ \E x \in Learners[page.dashboard] \ There(page.dashboard) : Press("create", x, NULL, "submit")

\* The editors open on a row of the workspace or, for the learner, of the dashboard.
OpenEditor ==
  /\ page.workspace # NULL /\ page.editor = NULL
  /\ page' = [page EXCEPT !.editor = page.workspace]
  /\ smooth' = (smooth /\ calls = <<>>)
  /\ UNCHANGED <<calls, tracked>>

SaveEditor == page.editor # NULL /\ ~Submitting /\ Press("save", page.learner, NULL, "submit")

\* handleQuizSelect
QuizSelect == \E q \in QuizzesOf(page.workspace) : Press("quiz", page.workspace, q, "view")

---------------------------------------------------------------------------
Init ==
  /\ page = [family |-> NULL, context |-> FALSE, dashboard |-> NULL, learner |-> NULL,
             workspace |-> NULL, quiz |-> NULL, detail |-> NULL, editor |-> NULL]
  /\ calls = <<Call("me", NULL, NULL, NULL, NULL)>>
  /\ tracked = [f \in Range(Families) |-> NULL]
  /\ smooth = TRUE

Next ==
  \/ \E i \in DOMAIN calls : Answer(i) \/ Fail(i)
  \/ PickFamily \/ RefreshCurrentView \/ SelectLearner \/ EnableEducation \/ CreateLearner
  \/ OpenEditor \/ SaveEditor \/ QuizSelect

Spec == Init /\ [][Next]_vars

\* At rest the dashboard is the family's, the workspace and an open editor are those of the
\* learner selected, and the quiz shown is the one selected of that learner's, however the
\* loads of learners overlapped, as long as no call failed or was overtaken and nothing else
\* was pressed over calls in flight (loadFamily, loadWorkspace, handleQuizSelect).
ShownIsSelected ==
  calls = <<>> /\ smooth =>
    /\ page.dashboard = IF page.context THEN page.family ELSE NULL
    /\ page.workspace = page.learner
    /\ page.detail = page.quiz /\ page.quiz \in {NULL} \cup QuizzesOf(page.learner)
    /\ page.editor \in {NULL, page.learner}
=============================================================================
