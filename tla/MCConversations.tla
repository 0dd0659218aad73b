-------------------------- MODULE MCConversations --------------------------
(***************************************************************************)
(* What people do together: the conversation workspace, and beside it the  *)
(* education service and the pages of the web front ends, which share      *)
(* nothing. In a behaviour one of them runs, and the variables of the      *)
(* others stay as they began.                                              *)
(*   - conversation: one person, two assistants, two requests at once, and *)
(*     two turns, or one and a death of the process (Eventful);            *)
(*   - education: two requests and the worker, two scopes and one key;     *)
(*   - the pages: two families each, at most three calls in flight.        *)
(***************************************************************************)
EXTENDS MCEducation, TLC

CONSTANTS p1, a1, a2, f1, f2

VARIABLES
  page, calls, smooth, server   \* the pages; what their service holds

pageVars == <<page, calls, smooth, server>>

MaxCalls == 3
Two == <<f1, f2>>

Profile   == INSTANCE ProfilePage WITH Families <- Two, enabled <- server,
               People <- f1 :> <<"a1", "b1">> @@ f2 :> <<"a2">>
Plan      == INSTANCE PlanPage WITH Families <- Two, planning <- server,
               Plans <- f1 :> {"p1", "p2"} @@ f2 :> {"p3"}
Event     == INSTANCE EventPage WITH Families <- Two, asking <- server,
               Default <- f1 :> "all" @@ f2 :> "mine", Filters <- {"all", "mine"}, MaxOffset <- 1
Question  == INSTANCE QuestionPage WITH Families <- Two, there <- server,
               Questions <- f1 :> {"q1", "q2"} @@ f2 :> {"q3"},
               Filters <- "all" :> {"q1", "q2", "q3"} @@ "one" :> {"q1"}, NoFilters <- "all"
Schooling == INSTANCE EducationPage WITH Families <- Two, tracked <- server,
               Learners <- f1 :> {"l1", "l2"} @@ f2 :> {"l3"},
               Quizzes <- "l1" :> {"q1"} @@ "l2" :> {"q2"} @@ "l3" :> {}
Chatting  == INSTANCE ConversationPage WITH Convs <- {"c1", "c2"}, there <- server
Decision  == INSTANCE DecisionPage WITH Families <- Two

Others == {"conversation", "education"}
Pages == {"profile page", "plan page", "event page", "question page", "education page",
          "conversation page", "decision page"}

PageInit ==
  CASE part = "profile page"      -> Profile!Init
    [] part = "plan page"         -> Plan!Init
    [] part = "event page"        -> Event!Init
    [] part = "question page"     -> Question!Init
    [] part = "education page"    -> Schooling!Init
    [] part = "conversation page" -> Chatting!Init
    [] OTHER                      -> Decision!Init /\ server = NULL

PageNext ==
  \/ part = "profile page"      /\ Profile!Next
  \/ part = "plan page"         /\ Plan!Next
  \/ part = "event page"        /\ Event!Next
  \/ part = "question page"     /\ Question!Next
  \/ part = "education page"    /\ Schooling!Next
  \/ part = "conversation page" /\ Chatting!Next
  \/ part = "decision page"     /\ Decision!Next /\ UNCHANGED server

MCInit ==
  /\ part \in Others \cup Pages
  /\ Init /\ Schools!Init /\ PageInit
  /\ part \in Others => page.kind = "families"

MCNext ==
  \/ /\ part = "conversation" /\ Next
     /\ UNCHANGED <<part, educationVars, pageVars>>
  \/ /\ part = "education" /\ Schools!Next
     /\ UNCHANGED <<part, vars, pageVars>>
  \/ PageNext /\ UNCHANGED <<part, vars, educationVars>>

MCSpec == MCInit /\ [][MCNext]_<<part, vars, educationVars, pageVars>>

MCOpenings ==
  {[kind |-> "family", shared |-> TRUE, people |-> Persons, assistants |-> Assistants]}

MCInvitations == {<<a1, "active", FALSE>>, <<a2, "passive", TRUE>>}

\* Requests are interchangeable, and scopes.
Symmetry == Permutations(Sessions) \cup Permutations(Scopes)

\* Once the order of the answers, a failure or the viewer's haste has upset what a page may
\* show, at most one call is in flight; the page of decisions is explored in full.
Upset == part \in Pages \ {"decision page"} /\ ~smooth => Len(calls) <= 1

\* The process dies with at most one turn begun and two messages written, and the broker
\* fails with at most one record there.
Eventful ==
  /\ restarts > 0 => Len(runs) <= 1 /\ Len(messages) <= 2
  /\ failures > 0 => Len(records) <= 1

\* At rest each page shows what is selected on it, under the conditions its module states:
\* the effects and the chains of calls of page.tsx load the same family, person, plan,
\* question, learner, conversation or rows.
PagesAgree ==
  CASE part = "profile page"      -> Profile!ShownIsSelected
    [] part = "plan page"         -> Plan!ShownIsSelected
    [] part = "event page"        -> Event!ShownIsSelected
    [] part = "question page"     -> Question!ShownIsSelected
    [] part = "education page"    -> Schooling!ShownIsSelected
    [] part = "conversation page" -> Chatting!ShownIsSelected
    [] part = "decision page"     -> Decision!ShownIsSelected
    [] OTHER                      -> TRUE
=============================================================================
