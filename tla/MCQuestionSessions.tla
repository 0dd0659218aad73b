------------------------- MODULE MCQuestionSessions -------------------------
(* Two overlapping sessions on one question.  Two sessions are what a lost  *)
(* update or a stale check needs; a third one only queues up.               *)
EXTENDS QuestionSessions

OneDomain == [k \in Keys |-> "task"]
Symmetry == Permutations(Sessions) \cup Permutations(Tokens)
PatchesTo == {NULL, "resolved"}
=============================================================================
