----------------------------- MODULE MCEducation -----------------------------
(***************************************************************************)
(* The education service beside the conversation workspace, with which it  *)
(* shares nothing: the part of a run that is its behaviours.               *)
(***************************************************************************)
EXTENDS Conversations

CONSTANTS Scopes, Keys, Worker, MaxRecords, MaxEvents, MaxFailures, MaxCrashes

VARIABLES
  part,  \* what runs in this behaviour
  records, keys, effects, snapshots, events, sent, request, overtaken, failures, crashes

educationVars == <<records, keys, effects, snapshots, events, sent, request, overtaken, failures,
                   crashes>>

Schools == INSTANCE Education WITH session <- request, raced <- overtaken

ASSUME SchoolsAssumption == Schools!EducationAssumption

\* A request repeated under its key is carried out once, a snapshot counts the rows it is of
\* but for transactions that overlapped, and no event is marked that the broker did not take
\* (idempotency_keys, refresh_progress_snapshot, publish_pending).
EducationAgrees ==
  part = "education" =>
    Schools!TypeOK /\ Schools!IdempotentOnce /\ Schools!SnapshotsCurrent /\ Schools!PublishedWasSent
=============================================================================
