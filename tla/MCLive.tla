------------------------------- MODULE MCLive -------------------------------
(***************************************************************************)
(* What must eventually happen, in the components that promise it.  They   *)
(* share no state: in a behaviour one of them runs, under the fairness its *)
(* module states, and the others stay as they began.                       *)
(***************************************************************************)
EXTENDS Integers, Sequences, TLC

CONSTANTS NULL, i1, k1, t1, f1, f2, p1, d1, r1, r2, w1, s1, worker, e1, bad, c1, scope

VARIABLES
  part,                                          \* the component that runs
  rows, attempts, lastSent, leases, patched,     \* Questions
  tasks, taskOpen, taskRun,                      \* TaskChecks
  day, items, decisions, threshold, counted, open, check, begun, missed, known,
  asked,                                         \* DecisionChecks
  docs, chunks, jobs, writer, run, mirrored, overtaken, indexed, deaths,   \* FileJobs
  records, keys, effects, snapshots, events, sent, session, raced, refused,
  crashes,                                       \* Education
  stream, delivery, batch, ingest, log, sequence, dead, failed, created, offered,
  restarts, failures,                            \* FamilyEvents
  page, calls, smooth                            \* DecisionPage

queue  == <<rows, attempts, lastSent, leases, patched>>
health == <<tasks, taskOpen, taskRun>>
plans  == <<day, items, decisions, threshold, counted, open, check, begun, missed, known, asked>>
files  == <<docs, chunks, jobs, writer, run, mirrored, overtaken, indexed, deaths>>
outbox == <<records, keys, effects, snapshots, events, sent, session, raced, refused, crashes>>
store  == <<stream, delivery, batch, ingest, log, sequence, dead, failed, created, offered,
            restarts, failures>>
front  == <<page, calls, smooth>>
vars   == <<part, queue, health, plans, files, outbox, store, front>>

Queue == INSTANCE Questions WITH
  Ids <- {i1}, Keys <- {k1}, TaskKeys <- {k1}, DomainOf <- k1 :> "task",
  Topics <- {"invoice"}, Ranks <- {1}, Channels <- {"discord_dm"}, Tokens <- {t1},
  LeaseMax <- 2, ExpiryMax <- 0, Cooldown <- 1, PostAnswer <- 1, StaleAsked <- 2,
  StalePending <- 3, MergeLimit <- 2, TaskAutoCap <- 1, MaxAsked <- 2,
  TopicInputs <- {"invoice"}, LeaseInputs <- {1}, ExpiryInputs <- {NULL, 0},
  BackdateInputs <- {0, 1}, PatchStatusInputs <- {NULL, "dismissed"}

Tasks == INSTANCE TaskChecks WITH
  Tasks <- {1, 2}, Members <- {}, Projects <- {p1}, ProjectOf <- <<p1, p1>>, KindCap <- 1,
  AskedCap <- 2, OverloadAt <- 2, RiskAt <- 2, Dues <- {"soon"}, Ages <- {FALSE},
  open <- taskOpen, run <- taskRun

Checks == INSTANCE DecisionChecks WITH
  Items <- {i1}, Decisions <- {}, LastDay <- 2, Dues <- {0}, Scores <- {1}, run <- check

Jobs == INSTANCE FileJobs WITH
  Docs <- {d1}, Texts <- {t1}, Writers <- {w1}, Runs <- {r1, r2}, Limit <- 2,
  MaxIndexed <- 2, MaxDeaths <- 1, raced <- overtaken

Outbox == INSTANCE Education WITH
  Scopes <- {scope}, Keys <- {}, Sessions <- {s1}, Worker <- worker, MaxRecords <- 1,
  MaxEvents <- 1, MaxFailures <- 1, MaxCrashes <- 1, failures <- refused

Store == INSTANCE FamilyEvents WITH
  Events <- {e1, bad}, Invalid <- {bad}, Published <- {e1, bad}, Posted <- {e1},
  Workers <- {w1}, Callers <- {c1}, StreamMax <- 1, BatchMax <- 2, MaxRestarts <- 1,
  MaxFailures <- 1, session <- ingest

Page == INSTANCE DecisionPage WITH Families <- <<f1, f2>>, MaxCalls <- 3

ASSUME Tasks!TasksAssumption /\ Checks!DaysAssumption /\ Outbox!EducationAssumption

Init ==
  /\ part \in {"queue", "tasks", "checks", "jobs", "outbox", "store", "page"}
  /\ Queue!Init /\ Tasks!Init /\ Checks!Init /\ Jobs!Init /\ Outbox!Init /\ Store!Init
  /\ Page!Init
  /\ part # "page" => page.kind = "decisions"

Next ==
  \/ part = "queue" /\ Queue!Next /\ UNCHANGED <<part, health, plans, files, outbox, store, front>>
  \/ part = "tasks" /\ Tasks!Next /\ UNCHANGED <<part, queue, plans, files, outbox, store, front>>
  \/ part = "checks" /\ Checks!Next /\ UNCHANGED <<part, queue, health, files, outbox, store, front>>
  \/ part = "jobs" /\ Jobs!Next /\ UNCHANGED <<part, queue, health, plans, outbox, store, front>>
  \/ part = "outbox" /\ Outbox!Next /\ UNCHANGED <<part, queue, health, plans, files, store, front>>
  \/ part = "store" /\ Store!Next /\ UNCHANGED <<part, queue, health, plans, files, outbox, front>>
  \/ part = "page" /\ Page!Next /\ UNCHANGED <<part, queue, health, plans, files, outbox, store>>

\* The fairness of each module, for the component that runs.
Fairness ==
  /\ WF_queue(part = "queue" /\ Queue!Tick)
  /\ WF_queue(part = "queue" /\ Queue!ExpireJob)
  /\ WF_queue(part = "queue" /\ Queue!CleanupJob)
  /\ WF_health(part = "tasks" /\ Tasks!Start)
  /\ WF_health(part = "tasks" /\ (Tasks!Ask \/ Tasks!AskFails \/ Tasks!End))
  /\ \A t \in 1..2 : SF_health(part = "tasks" /\ Tasks!Asking(t))
  /\ SF_health(part = "tasks" /\ Tasks!Finishing)
  /\ WF_plans(part = "checks" /\ Checks!StartCheck)
  /\ WF_plans(part = "checks" /\ Checks!Asking)
  /\ WF_plans(part = "checks" /\ Checks!CountGoals)
  /\ WF_plans(part = "checks" /\ Checks!End)
  /\ SF_plans(part = "checks" /\ Checks!Ask(<<"overdue", i1, 0>>))
  /\ \A r \in {r1, r2} : WF_files(part = "jobs" /\ Jobs!RunStep(r))
  /\ WF_files(part = "jobs" /\ Jobs!WriterStep(w1))
  /\ WF_outbox(part = "outbox" /\ Outbox!CommitRefresh)
  /\ WF_outbox(part = "outbox" /\ Outbox!Rollback(worker))
  /\ SF_outbox(part = "outbox" /\ Outbox!PublishPending)
  /\ WF_outbox(part = "outbox" /\ Outbox!Publishes(worker))
  /\ WF_store(part = "store" /\ Store!AckTimeout(1))
  /\ WF_store(part = "store" /\ Store!WorkerStep(w1))
  /\ WF_store(part = "store" /\ Store!IngestStep(c1))
  /\ WF_front(part = "page" /\ calls # <<>> /\ Page!Answer(1))

Spec == Init /\ [][Next]_vars /\ Fairness

\* The queue moves on: the jobs leave no question active past its expiry for ever, and end
\* every claim whose holder does not report (expire_stale_questions).
QueueMovesOn == Queue!OverdueLeave /\ Queue!ClaimsEnd

\* A question that was asked and never answered is requeued in the end (cleanup_questions).
UnansweredRequeued == Queue!UnansweredRequeued

\* A task that stays overdue comes to be asked about, however many are before it
\* (latest_task_health_snapshot, run_task_health_checks).
OverdueHeard == Tasks!OverdueHeard

\* An unfinished item that stays past its date comes to be asked about, whatever checks fail
\* (run_decision_health_checks).
OverdueAsked == Checks!OverdueAsked

\* Every pending follow-up job is completed or failed some day (process_pending_jobs).
JobsEnd == Jobs!JobsEnd

\* The event of every committed change of education reaches the broker in the end
\* (publish_pending_education_events).
EventsSent == Outbox!EventsSent

\* Every message of the stream is acknowledged in the end (family_events_worker.py).
PublishedAcked == Store!PublishedAcked

\* The loader of the decision system's pages comes to rest: the family it selects does not
\* make its own effect load again and again, as long as no call failed or was overtaken and
\* nothing was picked over calls in flight (decisions/page.tsx, loadData and its effects).
LoaderSettles == []<>(part = "page" => calls = <<>> \/ ~smooth)
=============================================================================
