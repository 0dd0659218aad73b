------------------------------ MODULE Questions ------------------------------
(***************************************************************************)
(* The question queue of one family, as question-management-service keeps  *)
(* it: agents create questions, claim the next ones to deliver under a     *)
(* lease, report that they asked them, users answer them, and two          *)
(* periodic jobs expire, release, requeue and clean up.                    *)
(*                                                                         *)
(* Every action is one endpoint or one job, run alone: the module says     *)
(* what the service does when requests do not overlap.  QuestionSessions   *)
(* takes the same row operations apart into overlapping transactions.      *)
(***************************************************************************)
EXTENDS QuestionRows

CONSTANTS
  TaskAutoCap,    \* question_task_auto_cap
  MaxAsked,       \* bound: how often a row may be asked
  TopicInputs, LeaseInputs, ExpiryInputs, BackdateInputs, PatchStatusInputs  \* inputs

ASSUME InputsAssumption ==
  /\ TopicInputs \subseteq Topics \cup {NULL}
  /\ LeaseInputs \subseteq 0 .. LeaseMax
  /\ ExpiryInputs \subseteq Left(ExpiryMax) \cup {NULL}
  /\ BackdateInputs \subseteq Nat
  /\ PatchStatusInputs \subseteq Status \cup {NULL}

VARIABLES
  rows,       \* table questions: a row, or NULL where there is none
  attempts,   \* per row, its rows of question_delivery_attempts: how many
              \*   were sent, and how many of these wait for a response
  lastSent,   \* per channel, the age of its latest attempt
  leases,     \* per token, what the answer to its claim promised: the
              \*   questions still the holder's, and the time left (history)
  patched     \* claimed rows whose status a PATCH overwrote (history)

vars == <<rows, attempts, lastSent, leases, patched>>

\* The identity of a deleted row is used again: nothing else refers to it.
Present == RowsOf(rows)
NoLease == [ids |-> {}, left |-> Lapsed]
NoAttempts == [sent |-> 0, open |-> 0]

Init ==
  /\ rows = [i \in Ids |-> NULL]
  /\ attempts = [i \in Ids |-> NoAttempts]
  /\ lastSent = [c \in Channels |-> NULL]
  /\ leases = [t \in Tokens |-> NoLease]
  /\ patched = {}

---------------------------------------------------------------------------
\* The history after the rows in S lost their claim to something other than
\* the end of the lease, the table then being newRows.
Without(S) ==
  [t \in Tokens |-> IF leases[t].ids \subseteq S THEN NoLease
                    ELSE [leases[t] EXCEPT !.ids = @ \ S]]
EndLeases(S, newRows) ==
  /\ leases' = Without(S)
  /\ patched' = {i \in patched : newRows[i] # NULL /\ newRows[i].token # NULL}

Expiring == Overdue(rows)

---------------------------------------------------------------------------
(* create_or_update_question                                               *)

\* _suppression_reason: an automatic, not critical task question is refused
\* while the family has TaskAutoCap active task questions.
Suppressed(k, auto) ==
  /\ auto /\ k \in TaskKeys
  /\ Cardinality({i \in Present : rows[i].key \in TaskKeys /\ Active(rows[i])})
       >= TaskAutoCap

\* Row i is written, and its rivals are dismissed.
Upsert(i, row, k, tp) ==
  LET newRows == Upserted(rows, i, row, k, tp)
  IN /\ rows' = newRows
     /\ EndLeases(Rivals(rows, i, k, tp), newRows)

CreateQuestion(k, tp, rk, ex, auto) ==
  /\ ~ Suppressed(k, auto)
  /\ \A i \in Present : rows[i].key # k
  /\ \E i \in Ids \ Present :
       /\ Upsert(i, NewRow(k, tp, rk, ex), k, tp)
       /\ attempts' = [attempts EXCEPT ![i] = NoAttempts]
  /\ UNCHANGED lastSent

UpdateByKey(k, tp, rk, ex, auto) ==
  /\ ~ Suppressed(k, auto)
  /\ \E i \in Present :
       /\ rows[i].key = k
       /\ Upsert(i, Refreshed(rows[i], tp, rk, ex), k, tp)
  /\ UNCHANGED <<attempts, lastSent>>

PatchQuestion(i, st, ex) ==
  /\ i \in Present
  /\ rows' = [rows EXCEPT ![i] = Patched(@, st, ex)]
  /\ patched' = IF st # NULL /\ rows[i].token # NULL
                THEN patched \cup {i} ELSE patched
  /\ UNCHANGED <<attempts, lastSent, leases>>

---------------------------------------------------------------------------
(* claim_next_questions                                                    *)

\* What a claim meets besides the tables: the caller forces it, or the clock
\* (quiet hours, daytime, learned engagement hours) lets it through, or not.
Gates == {"forced", "open", "closed"}

\* _delivery_window_ok: the two cooldowns are read from the tables.
DeliveryWindowOk(swept, c, gate) ==
  \/ gate = "forced"
  \/ /\ gate = "open"
     /\ lastSent[c] # NULL => lastSent[c] > Cooldown
     /\ \A i \in Present :
          swept[i].answered # NULL => swept[i].answered > PostAnswer

MayClaim(c, gate) ==
  LET swept == Swept(ClaimSweep, rows)
  IN /\ \A i \in Present : ~ AwaitingReplyOn(swept[i], c)
     /\ DeliveryWindowOk(swept, c, gate)
     /\ \E i \in Present : Candidate(swept[i])

ClaimNext(c, l, gate, merge) ==
  LET swept == Swept(ClaimSweep, rows)
  IN /\ MayClaim(c, gate)
     /\ \E t \in Tokens, first \in Present, chosen \in SUBSET Present :
          /\ leases[t] = NoLease /\ \A i \in Present : rows[i].token # t
          /\ Batch(swept, first, chosen, merge)
          /\ rows' = Handed(swept, chosen, t, c, l)
          /\ leases' = [Without(Expiring) EXCEPT ![t] = [ids |-> chosen, left |-> l]]
          /\ patched' = {i \in patched : swept[i].token # NULL}
     /\ UNCHANGED <<attempts, lastSent>>

\* The answer is "not eligible", but the sweeps have been committed.
ClaimNothing(c, gate) ==
  LET swept == Swept(ClaimSweep, rows)
  IN /\ ~ MayClaim(c, gate)
     /\ rows' = swept
     /\ EndLeases(Expiring, swept)
     /\ UNCHANGED <<attempts, lastSent>>

---------------------------------------------------------------------------
(* mark_question_asked, answer_question, resolve_question                  *)

\* Refused only when both sides have a token and the tokens differ.
TokenAccepted(r, t) == t = NULL \/ r.token = NULL \/ t = r.token

MarkAsked(i, c, t) ==
  /\ i \in Present
  /\ TokenAccepted(rows[i], t)
  /\ rows[i].asked < MaxAsked
  /\ LET newRows == [rows EXCEPT ![i] = Asked(@, c)]
     IN rows' = newRows /\ EndLeases({i}, newRows)
  /\ attempts' = [attempts EXCEPT ![i] = [sent |-> @.sent + 1, open |-> @.open + 1]]
  /\ lastSent' = [lastSent EXCEPT ![c] = 0]

\* Mutant: an answer to a question that was never asked closes an attempt.
AnswerQuestionUnasked(i, st, ago) ==
  /\ i \in Present
  /\ LET newRows == [rows EXCEPT ![i] = Answered(@, st, ago)]
     IN rows' = newRows /\ EndLeases({i}, newRows)
  /\ attempts' = [attempts EXCEPT ![i].open = @ - 1]
  /\ UNCHANGED lastSent

\* The latest attempt without a response, when there is one, is closed.
AnswerQuestion(i, st, ago) ==
  /\ i \in Present
  /\ LET newRows == [rows EXCEPT ![i] = Answered(@, st, ago)]
     IN rows' = newRows /\ EndLeases({i}, newRows)
  /\ attempts' = [attempts EXCEPT ![i].open = IF @ > 0 THEN @ - 1 ELSE 0]
  /\ UNCHANGED lastSent

ResolveQuestion(i, st) ==
  /\ i \in Present
  /\ LET newRows == [rows EXCEPT ![i] = Resolved(@, st)]
     IN rows' = newRows /\ EndLeases({i}, newRows)
  /\ UNCHANGED <<attempts, lastSent>>

---------------------------------------------------------------------------
(* Deletion, listing and the jobs                                          *)

Remove(S) ==
  /\ S \subseteq Present
  /\ LET newRows == [i \in Ids |-> IF i \in S THEN NULL ELSE rows[i]]
     IN rows' = newRows /\ EndLeases(S, newRows)
  /\ UNCHANGED <<attempts, lastSent>>

DeleteQuestion(i) == Remove({i})

PurgeQuestions(S) == S # {} /\ Remove(S)

\* GET .../questions expires overdue questions before it lists.
ListQuestions ==
  LET swept == Swept(ExpireSweep, rows)
  IN /\ rows' = swept
     /\ EndLeases(Expiring, swept)
     /\ UNCHANGED <<attempts, lastSent>>

\* expire_stale_questions: release, then expire.
ExpireJob ==
  LET swept == Swept(ExpireJobSweep, rows)
  IN /\ rows' = swept
     /\ EndLeases(Expiring, swept)
     /\ UNCHANGED <<attempts, lastSent>>

\* cleanup_question_backlog: dismiss, release, expire, requeue.
CleanupJob ==
  LET swept == Swept(CleanupJobSweep, rows)
  IN /\ rows' = swept
     /\ EndLeases({i \in Expiring : ~ OldPending(rows[i])}, swept)
     /\ UNCHANGED <<attempts, lastSent>>

---------------------------------------------------------------------------
Tick ==
  /\ rows' = Swept(Aged, rows)
  /\ lastSent' = [c \in Channels |-> CountUp(lastSent[c], Cooldown)]
  /\ leases' = [t \in Tokens |->
                  IF leases[t].left <= 0 THEN NoLease
                  ELSE [leases[t] EXCEPT !.left = @ - 1]]
  /\ UNCHANGED <<attempts, patched>>

Producer ==
  \E k \in Keys, tp \in TopicInputs, rk \in Ranks, ex \in ExpiryInputs,
     auto \in BOOLEAN :
    CreateQuestion(k, tp, rk, ex, auto) \/ UpdateByKey(k, tp, rk, ex, auto)

Agent ==
  \E c \in Channels :
    \/ \E l \in LeaseInputs, gate \in Gates, merge \in BOOLEAN :
         ClaimNext(c, l, gate, merge)
    \/ \E gate \in Gates : ClaimNothing(c, gate)
    \/ \E i \in Ids, t \in Tokens \cup {NULL} : MarkAsked(i, c, t)

User ==
  \/ \E i \in Ids, st \in PatchStatusInputs, ex \in ExpiryInputs :
       PatchQuestion(i, st, ex)
  \/ \E i \in Ids, st \in {"resolved", "answered_partial"}, ago \in BackdateInputs :
       AnswerQuestion(i, st, ago)
  \/ \E i \in Ids, st \in {"resolved", "expired", "dismissed", "answered_partial"} :
       ResolveQuestion(i, st)
  \/ \E i \in Ids : DeleteQuestion(i)
  \/ \E S \in SUBSET Ids : PurgeQuestions(S)
  \/ ListQuestions

Jobs == ExpireJob \/ CleanupJob

Next == Producer \/ Agent \/ User \/ Jobs \/ Tick

Spec == Init /\ [][Next]_vars

\* Celery beat runs the jobs every 300 and 1800 seconds, whatever the users do.
FairSpec == Spec /\ WF_vars(Tick) /\ WF_vars(ExpireJob) /\ WF_vars(CleanupJob)

---------------------------------------------------------------------------
Lease == [ids : SUBSET Ids, left : Left(LeaseMax)]

TypeOK ==
  /\ rows \in [Ids -> Row \cup {NULL}]
  /\ attempts \in [Ids -> [sent : Nat, open : Nat]]
  /\ lastSent \in [Channels -> Age(Cooldown) \cup {NULL}]
  /\ leases \in [Tokens -> Lease]
  /\ patched \subseteq Ids

\* While the lease a claim was answered with is running, no later claim
\* hands out the same question, unless the first holder's claim was ended
\* early (asked, answered, resolved, expired, superseded, deleted).
LeaseMutex ==
  \A t, u \in Tokens : t # u => leases[t].ids \cap leases[u].ids = {}

\* A running lease is what the table says: the holder can still report
\* the question as asked with its token.
LeaseHonoured ==
  \A t \in Tokens : \A i \in leases[t].ids :
    /\ leases[t].left >= 0
    /\ rows[i] # NULL /\ rows[i].token = t /\ rows[i].lease = leases[t].left

\* No claim survives on a question that cannot be claimed: every operation
\* that takes a question out of the queue ends its claim in the same
\* transaction, except PATCH.  The backlog cleanup, which does not clear
\* the claim itself, relies on the release sweep that follows it.
ClaimedIsClaimable ==
  \A i \in Present :
    rows[i].token # NULL => rows[i].status \in ClaimableStatus \/ i \in patched

\* One token never covers more questions than may be delivered together.
BatchBounded ==
  \A t \in Tokens : Cardinality({i \in Present : rows[i].token = t}) <= MergeLimit

\* A claim covers only what can be claimed, and no more than may be delivered together,
\* whatever requests and jobs come after it.
ClaimsBounded == ClaimedIsClaimable /\ BatchBounded

\* asked_count is the number of delivery attempts on record, whatever
\* requeues, updates and answers happen in between.
AskedCountsAttempts ==
  \A i \in Present : rows[i].asked = attempts[i].sent

\* The jobs leave no question active past its expiry for ever.
OverdueLeave ==
  \A i \in Ids : []<>~(rows[i] # NULL /\ Active(rows[i]) /\ PastExpiry(rows[i]))

\* Every claim is over one day, whoever holds it: a holder that never
\* reports loses it to the release sweep.
ClaimsEnd ==
  \A i \in Ids, t \in Tokens :
    (rows[i] # NULL /\ rows[i].token = t) ~> (rows[i] = NULL \/ rows[i].token # t)

\* A question that was asked and never answered does not wait for ever: it
\* is requeued unless it is asked again and again.
UnansweredRequeued ==
  \A i \in Ids :
    []<>( \/ rows[i] = NULL \/ rows[i].status # "asked"
          \/ rows[i].answered # NULL \/ rows[i].lastAsked = 0 )
=============================================================================
