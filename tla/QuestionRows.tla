---------------------------- MODULE QuestionRows ----------------------------
(***************************************************************************)
(* One row of the table `questions` of question-management-service, and    *)
(* what each service function of app/services/questions.py does to a row.  *)
(* Questions.tla applies these operators one request at a time,            *)
(* QuestionSessions.tla inside database transactions that interleave.      *)
(*                                                                         *)
(* Time.  A timestamp in the past is kept as its AGE, counted up to the    *)
(* threshold the code compares it with plus one ("older than the           *)
(* threshold"); a deadline is kept as the time LEFT, counted down to       *)
(* Lapsed, the value of a deadline that is strictly before now.  NULL is   *)
(* the SQL NULL.                                                           *)
(*                                                                         *)
(* Data.  `topic` stands for the category together with the artifact       *)
(* identity (_artifact_identity) and the merge key (_merge_key): two rows  *)
(* of one topic are mergeable and, inside one domain, supersede one        *)
(* another.  A NULL topic is a question without artifact and merge key.    *)
(* `rank` stands for the pair (urgency, due_at) claim_next_questions sorts *)
(* by first, a smaller rank being delivered first.                         *)
(***************************************************************************)
EXTENDS Integers, FiniteSets

CONSTANTS
  Ids,           \* identities of rows
  Keys,          \* the (domain, dedupe_key) pairs producers use
  TaskKeys,      \* those of the domain "task"
  DomainOf,      \* the domain of each key
  Topics,
  Ranks,         \* a set of integers
  Channels,      \* delivery channels
  Tokens,        \* claim tokens
  NULL,
  LeaseMax,      \* longest lease a claim may ask for
  ExpiryMax,     \* longest time to expiry a producer gives
  Cooldown,      \* question_delivery_cooldown_minutes
  PostAnswer,    \* question_post_answer_cooldown_minutes
  StaleAsked,    \* question_requeue_stale_asked_hours
  StalePending,  \* question_stale_pending_days
  MergeLimit     \* question_merge_limit

Lapsed == -1

ASSUME ConstantsAssumption ==
  /\ IsFiniteSet(Ids)
  /\ TaskKeys \subseteq Keys
  /\ Ranks \subseteq Int
  /\ \A n \in {LeaseMax, ExpiryMax, Cooldown, PostAnswer, StaleAsked, StalePending} :
        n \in Nat
  /\ MergeLimit \in Nat \ {0}
  /\ NULL \notin Ids
  /\ NULL \notin Int /\ NULL \notin Keys /\ NULL \notin Topics
  /\ NULL \notin Channels /\ NULL \notin Tokens

\* A claim is never still running when its question has been pending for
\* longer than the backlog cleanup waits (2 hours against 45 days).
ASSUME LeaseAssumption == LeaseMax < StalePending

---------------------------------------------------------------------------
Age(threshold)  == 0 .. (threshold + 1)
Left(longest)   == Lapsed .. longest
Capped(age, threshold) == IF age > threshold THEN threshold + 1 ELSE age

Status ==
  {"pending", "asked", "answered_partial", "resolved", "expired", "dismissed"}
ActiveStatus    == {"pending", "asked", "answered_partial"}
ClaimableStatus == {"pending", "answered_partial"}

Row ==
  [ key         : Keys,
    topic       : Topics \cup {NULL},
    rank        : Ranks,
    status      : Status,
    expires     : Left(ExpiryMax) \cup {NULL},    \* expires_at
    updated     : Age(StalePending),              \* updated_at
    asked       : Nat,                            \* asked_count
    lastAsked   : Age(StaleAsked) \cup {NULL},    \* last_asked_at
    lastChannel : Channels \cup {NULL},           \* last_delivery_channel
    answered    : Age(PostAnswer) \cup {NULL},    \* answered_at
    token       : Tokens \cup {NULL},             \* current_claim_token
    channel     : Channels \cup {NULL},           \* current_claim_channel
    lease       : Left(LeaseMax) \cup {NULL} ]    \* current_claim_expires_at

\* A row is not the absence of one.
ASSUME RowAssumption == NULL \notin Row

---------------------------------------------------------------------------
(* What the WHERE clauses of the service read.                             *)

Active(r)       == r.status \in ActiveStatus
PastExpiry(r)   == r.expires # NULL /\ r.expires = Lapsed
\* Mutant: the boundary is off by one.
LeaseLapsedEarly(r) == r.token # NULL /\ r.lease # NULL /\ r.lease <= 0
LeaseLapsed(r)  == r.token # NULL /\ r.lease # NULL /\ r.lease = Lapsed
OldPending(r)   == r.status = "pending" /\ r.updated > StalePending
\* Mutant: the age of the last write instead of that of the last delivery.
OldAskedByUpdate(r) == /\ r.status = "asked" /\ r.answered = NULL
                       /\ r.updated > StalePending
OldAsked(r)     == /\ r.status = "asked" /\ r.answered = NULL
                   /\ r.lastAsked # NULL /\ r.lastAsked > StaleAsked

\* What _question_outstanding_in_channel counts.
AwaitingReplyOn(r, c) ==
  r.status = "asked" /\ r.lastChannel = c /\ r.answered = NULL

\* Mutant: a question somebody holds is handed out as well.
CandidateHeld(r) == r.status \in ClaimableStatus /\ ~ PastExpiry(r)

\* What claim_next_questions may hand out.
Candidate(r) ==
  /\ r.status \in ClaimableStatus
  /\ r.token = NULL \/ r.lease = Lapsed
  /\ ~ PastExpiry(r)

\* The order in which candidates are handed out; equal rows are ordered by
\* recency in the code, which is left open here.
Before(r, s) == r.rank < s.rank \/ (r.rank = s.rank /\ r.asked < s.asked)

---------------------------------------------------------------------------
(* What the service functions write.                                       *)

\* Mutant: the deadline of a claim outlives it.
UnclaimedKeepsLease(r) == [r EXCEPT !.token = NULL, !.channel = NULL]
Unclaimed(r) == [r EXCEPT !.token = NULL, !.channel = NULL, !.lease = NULL]

NewRow(k, tp, rk, ex) ==
  [ key |-> k, topic |-> tp, rank |-> rk, status |-> "pending", expires |-> ex,
    updated |-> 0, asked |-> 0, lastAsked |-> NULL, lastChannel |-> NULL,
    answered |-> NULL, token |-> NULL, channel |-> NULL, lease |-> NULL ]

\* Mutant: a reopened question starts to count again.
RefreshedRecounts(r, tp, rk, ex) ==
  [r EXCEPT !.topic = tp, !.rank = rk, !.expires = ex, !.updated = 0,
            !.status = IF Active(r) THEN r.status ELSE "pending",
            !.asked  = IF Active(r) THEN r.asked ELSE 0]

\* The branch of create_or_update_question for a key that exists: the claim,
\* asked_count and answered_at stay as they are.
Refreshed(r, tp, rk, ex) ==
  [r EXCEPT !.topic = tp, !.rank = rk, !.expires = ex, !.updated = 0,
            !.status = IF Active(r) THEN r.status ELSE "pending"]

\* update_question: a NULL argument is left alone; the claim always is.
Patched(r, st, ex) ==
  [r EXCEPT !.status  = IF st = NULL THEN @ ELSE st,
            !.expires = IF ex = NULL THEN @ ELSE ex,
            !.updated = 0]

Released(r)   == [Unclaimed(r) EXCEPT !.updated = 0]
Expired(r)    == [Unclaimed(r) EXCEPT !.status = "expired", !.updated = 0]
Superseded(r) ==
  [Unclaimed(r) EXCEPT !.status = "dismissed", !.updated = 0]

\* cleanup_question_backlog dismisses without touching the claim.
CleanedUp(r)  == [r EXCEPT !.status = "dismissed", !.updated = 0]
Requeued(r)   == [r EXCEPT !.status = "pending", !.updated = 0]

Claimed(r, t, c, l) ==
  [r EXCEPT !.token = t, !.channel = c, !.lease = l, !.updated = 0]

Asked(r, c) ==
  [Unclaimed(r) EXCEPT !.status = "asked", !.lastAsked = 0, !.updated = 0,
                       !.asked = @ + 1, !.lastChannel = c]

\* responded_at may lie `ago` in the past; updated_at is set to it as well.
Answered(r, st, ago) ==
  [Unclaimed(r) EXCEPT !.status = st,
                       !.answered = Capped(ago, PostAnswer),
                       !.updated = Capped(ago, StalePending)]

Resolved(r, st) ==
  [Unclaimed(r) EXCEPT !.status = st, !.updated = 0,
                       !.answered = IF st = "resolved" /\ @ = NULL THEN 0 ELSE @]

\* The sweeps, as they meet one row.
ReleaseSweep(r) == IF LeaseLapsed(r) THEN Released(r) ELSE r
\* Mutant: a question that was asked never expires.
ExpireSweepPending(r) ==
  IF r.status = "pending" /\ PastExpiry(r) THEN Expired(r) ELSE r
ExpireSweep(r)  == IF Active(r) /\ PastExpiry(r) THEN Expired(r) ELSE r
CleanupSweep(r) == IF OldPending(r) THEN CleanedUp(r) ELSE r
RequeueSweep(r) == IF OldAsked(r) THEN Requeued(r) ELSE r

\* One unit of time passes for a row.
CountUp(age, threshold) == IF age = NULL THEN NULL ELSE Capped(age + 1, threshold)
CountDown(left) ==
  IF left = NULL THEN NULL ELSE IF left = Lapsed THEN Lapsed ELSE left - 1
Aged(r) ==
  [r EXCEPT !.expires   = CountDown(@),
            !.lease     = CountDown(@),
            !.updated   = CountUp(@, StalePending),
            !.lastAsked = CountUp(@, StaleAsked),
            !.answered  = CountUp(@, PostAnswer)]
---------------------------------------------------------------------------
(* The same, for a table: a row, or NULL, per identity.                    *)

RowsOf(table) == {i \in Ids : table[i] # NULL}

\* The table after the sweep F has met every row.
Swept(F(_), table) ==
  [i \in Ids |-> IF table[i] = NULL THEN NULL ELSE F(table[i])]

ClaimSweep(r)      == ReleaseSweep(ExpireSweep(r))   \* claim_next_questions
ExpireJobSweep(r)  == ExpireSweep(ReleaseSweep(r))   \* expire_stale_questions
\* Mutant: the cleanup forgets to release the claims whose lease is over.
CleanupJobSweepKeepsClaims(r) == RequeueSweep(ExpireSweep(CleanupSweep(r)))
CleanupJobSweep(r) ==                                \* cleanup_question_backlog
  RequeueSweep(ExpireSweep(ReleaseSweep(CleanupSweep(r))))

Overdue(table) ==
  {i \in RowsOf(table) : Active(table[i]) /\ PastExpiry(table[i])}

\* The other active questions that a question i of key k and topic tp
\* supersedes, and the table after i was written and they were dismissed.
Rivals(table, i, k, tp) ==
  {j \in RowsOf(table) \ {i} :
     /\ tp # NULL /\ table[j].topic = tp
     /\ Active(table[j]) /\ DomainOf[table[j].key] = DomainOf[k]}

Upserted(table, i, row, k, tp) ==
  [j \in Ids |-> IF j = i THEN row
                 ELSE IF j \in Rivals(table, i, k, tp) THEN Superseded(table[j])
                 ELSE table[j]]

\* The rows handed out together: the first one, and the next of its topic.
Batch(table, first, chosen, merge) ==
  LET candidates == {i \in RowsOf(table) : Candidate(table[i])}
      more == IF merge /\ table[first].topic # NULL
              THEN {i \in candidates \ {first} : table[i].topic = table[first].topic}
              ELSE {}
  IN /\ first \in candidates
     /\ \A i \in candidates : ~ Before(table[i], table[first])
     /\ first \in chosen
     /\ chosen \subseteq {first} \cup more
     /\ chosen = {first} \cup more \/ Cardinality(chosen) = MergeLimit
     /\ Cardinality(chosen) <= MergeLimit
     /\ \A i \in chosen \ {first}, j \in more \ chosen : ~ Before(table[j], table[i])

Handed(table, chosen, t, c, l) ==
  [i \in Ids |-> IF i \in chosen THEN Claimed(table[i], t, c, l) ELSE table[i]]
=============================================================================
