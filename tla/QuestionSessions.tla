--------------------------- MODULE QuestionSessions ---------------------------
(***************************************************************************)
(* The same requests as Questions, as the database transactions they are:  *)
(* each request is a session that reads the tables, computes what the      *)
(* service function assigns, and commits later, or is rolled back.         *)
(* Sessions overlap (FastAPI runs the endpoints in a thread pool, the      *)
(* Celery jobs are other processes) and nothing locks what they read.      *)
(*                                                                         *)
(* A commit writes COLUMNS, not rows: SQLAlchemy emits an UPDATE of the    *)
(* attributes whose value a flush finds changed, so a column a session     *)
(* assigned the value it had read stays what another session made it.      *)
(* An UPDATE of a row that is gone, or the INSERT of a key that exists,    *)
(* fails and rolls the session back.                                       *)
(*                                                                         *)
(* Abstraction: the SELECTs of one session see one state of the tables.    *)
(***************************************************************************)
EXTENDS QuestionRows, TLC

CONSTANTS
  Sessions,
  MaxAsked,       \* bound: how often a row may be asked
  LeaseInputs, ExpiryInputs, PatchStatusInputs

ASSUME InputsAssumption ==
  /\ LeaseInputs \subseteq 0 .. LeaseMax
  /\ ExpiryInputs \subseteq Left(ExpiryMax) \cup {NULL}
  /\ PatchStatusInputs \subseteq Status \cup {NULL}

VARIABLES
  rows,      \* committed rows
  used,      \* identities given out (uuid4: never again after a deletion)
  sent,      \* per row, committed rows of question_delivery_attempts
  session,   \* per session NULL or its uncommitted work
  patched    \* rows whose status a committed PATCH set (history)

vars == <<rows, used, sent, session, patched>>

---------------------------------------------------------------------------
(* Columns                                                                 *)

Columns == {"key", "topic", "rank", "status", "expires", "updated", "asked",
            "lastAsked", "lastChannel", "answered", "token", "channel", "lease"}

\* What the flushes of a session write when they take a row from r to s;
\* `fresh` are the columns assigned a new timestamp or token.
Diff(r, s, fresh) ==
  [c \in {d \in Columns : r[d] # s[d]} \cup fresh |-> s[c]]

\* A partial row written over a row: the columns of w win.
Over(w, r) == [c \in Columns |-> IF c \in DOMAIN w THEN w[c] ELSE r[c]]

NoWrite == <<>>

AgedColumn(c, v) ==
  IF c \in {"expires", "lease"} THEN CountDown(v)
  ELSE IF c = "updated" THEN CountUp(v, StalePending)
  ELSE IF c = "lastAsked" THEN CountUp(v, StaleAsked)
  ELSE IF c = "answered" THEN CountUp(v, PostAnswer)
  ELSE v

---------------------------------------------------------------------------
Init ==
  /\ rows = [i \in Ids |-> NULL]
  /\ used = {}
  /\ sent = [i \in Ids |-> 0]
  /\ session = [s \in Sessions |-> NULL]
  /\ patched = {}

Present == RowsOf(rows)

Work(op, writes) ==
  [op |-> op, writes |-> writes, insert |-> NULL, delete |-> {}, token |-> NULL]

\* Only row i is written.
Only(i, w) == [j \in Ids |-> IF j = i THEN w ELSE NoWrite]

Touched(work) == {i \in Ids : work.writes[i] # NoWrite}

\* A session that writes nothing may as well not have been.
Begin(s, work) ==
  /\ session[s] = NULL
  /\ Touched(work) # {} \/ work.delete # {}
  /\ session' = [session EXCEPT ![s] = work]
  /\ UNCHANGED <<rows, used, sent, patched>>

---------------------------------------------------------------------------
(* create_or_update_question                                               *)

SupersededWrites(i, k, tp) ==
  [j \in Ids |-> IF j \in Rivals(rows, i, k, tp)
                 THEN Diff(rows[j], Superseded(rows[j]), {"updated"}) ELSE NoWrite]

BeginCreate(s, k, tp, rk, ex) ==
  /\ \A i \in Present : rows[i].key # k
  /\ \E i \in Ids \ used :
       /\ \A u \in Sessions : session[u] # NULL => session[u].insert # i
       /\ Begin(s, [Work("create",
                         [SupersededWrites(i, k, tp) EXCEPT ![i] = NewRow(k, tp, rk, ex)])
                      EXCEPT !.insert = i])

BeginUpdateByKey(s, k, tp, rk, ex) ==
  \E i \in Present :
    /\ rows[i].key = k
    /\ Begin(s, Work("update",
          [SupersededWrites(i, k, tp) EXCEPT
             ![i] = Diff(rows[i], Refreshed(rows[i], tp, rk, ex), {"updated"})]))

\* update_question
BeginPatch(s, i, st, ex) ==
  /\ i \in Present
  /\ Begin(s, Work(IF st = NULL THEN "patch" ELSE "set_status",
                   Only(i, Diff(rows[i], Patched(rows[i], st, ex), {"updated"}))))

---------------------------------------------------------------------------
(* claim_next_questions: the sweeps are flushed before the claim is.       *)

SweepWrites(F(_)) ==
  [i \in Ids |-> IF rows[i] = NULL \/ F(rows[i]) = rows[i] THEN NoWrite
                 ELSE Diff(rows[i], F(rows[i]), {"updated"})]

ClaimWrites(first, t, c, l, swept, chosen) ==
  [i \in Ids |->
     IF i \in chosen
     THEN LET swp == SweepWrites(ClaimSweep)[i]
              clm == Diff(swept[i], Claimed(swept[i], t, c, l), {"lease", "updated"})
          IN [d \in DOMAIN swp \cup DOMAIN clm |->
                IF d \in DOMAIN clm THEN clm[d] ELSE swp[d]]
     ELSE SweepWrites(ClaimSweep)[i]]

FreshToken(t) ==
  /\ \A i \in Present : rows[i].token # t
  /\ \A s \in Sessions : session[s] # NULL => session[s].token # t

BeginClaim(s, c, l) ==
  LET swept == Swept(ClaimSweep, rows)
  IN /\ \A i \in Present : ~ AwaitingReplyOn(swept[i], c)
     /\ \E t \in Tokens, first \in Present, chosen \in SUBSET Present :
          /\ FreshToken(t)
          /\ Batch(swept, first, chosen, TRUE)
          /\ Begin(s, [Work("claim", ClaimWrites(first, t, c, l, swept, chosen))
                         EXCEPT !.token = t])

---------------------------------------------------------------------------
(* mark_question_asked, answer_question, resolve_question                  *)

TokenAccepted(r, t) == t = NULL \/ r.token = NULL \/ t = r.token

\* An agent reports with the token it was given or with none.  A token the
\* row no longer carries is accepted on an unclaimed row only, where it
\* writes what no token writes.
BeginAsked(s, i, c, t) ==
  /\ i \in Present
  /\ TokenAccepted(rows[i], t)
  /\ rows[i].asked < MaxAsked /\ sent[i] < MaxAsked
  /\ Begin(s, [Work("asked", Only(i, Diff(rows[i], Asked(rows[i], c),
                                          {"lastAsked", "updated"})))
                 EXCEPT !.token = t])

BeginAnswer(s, i, st) ==
  /\ i \in Present
  /\ Begin(s, Work("answer", Only(i, Diff(rows[i], Answered(rows[i], st, 0),
                                          {"answered", "updated"}))))

BeginResolve(s, i, st) ==
  /\ i \in Present
  /\ Begin(s, Work("resolve", Only(i, Diff(rows[i], Resolved(rows[i], st),
                                           {"updated"}))))

BeginDelete(s, S) ==
  /\ S # {} /\ S \subseteq Present
  /\ Begin(s, [Work("delete", [i \in Ids |-> NoWrite]) EXCEPT !.delete = S])

BeginExpireJob(s)  == Begin(s, Work("sweep", SweepWrites(ExpireJobSweep)))
BeginCleanupJob(s) == Begin(s, Work("sweep", SweepWrites(CleanupJobSweep)))

---------------------------------------------------------------------------
(* The end of a session                                                    *)

Commits(work) ==
  /\ \A i \in Touched(work) \ {work.insert} : rows[i] # NULL
  /\ work.insert # NULL =>
       \A i \in Present : rows[i].key # work.writes[work.insert].key

Commit(s) ==
  /\ session[s] # NULL
  /\ LET work == session[s]
         asked == {i \in Ids : work.op = "asked" /\ i \in Touched(work)}
     IN /\ Commits(work)
        /\ rows' = [i \in Ids |-> IF i \in work.delete THEN NULL
                                  ELSE IF i = work.insert THEN work.writes[i]
                                  ELSE IF rows[i] = NULL THEN NULL
                                  ELSE Over(work.writes[i], rows[i])]
        /\ used' = IF work.insert = NULL THEN used ELSE used \cup {work.insert}
        /\ sent' = [i \in Ids |-> IF i \in asked THEN sent[i] + 1 ELSE sent[i]]
        /\ patched' = IF work.op = "set_status" THEN patched \cup Touched(work)
                      ELSE patched
  /\ session' = [session EXCEPT ![s] = NULL]

\* The process dies, the connection is lost, or the commit is refused.
Rollback(s) ==
  /\ session[s] # NULL
  /\ session' = [session EXCEPT ![s] = NULL]
  /\ UNCHANGED <<rows, used, sent, patched>>

Tick ==
  /\ rows' = Swept(Aged, rows)
  /\ session' = [s \in Sessions |->
       IF session[s] = NULL THEN NULL
       ELSE [session[s] EXCEPT !.writes =
               [i \in Ids |-> [c \in DOMAIN @[i] |-> AgedColumn(c, @[i][c])]]]]
  /\ UNCHANGED <<used, sent, patched>>

Requests(s) ==
  \/ \E k \in Keys, tp \in Topics, rk \in Ranks, ex \in ExpiryInputs :
       BeginCreate(s, k, tp, rk, ex) \/ BeginUpdateByKey(s, k, tp, rk, ex)
  \/ \E i \in Ids, st \in PatchStatusInputs, ex \in ExpiryInputs :
       BeginPatch(s, i, st, ex)
  \/ \E c \in Channels, l \in LeaseInputs : BeginClaim(s, c, l)
  \/ \E i \in Present, c \in Channels :
       \E t \in {NULL, rows[i].token} : BeginAsked(s, i, c, t)
  \/ \E i \in Ids, st \in {"resolved", "answered_partial"} : BeginAnswer(s, i, st)
  \/ \E i \in Ids, st \in {"resolved", "expired", "dismissed", "answered_partial"} :
       BeginResolve(s, i, st)
  \/ \E S \in SUBSET Ids : BeginDelete(s, S)

Next ==
  \/ Tick
  \/ \E s \in Sessions : \/ Requests(s)
                         \/ BeginExpireJob(s) \/ BeginCleanupJob(s)
                         \/ Commit(s) \/ Rollback(s)

Spec == Init /\ [][Next]_vars

---------------------------------------------------------------------------
WorkType(work) ==
  /\ work.op \in {"create", "update", "patch", "set_status", "claim", "asked",
                  "answer", "resolve", "delete", "sweep"}
  /\ work.insert \in Ids \cup {NULL} /\ work.delete \subseteq Ids
  /\ work.token \in Tokens \cup {NULL}
  /\ \A i \in Ids : DOMAIN work.writes[i] \subseteq Columns

TypeOK ==
  /\ rows \in [Ids -> Row \cup {NULL}]
  /\ used \subseteq Ids /\ patched \subseteq Ids
  /\ sent \in [Ids -> Nat]
  /\ \A s \in Sessions : session[s] # NULL => WorkType(session[s])

\* Whatever sessions overlap, the claim columns of a row agree: a claim is
\* there as a whole or not at all, although every session writes only the
\* columns it found different and read them before others committed.
ClaimColumnsAgree ==
  \A i \in Present :
    /\ (rows[i].token = NULL) = (rows[i].lease = NULL)
    /\ (rows[i].token = NULL) = (rows[i].channel = NULL)

\* Overlapping reports of a delivery may lose a count, they never invent one.
AskedNeverOvercounts == \A i \in Present : rows[i].asked <= sent[i]

\* A resolved question has the time of its answer, whichever sessions raced
\* to resolve, reopen and expire it; only a PATCH of the status breaks this.
ResolvedHasAnswer ==
  \A i \in Present \ patched :
    rows[i].status = "resolved" => rows[i].answered # NULL

\* A question that was asked knows when and where it was asked: the rows the
\* outstanding check and the requeue look for are the rows that were asked.
AskedHasDelivery ==
  \A i \in Present \ patched :
    rows[i].status = "asked" =>
      rows[i].lastAsked # NULL /\ rows[i].lastChannel # NULL /\ rows[i].asked > 0

\* Whatever two transactions overlap, the columns of a row agree with each other and with
\* the deliveries on record, so that the sweeps find every claim, every question that was
\* asked and every answer by the columns they look at.
SessionsAgree ==
  /\ TypeOK
  /\ ClaimColumnsAgree /\ AskedNeverOvercounts /\ ResolvedHasAnswer /\ AskedHasDelivery
=============================================================================
