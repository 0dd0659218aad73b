--------------------------- MODULE QuestionsProofs ---------------------------
(***************************************************************************)
(* Proofs about Questions, for every set of rows, keys, tokens and         *)
(* channels and every value of the time thresholds: the type invariant,    *)
(* that claims exclude one another while their leases run, what a claim    *)
(* may cover, and what asked_count counts.                                 *)
(*                                                                         *)
(* And about the two parts MCQuestions runs beside it: the reminders of    *)
(* DecisionChecks, for any number of items and days (DaysCounted: a day of *)
(* the lead on which an item was not asked about is one of those missed,   *)
(* or still to come), and the plans of Planning, for any number of         *)
(* persons, requests and days (PlansInv: what a request that nothing       *)
(* overtook read of the plan is still so).                                 *)
(***************************************************************************)
EXTENDS MCQuestions, QuestionRowsProofs, FiniteSetTheorems

---------------------------------------------------------------------------
(* What the history of leases becomes                                      *)

LEMMA WithoutType ==
  ASSUME TypeOK, NEW S
  PROVE  /\ Without(S) \in [Tokens -> Lease]
         /\ \A t \in Tokens :
              /\ Without(S)[t].ids = leases[t].ids \ S
              /\ Without(S)[t].ids # {} => Without(S)[t].left = leases[t].left
<1>1. NoLease \in Lease
  BY ThresholdsNat DEF NoLease, Lease, Left, Lapsed
<1>2. ASSUME NEW t \in Tokens
      PROVE  /\ Without(S)[t] \in Lease
             /\ Without(S)[t].ids = leases[t].ids \ S
             /\ Without(S)[t].ids # {} => Without(S)[t].left = leases[t].left
  <2>1. leases[t] \in Lease
    BY DEF TypeOK
  <2>2. CASE leases[t].ids \subseteq S
    BY <2>1, <2>2, <1>1 DEF Without, NoLease
  <2>3. CASE ~ (leases[t].ids \subseteq S)
    BY <2>1, <2>3 DEF Without, Lease
  <2> QED
    BY <2>2, <2>3
<1> QED
  BY <1>2 DEF Without

---------------------------------------------------------------------------
(* Type correctness                                                        *)

LEMMA InitType == Init => TypeOK
<1> SUFFICES ASSUME Init PROVE TypeOK
  OBVIOUS
<1>1. NoLease \in Lease
  BY ThresholdsNat DEF NoLease, Lease, Left, Lapsed
<1> QED
  BY <1>1 DEF Init, TypeOK, NoAttempts

\* The endings of claims keep the type of the history.
LEMMA EndLeasesType ==
  ASSUME TypeOK, NEW S, NEW newRows, EndLeases(S, newRows)
  PROVE  leases' \in [Tokens -> Lease] /\ patched' \subseteq Ids
  BY WithoutType DEF EndLeases, TypeOK

LEMMA UpsertType ==
  ASSUME TypeOK, NEW i \in Ids, NEW row \in Row, NEW k, NEW tp, Upsert(i, row, k, tp)
  PROVE  /\ rows' \in Table
         /\ leases' \in [Tokens -> Lease] /\ patched' \subseteq Ids
<1>1. rows \in Table
  BY DEF TypeOK, Table
<1> QED
  BY <1>1, UpsertedType, EndLeasesType DEF Upsert

LEMMA ProducerType == TypeOK /\ Producer => TypeOK'
<1> SUFFICES ASSUME TypeOK,
                    NEW k \in Keys, NEW tp \in TopicInputs, NEW rk \in Ranks,
                    NEW ex \in ExpiryInputs, NEW auto \in BOOLEAN,
                    \/ CreateQuestion(k, tp, rk, ex, auto)
                    \/ UpdateByKey(k, tp, rk, ex, auto)
             PROVE  TypeOK'
  BY DEF Producer
<1>1. tp \in Topics \cup {NULL} /\ ex \in Left(ExpiryMax) \cup {NULL}
  BY InputsAssumption
<1>2. CASE CreateQuestion(k, tp, rk, ex, auto)
  <2>1. PICK i \in Ids \ Present :
          /\ Upsert(i, NewRow(k, tp, rk, ex), k, tp)
          /\ attempts' = [attempts EXCEPT ![i] = NoAttempts]
    BY <1>2 DEF CreateQuestion
  <2>2. attempts' \in [Ids -> [sent : Nat, open : Nat]]
    BY <2>1 DEF TypeOK, NoAttempts
  <2>3. lastSent' = lastSent
    BY <1>2 DEF CreateQuestion
  <2> QED
    BY <1>1, <2>1, <2>2, <2>3, NewRowType, UpsertType DEF TypeOK, Table
<1>3. CASE UpdateByKey(k, tp, rk, ex, auto)
  <2>1. PICK i \in Present : Upsert(i, Refreshed(rows[i], tp, rk, ex), k, tp)
    BY <1>3 DEF UpdateByKey
  <2>2. i \in Ids /\ rows[i] \in Row
    BY <2>1 DEF Present, RowsOf, TypeOK
  <2>3. attempts' = attempts /\ lastSent' = lastSent
    BY <1>3 DEF UpdateByKey
  <2> QED
    BY <1>1, <2>1, <2>2, <2>3, RefreshedType, UpsertType DEF TypeOK, Table
<1> QED
  BY <1>2, <1>3

LEMMA AgentType == TypeOK /\ Agent => TypeOK'
<1> SUFFICES ASSUME TypeOK, NEW c \in Channels,
                    \/ \E l \in LeaseInputs, gate \in Gates, merge \in BOOLEAN :
                         ClaimNext(c, l, gate, merge)
                    \/ \E gate \in Gates : ClaimNothing(c, gate)
                    \/ \E i \in Ids, t \in Tokens \cup {NULL} : MarkAsked(i, c, t)
             PROVE  TypeOK'
  BY DEF Agent
<1> DEFINE swept == Swept(ClaimSweep, rows)
<1>1. rows \in Table
  BY DEF TypeOK, Table
<1>2. swept \in Table /\ RowsOf(swept) = Present
  BY <1>1, SweptTypes, SweptRows DEF Present
<1>3. ASSUME NEW l \in LeaseInputs, NEW gate \in Gates, NEW merge \in BOOLEAN,
             ClaimNext(c, l, gate, merge)
      PROVE  TypeOK'
  <2> HIDE DEF swept
  <2>1. PICK t \in Tokens, first \in Present, chosen \in SUBSET Present :
          /\ rows' = Handed(swept, chosen, t, c, l)
          /\ leases' = [Without(Expiring) EXCEPT ![t] = [ids |-> chosen, left |-> l]]
          /\ patched' = {i \in patched : swept[i].token # NULL}
    BY <1>3 DEF ClaimNext, swept
  <2>2. l \in Left(LeaseMax)
    BY InputsAssumption, ThresholdsNat DEF Left, Lapsed
  <2>3. rows' \in Table
    BY <1>2, <2>1, <2>2, HandedType
  <2>4. chosen \in SUBSET Ids
    BY <2>1 DEF Present, RowsOf
  <2>5. [ids |-> chosen, left |-> l] \in Lease
    BY <2>2, <2>4 DEF Lease
  <2>6. leases' \in [Tokens -> Lease]
    BY <2>1, <2>5, WithoutType
  <2>7. attempts' = attempts /\ lastSent' = lastSent
    BY <1>3 DEF ClaimNext
  <2> QED
    BY <2>1, <2>3, <2>6, <2>7 DEF TypeOK, Table
<1>4. ASSUME NEW gate \in Gates, ClaimNothing(c, gate)
      PROVE  TypeOK'
  BY <1>2, <1>4, EndLeasesType DEF ClaimNothing, TypeOK, Table
<1>5. ASSUME NEW i \in Ids, NEW t \in Tokens \cup {NULL}, MarkAsked(i, c, t)
      PROVE  TypeOK'
  <2>1. rows[i] \in Row
    BY <1>5 DEF MarkAsked, Present, RowsOf, TypeOK
  <2>2. rows' = [rows EXCEPT ![i] = Asked(rows[i], c)]
    BY <1>5 DEF MarkAsked
  <2>3. rows' \in Table
    BY <1>1, <2>1, <2>2, AskedType DEF Table
  <2>4. attempts' \in [Ids -> [sent : Nat, open : Nat]]
    BY <1>5 DEF MarkAsked, TypeOK
  <2>5. lastSent' \in [Channels -> Age(Cooldown) \cup {NULL}]
    BY <1>5, FreshAges DEF MarkAsked, TypeOK
  <2>6. leases' \in [Tokens -> Lease] /\ patched' \subseteq Ids
    BY <1>5, EndLeasesType DEF MarkAsked
  <2> QED
    BY <2>3, <2>4, <2>5, <2>6 DEF TypeOK, Table
<1> QED
  BY <1>3, <1>4, <1>5

\* One row is rewritten, and claims may end.
LEMMA RewriteType ==
  ASSUME TypeOK, NEW i \in Present, NEW row,
         rows[i] \in Row => row \in Row,
         rows' = [rows EXCEPT ![i] = row]
  PROVE  rows' \in Table
<1>1. i \in Ids /\ rows[i] \in Row
  BY DEF Present, RowsOf, TypeOK
<1> QED
  BY <1>1 DEF TypeOK, Table

LEMMA RemoveType ==
  ASSUME TypeOK, NEW S, Remove(S)
  PROVE  TypeOK'
<1>1. rows' \in Table
  BY DEF Remove, TypeOK, Table
<1>2. leases' \in [Tokens -> Lease] /\ patched' \subseteq Ids
  BY EndLeasesType DEF Remove
<1> QED
  BY <1>1, <1>2 DEF Remove, TypeOK, Table

LEMMA UserType == TypeOK /\ User => TypeOK'
<1> SUFFICES ASSUME TypeOK, User PROVE TypeOK'
  OBVIOUS
<1>1. ASSUME NEW i \in Ids, NEW st \in PatchStatusInputs, NEW ex \in ExpiryInputs,
             PatchQuestion(i, st, ex)
      PROVE  TypeOK'
  <2>1. st \in Status \cup {NULL} /\ ex \in Left(ExpiryMax) \cup {NULL}
    BY InputsAssumption
  <2>2. i \in Present /\ rows' = [rows EXCEPT ![i] = Patched(rows[i], st, ex)]
    BY <1>1 DEF PatchQuestion
  <2>3. rows' \in Table
    BY <2>1, <2>2, PatchedType, RewriteType
  <2>4. patched' \subseteq Ids
    BY <1>1 DEF PatchQuestion, TypeOK
  <2> QED
    BY <1>1, <2>3, <2>4 DEF PatchQuestion, TypeOK, Table
<1>2. ASSUME NEW i \in Ids, NEW st \in {"resolved", "answered_partial"},
             NEW ago \in BackdateInputs, AnswerQuestion(i, st, ago)
      PROVE  TypeOK'
  <2>1. st \in Status /\ ago \in Nat
    BY InputsAssumption, StatusNames
  <2>2. i \in Present /\ rows' = [rows EXCEPT ![i] = Answered(rows[i], st, ago)]
    BY <1>2 DEF AnswerQuestion
  <2>3. rows' \in Table
    BY <2>1, <2>2, AnsweredType, RewriteType
  <2>4. leases' \in [Tokens -> Lease] /\ patched' \subseteq Ids
    BY <1>2, EndLeasesType DEF AnswerQuestion
  <2>5. attempts' \in [Ids -> [sent : Nat, open : Nat]]
    <3> DEFINE left == IF attempts[i].open > 0 THEN attempts[i].open - 1 ELSE 0
    <3>1. left \in Nat
      BY DEF TypeOK
    <3>2. attempts' = [attempts EXCEPT ![i].open = left]
      BY <1>2 DEF AnswerQuestion
    <3> HIDE DEF left
    <3> QED
      BY <3>1, <3>2 DEF TypeOK
  <2> QED
    BY <1>2, <2>3, <2>4, <2>5 DEF AnswerQuestion, TypeOK, Table
<1>3. ASSUME NEW i \in Ids,
             NEW st \in {"resolved", "expired", "dismissed", "answered_partial"},
             ResolveQuestion(i, st)
      PROVE  TypeOK'
  <2>1. st \in Status
    BY StatusNames
  <2>2. i \in Present /\ rows' = [rows EXCEPT ![i] = Resolved(rows[i], st)]
    BY <1>3 DEF ResolveQuestion
  <2>3. rows' \in Table
    BY <2>1, <2>2, ResolvedType, RewriteType
  <2>4. leases' \in [Tokens -> Lease] /\ patched' \subseteq Ids
    BY <1>3, EndLeasesType DEF ResolveQuestion
  <2> QED
    BY <1>3, <2>3, <2>4 DEF ResolveQuestion, TypeOK, Table
<1>4. ASSUME NEW i \in Ids, DeleteQuestion(i)
      PROVE  TypeOK'
  BY <1>4, RemoveType DEF DeleteQuestion
<1>5. ASSUME NEW S \in SUBSET Ids, PurgeQuestions(S)
      PROVE  TypeOK'
  BY <1>5, RemoveType DEF PurgeQuestions
<1>6. CASE ListQuestions
  <2>1. rows' \in Table
    BY <1>6, SweptTypes DEF ListQuestions, TypeOK, Table
  <2> QED
    BY <1>6, <2>1, EndLeasesType DEF ListQuestions, TypeOK, Table
<1> QED
  BY <1>1, <1>2, <1>3, <1>4, <1>5, <1>6 DEF User

LEMMA JobsType == TypeOK /\ Jobs => TypeOK'
<1> SUFFICES ASSUME TypeOK, Jobs PROVE TypeOK'
  OBVIOUS
<1>1. CASE ExpireJob
  <2>1. rows' \in Table
    BY <1>1, SweptTypes DEF ExpireJob, TypeOK, Table
  <2> QED
    BY <1>1, <2>1, EndLeasesType DEF ExpireJob, TypeOK, Table
<1>2. CASE CleanupJob
  <2>1. rows' \in Table
    BY <1>2, SweptTypes DEF CleanupJob, TypeOK, Table
  <2> QED
    BY <1>2, <2>1, EndLeasesType DEF CleanupJob, TypeOK, Table
<1> QED
  BY <1>1, <1>2 DEF Jobs

LEMMA TickType == TypeOK /\ Tick => TypeOK'
<1> SUFFICES ASSUME TypeOK, Tick PROVE TypeOK'
  OBVIOUS
<1>1. rows' \in Table
  BY SweptTypes DEF Tick, TypeOK, Table
<1>2. lastSent' \in [Channels -> Age(Cooldown) \cup {NULL}]
  BY CountUpAge, ThresholdsNat DEF Tick, TypeOK
<1>3. leases' \in [Tokens -> Lease]
  <2>1. NoLease \in Lease
    BY ThresholdsNat DEF NoLease, Lease, Left, Lapsed
  <2>2. ASSUME NEW t \in Tokens PROVE leases'[t] \in Lease
    <3>1. leases[t] \in Lease
      BY DEF TypeOK
    <3>2. CASE leases[t].left <= 0
      BY <2>1, <3>2 DEF Tick
    <3>3. CASE ~ (leases[t].left <= 0)
      <4>1. leases[t].left - 1 \in Left(LeaseMax)
        BY <3>1, <3>3, ThresholdsNat DEF Lease, Left, Lapsed
      <4>2. leases'[t] = [leases[t] EXCEPT !.left = leases[t].left - 1]
        BY <3>3 DEF Tick
      <4> QED
        BY <3>1, <4>1, <4>2 DEF Lease
    <3> QED
      BY <3>2, <3>3
  <2> QED
    BY <2>2 DEF Tick
<1> QED
  BY <1>1, <1>2, <1>3 DEF Tick, TypeOK, Table

\* Every row, counter, deadline and promise stays what it is declared to be,
\* through every operation, job and passing of time.
THEOREM TypeCorrect == Spec => []TypeOK
<1>1. TypeOK /\ [Next]_vars => TypeOK'
  <2> SUFFICES ASSUME TypeOK, [Next]_vars PROVE TypeOK'
    OBVIOUS
  <2>1. CASE Next
    BY <2>1, ProducerType, AgentType, UserType, JobsType, TickType DEF Next
  <2>2. CASE UNCHANGED vars
    BY <2>2 DEF vars, TypeOK
  <2> QED
    BY <2>1, <2>2
<1> QED
  BY <1>1, InitType, PTL DEF Spec

---------------------------------------------------------------------------
(* Exclusion of claims.  The inductive invariant is LeaseHonoured: what a  *)
(* claim was promised is what the row says.  A row has one token, so two   *)
(* promises on one row are one promise.                                    *)

Held(r) == r.token # NULL /\ r.lease # NULL /\ r.lease # Lapsed
SameClaim(r, s) == s.token = r.token /\ s.lease = r.lease

\* No sweep touches a claim whose lease runs, but for the expiry of the
\* question itself.
LEMMA SweepsKeepClaims ==
  ASSUME NEW r \in Row, Held(r)
  PROVE  /\ ~ (Active(r) /\ PastExpiry(r)) =>
              /\ SameClaim(r, ClaimSweep(r))
              /\ SameClaim(r, ExpireSweep(r))
              /\ SameClaim(r, ExpireJobSweep(r))
              /\ SameClaim(r, CleanupJobSweep(r))
         /\ OldPending(r) => SameClaim(r, CleanupJobSweep(r))
<1>1. ReleaseSweep(r) = r
  BY DEF ReleaseSweep, LeaseLapsed, Held
<1>2. ASSUME ~ (Active(r) /\ PastExpiry(r))
      PROVE  ExpireSweep(r) = r
  BY <1>2 DEF ExpireSweep
<1>3. ASSUME OldPending(r)
      PROVE  SameClaim(r, CleanupJobSweep(r))
  <2> DEFINE s == CleanedUp(r)
  <2>1. /\ s.status = "dismissed" /\ SameClaim(r, s)
    BY DEF CleanedUp, SameClaim, Row
  <2>2. CleanupSweep(r) = s
    BY <1>3 DEF CleanupSweep
  <2> HIDE DEF s
  <2>3. ReleaseSweep(s) = s
    BY <2>1 DEF ReleaseSweep, LeaseLapsed, Held, SameClaim
  <2>4. ExpireSweep(s) = s
    BY <2>1 DEF ExpireSweep, Active, ActiveStatus
  <2>5. RequeueSweep(s) = s
    BY <2>1 DEF RequeueSweep, OldAsked
  <2> QED
    BY <2>1, <2>2, <2>3, <2>4, <2>5 DEF CleanupJobSweep
<1>4. ASSUME ~ (Active(r) /\ PastExpiry(r)), ~ OldPending(r)
      PROVE  SameClaim(r, CleanupJobSweep(r))
  <2>1. CleanupSweep(r) = r
    BY <1>4 DEF CleanupSweep
  <2>2. CleanupJobSweep(r) = RequeueSweep(r)
    BY <1>1, <1>2, <1>4, <2>1 DEF CleanupJobSweep
  <2>3. SameClaim(r, RequeueSweep(r))
    BY DEF RequeueSweep, Requeued, SameClaim, Row
  <2> QED
    BY <2>2, <2>3
<1>5. SameClaim(r, r)
  BY DEF SameClaim
<1> QED
  BY <1>1, <1>2, <1>3, <1>4, <1>5 DEF ClaimSweep, ExpireJobSweep

\* A promised row is there, and its lease is running.
LEMMA PromisedRow ==
  ASSUME TypeOK, LeaseHonoured, NEW t \in Tokens, NEW i \in leases[t].ids
  PROVE  /\ i \in Ids /\ i \in Present
         /\ rows[i] \in Row /\ Held(rows[i])
         /\ rows[i].token = t /\ rows[i].lease = leases[t].left
         /\ leases[t].left >= 0
<1>1. leases[t] \in Lease
  BY DEF TypeOK
<1>2. i \in Ids /\ leases[t].left \in Left(LeaseMax)
  BY <1>1 DEF Lease
<1>3. /\ leases[t].left >= 0 /\ rows[i] # NULL
      /\ rows[i].token = t /\ rows[i].lease = leases[t].left
  BY DEF LeaseHonoured
<1>4. rows[i] \in Row
  BY <1>2, <1>3 DEF TypeOK
<1>5. leases[t].left # NULL /\ leases[t].left # Lapsed /\ t # NULL
  BY <1>2, <1>3, ConstantsAssumption, ThresholdsNat DEF Left, Lapsed
<1> QED
  BY <1>2, <1>3, <1>4, <1>5 DEF Held, Present, RowsOf

\* A step that ends the claims on S, and leaves the claims of the other
\* promised rows as they are, keeps the invariant.
LEMMA Frame ==
  ASSUME TypeOK, LeaseHonoured, NEW S, leases' = Without(S),
         \A i \in Present \ S : rows[i] \in Row /\ Held(rows[i]) =>
            rows'[i] # NULL /\ SameClaim(rows[i], rows'[i])
  PROVE  LeaseHonoured'
<1> SUFFICES ASSUME NEW t \in Tokens, NEW i \in leases'[t].ids
             PROVE  /\ leases'[t].left >= 0
                    /\ rows'[i] # NULL /\ rows'[i].token = t
                    /\ rows'[i].lease = leases'[t].left
  BY DEF LeaseHonoured
<1>1. /\ i \in leases[t].ids \ S
      /\ leases'[t].left = leases[t].left
  BY WithoutType
<1> QED
  BY <1>1, PromisedRow DEF SameClaim

LEMMA SweptAt ==
  ASSUME NEW i \in Ids, rows[i] \in Row
  PROVE  /\ Swept(ClaimSweep, rows)[i] = ClaimSweep(rows[i])
         /\ Swept(ExpireJobSweep, rows)[i] = ExpireJobSweep(rows[i])
         /\ Swept(CleanupJobSweep, rows)[i] = CleanupJobSweep(rows[i])
         /\ Swept(ExpireSweep, rows)[i] = ExpireSweep(rows[i])
         /\ Swept(Aged, rows)[i] = Aged(rows[i])
  BY RowAssumption DEF Swept

\* What is not overdue keeps its running claim in every sweep; what is old
\* enough to be dismissed keeps it in the cleanup.
LEMMA SweptKeeps ==
  ASSUME NEW i \in Present, rows[i] \in Row, Held(rows[i])
  PROVE  /\ i \notin Expiring =>
              /\ Swept(ClaimSweep, rows)[i] # NULL
              /\ SameClaim(rows[i], Swept(ClaimSweep, rows)[i])
              /\ Swept(ExpireJobSweep, rows)[i] # NULL
              /\ SameClaim(rows[i], Swept(ExpireJobSweep, rows)[i])
              /\ Swept(ExpireSweep, rows)[i] # NULL
              /\ SameClaim(rows[i], Swept(ExpireSweep, rows)[i])
         /\ i \notin {j \in Expiring : ~ OldPending(rows[j])} =>
              /\ Swept(CleanupJobSweep, rows)[i] # NULL
              /\ SameClaim(rows[i], Swept(CleanupJobSweep, rows)[i])
<1>1. i \in Ids
  BY DEF Present, RowsOf
<1>2. /\ ClaimSweep(rows[i]) # NULL /\ ExpireJobSweep(rows[i]) # NULL
      /\ CleanupJobSweep(rows[i]) # NULL /\ ExpireSweep(rows[i]) # NULL
  BY SweepTypes, RowAssumption
<1>3. i \in Expiring <=> (Active(rows[i]) /\ PastExpiry(rows[i]))
  BY DEF Expiring, Overdue, Present
<1> QED
  BY <1>1, <1>2, <1>3, SweptAt, SweepsKeepClaims

LEMMA InitHonoured == Init => LeaseHonoured
  BY DEF Init, LeaseHonoured, NoLease

\* Row i is written and keeps its claim, its rivals lose theirs.
LEMMA UpsertHonoured ==
  ASSUME TypeOK, LeaseHonoured, NEW i \in Ids, NEW row \in Row, NEW k, NEW tp,
         Upsert(i, row, k, tp),
         i \in Present => SameClaim(rows[i], row)
  PROVE  LeaseHonoured'
<1> DEFINE S == Rivals(rows, i, k, tp)
<1>1. leases' = Without(S)
  BY DEF Upsert, EndLeases
<1>2. ASSUME NEW j \in Present \ S, rows[j] \in Row
      PROVE  rows'[j] # NULL /\ SameClaim(rows[j], rows'[j])
  <2>1. j \in Ids
    BY DEF Present, RowsOf
  <2>2. rows'[j] = IF j = i THEN row ELSE rows[j]
    BY <2>1 DEF Upsert, Upserted
  <2>3. rows'[j] \in Row
    BY <1>2, <2>2
  <2> QED
    BY <2>2, <2>3, RowAssumption DEF SameClaim
<1> HIDE DEF S
<1> QED
  BY <1>1, <1>2, Frame

LEMMA ProducerHonoured == TypeOK /\ LeaseHonoured /\ Producer => LeaseHonoured'
<1> SUFFICES ASSUME TypeOK, LeaseHonoured,
                    NEW k \in Keys, NEW tp \in TopicInputs, NEW rk \in Ranks,
                    NEW ex \in ExpiryInputs, NEW auto \in BOOLEAN,
                    \/ CreateQuestion(k, tp, rk, ex, auto)
                    \/ UpdateByKey(k, tp, rk, ex, auto)
             PROVE  LeaseHonoured'
  BY DEF Producer
<1>1. tp \in Topics \cup {NULL} /\ ex \in Left(ExpiryMax) \cup {NULL}
  BY InputsAssumption
<1>2. CASE CreateQuestion(k, tp, rk, ex, auto)
  BY <1>1, <1>2, NewRowType, UpsertHonoured DEF CreateQuestion
<1>3. CASE UpdateByKey(k, tp, rk, ex, auto)
  <2>1. PICK i \in Present : Upsert(i, Refreshed(rows[i], tp, rk, ex), k, tp)
    BY <1>3 DEF UpdateByKey
  <2>2. i \in Ids /\ rows[i] \in Row
    BY <2>1 DEF Present, RowsOf, TypeOK
  <2>3. SameClaim(rows[i], Refreshed(rows[i], tp, rk, ex))
    BY <2>2 DEF SameClaim, Refreshed, Row
  <2> QED
    BY <1>1, <2>1, <2>2, <2>3, RefreshedType, UpsertHonoured
<1> QED
  BY <1>2, <1>3

\* A row is rewritten and its claim ended.
LEMMA EndHonoured ==
  ASSUME TypeOK, LeaseHonoured, NEW i \in Present, NEW row, NEW newRows,
         rows' = [rows EXCEPT ![i] = row], EndLeases({i}, newRows)
  PROVE  LeaseHonoured'
<1>1. ASSUME NEW j \in Present \ {i}
      PROVE  rows'[j] # NULL /\ SameClaim(rows[j], rows'[j])
  BY <1>1 DEF Present, RowsOf, TypeOK, SameClaim
<1> QED
  BY <1>1, Frame DEF EndLeases

LEMMA ClaimHonoured ==
  ASSUME TypeOK, LeaseHonoured, NEW c \in Channels, NEW l \in LeaseInputs,
         NEW gate \in Gates, NEW merge \in BOOLEAN, ClaimNext(c, l, gate, merge)
  PROVE  LeaseHonoured'
<1> DEFINE swept == Swept(ClaimSweep, rows)
<1>1. rows \in Table
  BY DEF TypeOK, Table
<1>2. swept \in Table /\ RowsOf(swept) = Present
  BY <1>1, SweptTypes, SweptRows DEF Present
<1>3. \A i \in Present \ Expiring :
        rows[i] \in Row /\ Held(rows[i]) =>
          swept[i] # NULL /\ SameClaim(rows[i], swept[i])
  BY SweptKeeps
<1>4. PICK t \in Tokens, first \in Present, chosen \in SUBSET Present :
        /\ leases[t] = NoLease
        /\ Batch(swept, first, chosen, merge)
        /\ rows' = Handed(swept, chosen, t, c, l)
        /\ leases' = [Without(Expiring) EXCEPT ![t] = [ids |-> chosen, left |-> l]]
  BY DEF ClaimNext
<1> HIDE DEF swept
<1>5. l \in Nat /\ l \in Left(LeaseMax)
  BY InputsAssumption, ThresholdsNat DEF Left, Lapsed
<1>6. \A i \in chosen : Candidate(swept[i])
  BY <1>4 DEF Batch
<1> SUFFICES ASSUME NEW u \in Tokens, NEW i \in leases'[u].ids
             PROVE  /\ leases'[u].left >= 0
                    /\ rows'[i] # NULL /\ rows'[i].token = u
                    /\ rows'[i].lease = leases'[u].left
  BY DEF LeaseHonoured
<1>7. CASE u = t
  <2>1. leases'[u] = [ids |-> chosen, left |-> l]
    BY <1>4, <1>7, WithoutType
  <2>2. i \in chosen /\ i \in Ids /\ swept[i] \in Row
    BY <1>2, <1>4, <2>1 DEF Present, RowsOf, Table
  <2>3. rows'[i] = Claimed(swept[i], t, c, l)
    BY <1>4, <2>2 DEF Handed
  <2>4. rows'[i] \in Row /\ rows'[i].token = t /\ rows'[i].lease = l
    <3>1. Claimed(swept[i], t, c, l) \in Row
      BY <1>5, <2>2, ClaimedType
    <3>2. /\ Claimed(swept[i], t, c, l).token = t
          /\ Claimed(swept[i], t, c, l).lease = l
      BY <2>2 DEF Claimed, Row
    <3> QED
      BY <2>3, <3>1, <3>2
  <2> QED
    BY <1>5, <1>7, <2>1, <2>4, RowAssumption
<1>8. CASE u # t
  <2>1. /\ i \in leases[u].ids \ Expiring
        /\ leases'[u].left = leases[u].left
    BY <1>4, <1>8, WithoutType
  <2>2. /\ i \in Ids /\ i \in Present
        /\ rows[i] \in Row /\ Held(rows[i])
        /\ rows[i].token = u /\ rows[i].lease = leases[u].left
        /\ leases[u].left >= 0
    BY <2>1, PromisedRow
  <2>3. swept[i] # NULL /\ SameClaim(rows[i], swept[i])
    BY <1>3, <2>1, <2>2
  <2>4. i \notin chosen
    BY <1>6, <2>2, <2>3 DEF Candidate, SameClaim, Held
  <2>5. rows'[i] = swept[i]
    BY <1>4, <2>2, <2>4 DEF Handed
  <2> QED
    BY <2>1, <2>2, <2>3, <2>5 DEF SameClaim
<1> QED
  BY <1>7, <1>8

\* A sweep that ends the claims of the questions it expires.
LEMMA SweepHonoured ==
  ASSUME TypeOK, LeaseHonoured
  PROVE  /\ (\E c \in Channels, gate \in Gates : ClaimNothing(c, gate)) => LeaseHonoured'
         /\ ListQuestions => LeaseHonoured'
         /\ ExpireJob => LeaseHonoured'
         /\ CleanupJob => LeaseHonoured'
  BY SweptKeeps, Frame DEF ClaimNothing, ListQuestions, ExpireJob, CleanupJob, EndLeases

LEMMA AgentHonoured == TypeOK /\ LeaseHonoured /\ Agent => LeaseHonoured'
<1> SUFFICES ASSUME TypeOK, LeaseHonoured, NEW c \in Channels,
                    \/ \E l \in LeaseInputs, gate \in Gates, merge \in BOOLEAN :
                         ClaimNext(c, l, gate, merge)
                    \/ \E gate \in Gates : ClaimNothing(c, gate)
                    \/ \E i \in Ids, t \in Tokens \cup {NULL} : MarkAsked(i, c, t)
             PROVE  LeaseHonoured'
  BY DEF Agent
<1>1. ASSUME NEW i \in Ids, NEW t \in Tokens \cup {NULL}, MarkAsked(i, c, t)
      PROVE  LeaseHonoured'
  BY <1>1, EndHonoured DEF MarkAsked
<1> QED
  BY <1>1, ClaimHonoured, SweepHonoured

LEMMA RemoveHonoured ==
  ASSUME TypeOK, LeaseHonoured, NEW S, Remove(S)
  PROVE  LeaseHonoured'
<1>1. leases' = Without(S)
  BY DEF Remove, EndLeases
<1>2. ASSUME NEW j \in Present \ S
      PROVE  rows'[j] # NULL /\ SameClaim(rows[j], rows'[j])
  BY <1>2 DEF Remove, Present, RowsOf, SameClaim
<1> QED
  BY <1>1, <1>2, Frame

LEMMA UserHonoured == TypeOK /\ LeaseHonoured /\ User => LeaseHonoured'
<1> SUFFICES ASSUME TypeOK, LeaseHonoured, User PROVE LeaseHonoured'
  OBVIOUS
<1>1. ASSUME NEW i \in Ids, NEW st \in PatchStatusInputs, NEW ex \in ExpiryInputs,
             PatchQuestion(i, st, ex)
      PROVE  LeaseHonoured'
  <2>1. i \in Present /\ rows' = [rows EXCEPT ![i] = Patched(rows[i], st, ex)]
    BY <1>1 DEF PatchQuestion
  <2>2. rows[i] \in Row
    BY <2>1 DEF Present, RowsOf, TypeOK
  <2>3. /\ SameClaim(rows[i], Patched(rows[i], st, ex))
        /\ Patched(rows[i], st, ex) # NULL
    <3>1. Patched(rows[i], st, ex) \in Row
      BY <2>2, PatchedType, InputsAssumption
    <3>2. SameClaim(rows[i], Patched(rows[i], st, ex))
      BY <2>2 DEF Patched, SameClaim, Row
    <3> QED
      BY <3>1, <3>2, RowAssumption
  <2>4. \A j \in Present : rows'[j] # NULL /\ SameClaim(rows[j], rows'[j])
    BY <2>1, <2>3 DEF Present, RowsOf, TypeOK, SameClaim
  <2>5. leases' = leases
    BY <1>1 DEF PatchQuestion
  <2> SUFFICES ASSUME NEW t \in Tokens, NEW j \in leases[t].ids
               PROVE  /\ leases[t].left >= 0
                      /\ rows'[j] # NULL /\ rows'[j].token = t
                      /\ rows'[j].lease = leases[t].left
    BY <2>5 DEF LeaseHonoured
  <2> QED
    BY <2>4, PromisedRow DEF SameClaim
<1>2. ASSUME NEW i \in Ids, NEW st \in {"resolved", "answered_partial"},
             NEW ago \in BackdateInputs, AnswerQuestion(i, st, ago)
      PROVE  LeaseHonoured'
  BY <1>2, EndHonoured DEF AnswerQuestion
<1>3. ASSUME NEW i \in Ids,
             NEW st \in {"resolved", "expired", "dismissed", "answered_partial"},
             ResolveQuestion(i, st)
      PROVE  LeaseHonoured'
  BY <1>3, EndHonoured DEF ResolveQuestion
<1> QED
  BY <1>1, <1>2, <1>3, RemoveHonoured, SweepHonoured
  DEF User, DeleteQuestion, PurgeQuestions

LEMMA TickHonoured == TypeOK /\ LeaseHonoured /\ Tick => LeaseHonoured'
<1> SUFFICES ASSUME TypeOK, LeaseHonoured, Tick,
                    NEW t \in Tokens, NEW i \in leases'[t].ids
             PROVE  /\ leases'[t].left >= 0
                    /\ rows'[i] # NULL /\ rows'[i].token = t
                    /\ rows'[i].lease = leases'[t].left
  BY DEF LeaseHonoured
<1>1. leases[t] \in Lease
  BY DEF TypeOK
<1>2. leases[t].left \in Int
  BY <1>1, ThresholdsNat DEF Lease, Left, Lapsed
<1>3. ~ (leases[t].left <= 0)
  BY DEF Tick, NoLease
<1>4. leases'[t] = [leases[t] EXCEPT !.left = leases[t].left - 1]
  BY <1>3 DEF Tick
<1>5. leases'[t].ids = leases[t].ids /\ leases'[t].left = leases[t].left - 1
  BY <1>1, <1>4 DEF Lease
<1>6. /\ i \in Ids /\ rows[i] \in Row /\ Held(rows[i])
      /\ rows[i].token = t /\ rows[i].lease = leases[t].left
  BY <1>5, PromisedRow
<1>7. rows'[i] = Aged(rows[i])
  BY <1>6, SweptAt DEF Tick
<1>8. Aged(rows[i]) # NULL
  BY <1>6, AgedType, RowAssumption
<1>9. Aged(rows[i]).token = t /\ Aged(rows[i]).lease = CountDown(leases[t].left)
  BY <1>6 DEF Aged, Row
<1>10. CountDown(leases[t].left) = leases[t].left - 1
  BY <1>6 DEF CountDown, Held
<1> QED
  BY <1>2, <1>3, <1>5, <1>7, <1>8, <1>9, <1>10

\* A promise a claim was answered with is kept by every operation, job and
\* passing of time, until the operation that ends the claim or the lease.
THEOREM LeasesAreHonoured == Spec => []LeaseHonoured
<1>1. TypeOK /\ LeaseHonoured /\ [Next]_vars => LeaseHonoured'
  <2> SUFFICES ASSUME TypeOK, LeaseHonoured, [Next]_vars PROVE LeaseHonoured'
    OBVIOUS
  <2>1. CASE Next
    BY <2>1, ProducerHonoured, AgentHonoured, UserHonoured, SweepHonoured,
       TickHonoured DEF Next, Jobs
  <2>2. CASE UNCHANGED vars
    BY <2>2 DEF vars, LeaseHonoured
  <2> QED
    BY <2>1, <2>2
<1> QED
  BY <1>1, InitHonoured, TypeCorrect, PTL DEF Spec

\* No two running leases cover one question, for any number of questions,
\* agents, tokens and channels.
THEOREM ClaimsExclude == Spec => []LeaseMutex
<1>1. TypeOK /\ LeaseHonoured => LeaseMutex
  BY PromisedRow DEF LeaseMutex
<1> QED
  BY <1>1, TypeCorrect, LeasesAreHonoured, PTL

---------------------------------------------------------------------------
(* What a claim may cover.  ClaimedIsClaimable is not inductive: the       *)
(* backlog cleanup dismisses a question without touching its claim, and    *)
(* only the release sweep that follows takes the claim away, if the lease  *)
(* is over by then.  Deadline says that it is: since a claim sets          *)
(* updated_at, the time left of a running lease and the time since the     *)
(* last write never exceed the longest lease together, which is shorter    *)
(* than the cleanup waits.                                                 *)

\* A claim has a deadline, within reach of the last write.
Deadline(r) ==
  /\ r.lease # NULL
  /\ r.lease # Lapsed => r.lease + r.updated <= LeaseMax

\* What holds of a row with a claim, unless a PATCH overwrote its status.
ClaimOK(r, excused) ==
  r.token # NULL =>
    /\ r.status \in ClaimableStatus \/ excused
    /\ Deadline(r)

\* The row s is what a write that hands out no claim makes of the row r.
Follows(r, s) ==
  /\ s.asked = r.asked
  /\ s.token = NULL \/ s.token = r.token
  /\ s.token # NULL /\ Deadline(r) =>
       Deadline(s) /\ (r.status \in ClaimableStatus => s.status \in ClaimableStatus)

LEMMA FollowsChain ==
  ASSUME NEW r, NEW s, NEW u, Follows(r, s), Follows(s, u)
  PROVE  Follows(r, u)
  BY DEF Follows

LEMMA FollowsSelf == ASSUME NEW r PROVE Follows(r, r)
  BY DEF Follows

\* The numbers a deadline is about.
LEMMA DeadlineRange ==
  ASSUME NEW r \in Row
  PROVE  /\ r.updated \in Nat
         /\ r.lease # NULL => r.lease \in Int /\ r.lease <= LeaseMax
  BY ThresholdsNat DEF Row, Age, Left, Lapsed

\* What a write to the claimed row keeps when it sets updated_at.
LEMMA FreshDeadline ==
  ASSUME NEW r \in Row, NEW s, s.lease = r.lease, s.updated = 0, Deadline(r)
  PROVE  Deadline(s)
  BY DeadlineRange, ThresholdsNat DEF Deadline

LEMMA UnclaimedFollows ==
  ASSUME NEW r \in Row
  PROVE  /\ Follows(r, Released(r))
         /\ Follows(r, Expired(r))
         /\ Follows(r, Superseded(r))
  BY DEF Follows, Released, Expired, Superseded, Unclaimed, Row

LEMMA RefreshedFollows ==
  ASSUME NEW r \in Row, NEW tp, NEW rk, NEW ex
  PROVE  Follows(r, Refreshed(r, tp, rk, ex))
<1> DEFINE s == Refreshed(r, tp, rk, ex)
<1>1. /\ s.asked = r.asked /\ s.token = r.token
      /\ s.lease = r.lease /\ s.updated = 0
  BY DEF Refreshed, Row
<1>2. s.status = r.status \/ s.status \in ClaimableStatus
  BY DEF Refreshed, Row, ClaimableStatus
<1> HIDE DEF s
<1>3. Follows(r, s)
  BY <1>1, <1>2, FreshDeadline DEF Follows
<1> QED
  BY <1>3 DEF s

LEMMA RequeuedFollows ==
  ASSUME NEW r \in Row
  PROVE  Follows(r, Requeued(r))
<1> DEFINE s == Requeued(r)
<1>1. /\ s.asked = r.asked /\ s.token = r.token
      /\ s.lease = r.lease /\ s.updated = 0 /\ s.status = "pending"
  BY DEF Requeued, Row
<1> HIDE DEF s
<1>2. Follows(r, s)
  BY <1>1, FreshDeadline DEF Follows, ClaimableStatus
<1> QED
  BY <1>2 DEF s

\* PATCH overwrites the status, and is excused for it.
LEMMA PatchedClaim ==
  ASSUME NEW r \in Row, NEW st, NEW ex
  PROVE  /\ Deadline(r) => Deadline(Patched(r, st, ex))
         /\ st = NULL => Patched(r, st, ex).status = r.status
         /\ Patched(r, st, ex).token = r.token
         /\ Patched(r, st, ex).asked = r.asked
<1> DEFINE s == Patched(r, st, ex)
<1>1. /\ s.asked = r.asked /\ s.token = r.token
      /\ s.lease = r.lease /\ s.updated = 0
      /\ s.status = IF st = NULL THEN r.status ELSE st
  BY DEF Patched, Row
<1> HIDE DEF s
<1>2. Deadline(r) => Deadline(s)
  BY <1>1, FreshDeadline
<1> QED
  BY <1>1, <1>2 DEF s

LEMMA SweepsFollow ==
  ASSUME NEW r \in Row
  PROVE  /\ Follows(r, ReleaseSweep(r))
         /\ Follows(r, ExpireSweep(r))
         /\ Follows(r, RequeueSweep(r))
  BY UnclaimedFollows, RequeuedFollows, FollowsSelf
  DEF ReleaseSweep, ExpireSweep, RequeueSweep

LEMMA OneSweepTypes ==
  ASSUME NEW r \in Row
  PROVE  /\ ReleaseSweep(r) \in Row /\ ExpireSweep(r) \in Row
         /\ CleanupSweep(r) \in Row /\ RequeueSweep(r) \in Row
  BY WriteTypes DEF ReleaseSweep, ExpireSweep, CleanupSweep, RequeueSweep

\* The cleanup dismisses a question only when a claim on it is over, and
\* releases it at once.
LEMMA CleanupReleases ==
  ASSUME NEW r \in Row
  PROVE  Follows(r, ReleaseSweep(CleanupSweep(r)))
<1>1. CASE ~ OldPending(r)
  BY <1>1, SweepsFollow DEF CleanupSweep
<1>2. CASE OldPending(r)
  <2> DEFINE s == CleanedUp(r)
  <2>1. s \in Row /\ CleanupSweep(r) = s
    BY <1>2, WriteTypes DEF CleanupSweep
  <2>2. /\ s.asked = r.asked /\ s.token = r.token /\ s.lease = r.lease
    BY DEF CleanedUp, Row
  <2> HIDE DEF s
  <2>3. r.updated \in Nat /\ r.updated > StalePending
    BY <1>2, DeadlineRange DEF OldPending
  <2>4. r.token # NULL /\ Deadline(r) => r.lease = Lapsed
    BY <2>3, DeadlineRange, LeaseAssumption, ThresholdsNat
    DEF Deadline, Row, Left, Lapsed
  <2>5. r.token # NULL /\ Deadline(r) => ReleaseSweep(s) = Released(s)
    BY <2>2, <2>4 DEF ReleaseSweep, LeaseLapsed, Deadline
  <2>6. Released(s).token = NULL /\ Released(s).asked = s.asked
    BY <2>1 DEF Released, Unclaimed, Row
  <2>7. /\ ReleaseSweep(s).asked = s.asked
        /\ ReleaseSweep(s).token = NULL \/ ReleaseSweep(s).token = s.token
    BY <2>6 DEF ReleaseSweep
  <2>8. Deadline(r) => ReleaseSweep(s).token = NULL
    BY <2>2, <2>5, <2>6, <2>7
  <2> QED
    BY <2>1, <2>2, <2>7, <2>8 DEF Follows
<1> QED
  BY <1>1, <1>2

LEMMA ComposedSweepsFollow ==
  ASSUME NEW r \in Row
  PROVE  /\ Follows(r, ClaimSweep(r))
         /\ Follows(r, ExpireJobSweep(r))
         /\ Follows(r, CleanupJobSweep(r))
<1>1. Follows(r, ClaimSweep(r))
  BY SweepsFollow, OneSweepTypes, FollowsChain DEF ClaimSweep
<1>2. Follows(r, ExpireJobSweep(r))
  BY SweepsFollow, OneSweepTypes, FollowsChain DEF ExpireJobSweep
<1>3. Follows(r, CleanupJobSweep(r))
  <2> DEFINE s == ReleaseSweep(CleanupSweep(r))
  <2>1. s \in Row /\ Follows(r, s)
    BY OneSweepTypes, CleanupReleases
  <2> HIDE DEF s
  <2>2. ExpireSweep(s) \in Row /\ Follows(r, ExpireSweep(s))
    BY <2>1, OneSweepTypes, SweepsFollow, FollowsChain
  <2>3. Follows(r, RequeueSweep(ExpireSweep(s)))
    BY <2>2, SweepsFollow, FollowsChain
  <2> QED
    BY <2>3 DEF CleanupJobSweep, s
<1> QED
  BY <1>1, <1>2, <1>3

\* As time passes a running lease gets shorter by what the row gets older.
LEMMA AgedFollows ==
  ASSUME NEW r \in Row
  PROVE  Follows(r, Aged(r))
<1> DEFINE s == Aged(r)
<1>1. /\ s.asked = r.asked /\ s.token = r.token /\ s.status = r.status
      /\ s.lease = CountDown(r.lease)
      /\ s.updated = CountUp(r.updated, StalePending)
  BY DEF Aged, Row
<1> HIDE DEF s
<1>2. ASSUME Deadline(r) PROVE Deadline(s)
  <2>1. r.lease # NULL /\ r.lease \in Int /\ r.updated \in Nat
    BY <1>2, DeadlineRange DEF Deadline
  <2>2. s.updated \in Nat /\ s.updated <= r.updated + 1
    BY <1>1, <2>1, ThresholdsNat, ConstantsAssumption DEF CountUp, Capped
  <2>3. CASE r.lease = Lapsed
    BY <1>1, <2>1, <2>3 DEF Deadline, CountDown
  <2>4. CASE r.lease # Lapsed
    <3>1. s.lease = r.lease - 1
      BY <1>1, <2>1, <2>4 DEF CountDown
    <3>2. r.lease + r.updated <= LeaseMax
      BY <1>2, <2>4 DEF Deadline
    <3>3. s.lease # NULL
      BY <2>1, <3>1, ConstantsAssumption
    <3> QED
      BY <2>1, <2>2, <3>1, <3>2, <3>3, ThresholdsNat DEF Deadline
  <2> QED
    BY <2>3, <2>4
<1>3. Follows(r, s)
  BY <1>1, <1>2 DEF Follows
<1> QED
  BY <1>3 DEF s

---------------------------------------------------------------------------
(* The table                                                               *)

TokenRows(t) == {i \in Present : rows[i].token = t}

ClaimInv == \A i \in Present : ClaimOK(rows[i], i \in patched)

LEMMA PresentRow ==
  ASSUME TypeOK, NEW i \in Present
  PROVE  i \in Ids /\ rows[i] \in Row
  BY DEF TypeOK, Present, RowsOf

LEMMA TokenRowsFinite ==
  ASSUME NEW t
  PROVE  /\ IsFiniteSet(TokenRows(t))
         /\ \A S \in SUBSET TokenRows(t) : Cardinality(S) <= Cardinality(TokenRows(t))
         /\ Cardinality(TokenRows(t)) \in Nat
<1>1. TokenRows(t) \subseteq Ids /\ IsFiniteSet(Ids)
  BY ConstantsAssumption DEF TokenRows, Present, RowsOf
<1>2. IsFiniteSet(TokenRows(t))
  BY <1>1, FS_Subset
<1> QED
  BY <1>2, FS_Subset, FS_CardinalityType

\* The step hands out no claim: each row it leaves has none, or keeps what
\* the row had.
Keeps(i) ==
  rows'[i] # NULL =>
    \/ rows'[i].token = NULL
    \/ /\ i \in Present
       /\ rows'[i].token = rows[i].token
       /\ ClaimOK(rows[i], i \in patched) => ClaimOK(rows'[i], i \in patched')

LEMMA KeepsClaims ==
  ASSUME TypeOK, TypeOK', ClaimInv, BatchBounded, \A i \in Ids : Keeps(i)
  PROVE  ClaimInv' /\ BatchBounded'
<1>1. ClaimInv'
  BY DEF ClaimInv, Keeps, ClaimOK, Present, RowsOf
<1>2. ASSUME NEW t \in Tokens
      PROVE  Cardinality(TokenRows(t)') <= MergeLimit
  <2>1. t # NULL
    BY ConstantsAssumption
  <2>2. TokenRows(t)' \subseteq TokenRows(t)
    BY <2>1 DEF Keeps, TokenRows, Present, RowsOf
  <2>3. Cardinality(TokenRows(t)) <= MergeLimit
    BY DEF BatchBounded, TokenRows
  <2>4. Cardinality(TokenRows(t)') \in Nat
    BY <2>2, TokenRowsFinite, FS_Subset, FS_CardinalityType
  <2>5. Cardinality(TokenRows(t)') <= Cardinality(TokenRows(t))
    BY <2>2, TokenRowsFinite
  <2> QED
    BY <2>3, <2>4, <2>5, TokenRowsFinite, ConstantsAssumption
<1> QED
  BY <1>1, <1>2 DEF BatchBounded, TokenRows
\* A write that follows the row it meets, with the excuses kept.
LEMMA FollowKeeps ==
  ASSUME TypeOK, NEW i \in Present, Follows(rows[i], rows'[i]),
         i \in patched /\ rows'[i].token # NULL => i \in patched'
  PROVE  Keeps(i)
<1>1. rows'[i].token = NULL \/ rows'[i].token = rows[i].token
  BY DEF Follows
<1>2. ClaimOK(rows[i], i \in patched) => ClaimOK(rows'[i], i \in patched')
  BY DEF Follows, ClaimOK
<1> QED
  BY <1>1, <1>2 DEF Keeps

LEMMA EndedExcuses ==
  ASSUME NEW S, EndLeases(S, rows'), NEW i, rows'[i] # NULL
  PROVE  i \in patched /\ rows'[i].token # NULL => i \in patched'
  BY DEF EndLeases

\* A sweep of the whole table.
LEMMA SweepKeeps ==
  ASSUME TypeOK, TypeOK', NEW S, EndLeases(S, rows'),
         \/ rows' = Swept(ClaimSweep, rows)
         \/ rows' = Swept(ExpireSweep, rows)
         \/ rows' = Swept(ExpireJobSweep, rows)
         \/ rows' = Swept(CleanupJobSweep, rows)
  PROVE  /\ \A i \in Ids : Keeps(i)
         /\ \A i \in Ids : rows'[i] # NULL =>
              i \in Present /\ rows'[i].asked = rows[i].asked
<1> SUFFICES ASSUME NEW i \in Ids, rows'[i] # NULL
             PROVE  /\ Keeps(i)
                    /\ i \in Present /\ rows'[i].asked = rows[i].asked
  BY DEF Keeps
<1>1. rows \in Table /\ Present' = Present
  BY SweptRows DEF TypeOK, Table, Present
<1>2. i \in Present
  BY <1>1 DEF Present, RowsOf
<1>3. rows[i] \in Row
  BY <1>2, PresentRow
<1>4. Follows(rows[i], rows'[i])
  BY <1>2, <1>3, SweptAt, SweepsFollow, ComposedSweepsFollow
<1> QED
  BY <1>2, <1>4, FollowKeeps, EndedExcuses DEF Follows

LEMMA UpsertKeeps ==
  ASSUME TypeOK, TypeOK', NEW i \in Ids, NEW row, NEW k, NEW tp,
         Upsert(i, row, k, tp),
         \/ i \notin Present /\ row.token = NULL
         \/ i \in Present /\ Follows(rows[i], row)
  PROVE  /\ \A j \in Ids : Keeps(j)
         /\ \A j \in Ids \ {i} : rows'[j] # NULL =>
              j \in Present /\ rows'[j].asked = rows[j].asked
         /\ rows'[i] = row
<1>1. rows' = Upserted(rows, i, row, k, tp) /\ EndLeases(Rivals(rows, i, k, tp), rows')
  BY DEF Upsert
<1>2. rows'[i] = row
  BY <1>1 DEF Upserted
<1>3. Keeps(i)
  BY <1>1, <1>2, FollowKeeps, EndedExcuses DEF Keeps
<1>4. ASSUME NEW j \in Ids \ {i}, rows'[j] # NULL
      PROVE  Keeps(j) /\ j \in Present /\ rows'[j].asked = rows[j].asked
  <2>1. CASE j \in Rivals(rows, i, k, tp)
    <3>1. j \in Present /\ rows[j] \in Row
      BY <2>1, PresentRow DEF Rivals, Present, RowsOf
    <3>2. Follows(rows[j], rows'[j])
      BY <1>1, <2>1, <3>1, UnclaimedFollows DEF Upserted
    <3> QED
      BY <1>1, <1>4, <3>1, <3>2, FollowKeeps, EndedExcuses DEF Follows
  <2>2. CASE j \notin Rivals(rows, i, k, tp)
    <3>1. rows'[j] = rows[j]
      BY <1>1, <2>2 DEF Upserted
    <3>2. j \in Present
      BY <1>4, <3>1 DEF Present, RowsOf
    <3> QED
      BY <1>1, <1>4, <3>1, <3>2, FollowsSelf, FollowKeeps, EndedExcuses DEF Follows
  <2> QED
    BY <2>1, <2>2
<1> QED
  BY <1>2, <1>3, <1>4 DEF Keeps

\* One row is rewritten without a claim.
LEMMA EndKeeps ==
  ASSUME TypeOK, TypeOK', NEW i \in Present, NEW row, row.token = NULL,
         rows' = [rows EXCEPT ![i] = row], EndLeases({i}, rows')
  PROVE  \A j \in Ids : Keeps(j)
<1> SUFFICES ASSUME NEW j \in Ids, rows'[j] # NULL PROVE Keeps(j)
  BY DEF Keeps
<1>1. CASE j = i
  BY <1>1 DEF Keeps, TypeOK
<1>2. CASE j # i
  <2>1. rows'[j] = rows[j] /\ j \in Present
    BY <1>2 DEF TypeOK, Present, RowsOf
  <2> QED
    BY <2>1, FollowsSelf, FollowKeeps, EndedExcuses
<1> QED
  BY <1>1, <1>2

LEMMA RemoveKeeps ==
  ASSUME TypeOK, TypeOK', NEW S, Remove(S)
  PROVE  /\ \A j \in Ids : Keeps(j)
         /\ \A j \in Ids : rows'[j] # NULL => j \in Present /\ rows'[j] = rows[j]
<1>1. EndLeases(S, rows')
  BY DEF Remove
<1> SUFFICES ASSUME NEW j \in Ids, rows'[j] # NULL
             PROVE  Keeps(j) /\ j \in Present /\ rows'[j] = rows[j]
  BY DEF Keeps
<1>2. rows'[j] = rows[j] /\ j \in Present
  BY DEF Remove, Present, RowsOf
<1> QED
  BY <1>1, <1>2, FollowsSelf, FollowKeeps, EndedExcuses

---------------------------------------------------------------------------
(* Each action                                                             *)

ClaimsInv == ClaimInv /\ BatchBounded

LEMMA InitClaims == Init => ClaimsInv
<1> SUFFICES ASSUME Init PROVE ClaimsInv
  OBVIOUS
<1>1. Present = {}
  BY DEF Init, Present, RowsOf
<1>2. \A t \in Tokens : {i \in Present : rows[i].token = t} = {}
  BY <1>1
<1>3. Cardinality({}) = 0
  BY FS_EmptySet
<1> QED
  BY <1>1, <1>2, <1>3, ConstantsAssumption DEF ClaimsInv, ClaimInv, BatchBounded

LEMMA ProducerClaims ==
  ASSUME TypeOK, TypeOK', ClaimsInv, Producer
  PROVE  ClaimsInv'
<1>1. PICK k \in Keys, tp \in TopicInputs, rk \in Ranks, ex \in ExpiryInputs,
           auto \in BOOLEAN :
        CreateQuestion(k, tp, rk, ex, auto) \/ UpdateByKey(k, tp, rk, ex, auto)
  BY DEF Producer
<1>2. CASE CreateQuestion(k, tp, rk, ex, auto)
  <2>1. PICK i \in Ids \ Present : Upsert(i, NewRow(k, tp, rk, ex), k, tp)
    BY <1>2 DEF CreateQuestion
  <2>2. NewRow(k, tp, rk, ex).token = NULL
    BY DEF NewRow
  <2> QED
    BY <2>1, <2>2, UpsertKeeps, KeepsClaims DEF ClaimsInv
<1>3. CASE UpdateByKey(k, tp, rk, ex, auto)
  <2>1. PICK i \in Present : Upsert(i, Refreshed(rows[i], tp, rk, ex), k, tp)
    BY <1>3 DEF UpdateByKey
  <2>2. i \in Ids /\ Follows(rows[i], Refreshed(rows[i], tp, rk, ex))
    BY <2>1, PresentRow, RefreshedFollows
  <2> QED
    BY <2>1, <2>2, UpsertKeeps, KeepsClaims DEF ClaimsInv
<1> QED
  BY <1>1, <1>2, <1>3

\* What a claim hands out is claimable, starts a lease within reach, and is
\* no more than one delivery takes; its token was on no row.
LEMMA ClaimNextClaims ==
  ASSUME TypeOK, TypeOK', ClaimsInv, NEW c \in Channels, NEW l \in LeaseInputs,
         NEW gate \in Gates, NEW merge \in BOOLEAN, ClaimNext(c, l, gate, merge)
  PROVE  ClaimsInv'
<1> DEFINE swept == Swept(ClaimSweep, rows)
<1>1. rows \in Table
  BY DEF TypeOK, Table
<1>2. swept \in Table /\ RowsOf(swept) = Present
  BY <1>1, SweptTypes, SweptRows DEF Present
<1>3. \A i \in Present : swept[i] \in Row /\ Follows(rows[i], swept[i])
  BY <1>2, PresentRow, SweptAt, ComposedSweepsFollow, SweepTypes
<1>4. PICK t \in Tokens, first \in Present, chosen \in SUBSET Present :
        /\ \A i \in Present : rows[i].token # t
        /\ Batch(swept, first, chosen, merge)
        /\ rows' = Handed(swept, chosen, t, c, l)
        /\ patched' = {i \in patched : swept[i].token # NULL}
  BY DEF ClaimNext
<1> HIDE DEF swept
<1>5. l \in Left(LeaseMax) /\ l \in Nat /\ l <= LeaseMax /\ l # NULL
  BY InputsAssumption, ThresholdsNat, ConstantsAssumption DEF Left, Lapsed
<1>6. \A i \in chosen : Candidate(swept[i])
  BY <1>4 DEF Batch
<1>7. Cardinality(chosen) <= MergeLimit
  BY <1>4 DEF Batch
<1>8. ASSUME NEW i \in chosen
      PROVE  /\ i \in Present
             /\ rows'[i] # NULL /\ rows'[i].token = t
             /\ ClaimOK(rows'[i], i \in patched')
  <2>1. i \in Present /\ i \in Ids /\ swept[i] \in Row
    BY <1>3, <1>4 DEF Present, RowsOf
  <2>2. rows'[i] = Claimed(swept[i], t, c, l)
    BY <1>4, <2>1 DEF Handed
  <2>3. /\ rows'[i].token = t /\ rows'[i].lease = l
        /\ rows'[i].updated = 0 /\ rows'[i].status = swept[i].status
    BY <2>1, <2>2 DEF Claimed, Row
  <2>4. rows'[i].status \in ClaimableStatus
    BY <1>6, <2>3 DEF Candidate
  <2>5. rows'[i] # NULL
    <3>1. Claimed(swept[i], t, c, l) \in Row
      BY <1>5, <2>1, ClaimedType
    <3> QED
      BY <2>2, <3>1, RowAssumption
  <2> QED
    BY <1>5, <2>1, <2>3, <2>4, <2>5, ThresholdsNat DEF ClaimOK, Deadline
<1>9. ASSUME NEW i \in Ids \ chosen, rows'[i] # NULL
      PROVE  i \in Present /\ Keeps(i)
  <2>1. rows'[i] = swept[i]
    BY <1>4 DEF Handed
  <2>2. i \in Present
    BY <1>2, <1>9, <2>1 DEF RowsOf
  <2>3. i \in patched /\ rows'[i].token # NULL => i \in patched'
    BY <1>4, <2>1
  <2> QED
    BY <1>3, <2>1, <2>2, <2>3, FollowKeeps
<1>10. ClaimInv'
  BY <1>8, <1>9 DEF ClaimsInv, ClaimInv, Keeps, ClaimOK, Present, RowsOf
<1>11. ASSUME NEW u \in Tokens
       PROVE  Cardinality(TokenRows(u)') <= MergeLimit
  <2>1. u # NULL
    BY ConstantsAssumption
  <2>2. CASE u = t
    <3>1. TokenRows(u)' = chosen
      BY <1>4, <1>8, <1>9, <2>1, <2>2 DEF Keeps, TokenRows, Present, RowsOf
    <3> QED
      BY <1>7, <3>1
  <2>3. CASE u # t
    <3>1. TokenRows(u)' \subseteq TokenRows(u)
      BY <1>8, <1>9, <2>1, <2>3 DEF Keeps, TokenRows, Present, RowsOf
    <3>2. Cardinality(TokenRows(u)) <= MergeLimit
      BY DEF ClaimsInv, BatchBounded, TokenRows
    <3>3. /\ Cardinality(TokenRows(u)') \in Nat
          /\ Cardinality(TokenRows(u)') <= Cardinality(TokenRows(u))
      BY <3>1, TokenRowsFinite, FS_Subset, FS_CardinalityType
    <3> QED
      BY <3>2, <3>3, TokenRowsFinite, ConstantsAssumption
  <2> QED
    BY <2>2, <2>3
<1> QED
  BY <1>10, <1>11 DEF ClaimsInv, BatchBounded, TokenRows

LEMMA AgentClaims ==
  ASSUME TypeOK, TypeOK', ClaimsInv, Agent
  PROVE  ClaimsInv'
<1>1. PICK c \in Channels :
        \/ \E l \in LeaseInputs, gate \in Gates, merge \in BOOLEAN :
             ClaimNext(c, l, gate, merge)
        \/ \E gate \in Gates : ClaimNothing(c, gate)
        \/ \E i \in Ids, t \in Tokens \cup {NULL} : MarkAsked(i, c, t)
  BY DEF Agent
<1>2. ASSUME NEW gate \in Gates, ClaimNothing(c, gate)
      PROVE  ClaimsInv'
  <2>1. rows' = Swept(ClaimSweep, rows) /\ EndLeases(Expiring, rows')
    BY <1>2 DEF ClaimNothing
  <2> QED
    BY <2>1, SweepKeeps, KeepsClaims DEF ClaimsInv
<1>3. ASSUME NEW i \in Ids, NEW t \in Tokens \cup {NULL}, MarkAsked(i, c, t)
      PROVE  ClaimsInv'
  <2>1. /\ i \in Present
        /\ rows' = [rows EXCEPT ![i] = Asked(rows[i], c)] /\ EndLeases({i}, rows')
    BY <1>3 DEF MarkAsked
  <2>2. Asked(rows[i], c).token = NULL
    BY <2>1, PresentRow DEF Asked, Unclaimed, Row
  <2> QED
    BY <2>1, <2>2, EndKeeps, KeepsClaims DEF ClaimsInv
<1> QED
  BY <1>1, <1>2, <1>3, ClaimNextClaims

LEMMA UserClaims ==
  ASSUME TypeOK, TypeOK', ClaimsInv, User
  PROVE  ClaimsInv'
<1>1. ASSUME NEW i \in Ids, NEW st \in PatchStatusInputs, NEW ex \in ExpiryInputs,
             PatchQuestion(i, st, ex)
      PROVE  ClaimsInv'
  <2>1. /\ i \in Present /\ rows' = [rows EXCEPT ![i] = Patched(rows[i], st, ex)]
        /\ patched' = IF st # NULL /\ rows[i].token # NULL
                      THEN patched \cup {i} ELSE patched
    BY <1>1 DEF PatchQuestion
  <2>2. ASSUME NEW j \in Ids, rows'[j] # NULL PROVE Keeps(j)
    <3>1. CASE j = i
      <4>1. rows'[i] = Patched(rows[i], st, ex) /\ rows[i] \in Row
        BY <2>1, PresentRow DEF TypeOK
      <4>2. (i \in patched') = (i \in patched \/ (st # NULL /\ rows[i].token # NULL))
        BY <2>1
      <4> QED
        BY <2>1, <3>1, <4>1, <4>2, PatchedClaim DEF Keeps, ClaimOK
    <3>2. CASE j # i
      <4>1. rows'[j] = rows[j] /\ j \in Present
        BY <2>1, <2>2, <3>2 DEF TypeOK, Present, RowsOf
      <4>2. j \in patched => j \in patched'
        BY <2>1
      <4> QED
        BY <4>1, <4>2, FollowsSelf, FollowKeeps
    <3> QED
      BY <3>1, <3>2
  <2> QED
    BY <2>2, KeepsClaims DEF ClaimsInv, Keeps
<1>2. ASSUME NEW i \in Ids, NEW st \in {"resolved", "answered_partial"},
             NEW ago \in BackdateInputs, AnswerQuestion(i, st, ago)
      PROVE  ClaimsInv'
  <2>1. /\ i \in Present
        /\ rows' = [rows EXCEPT ![i] = Answered(rows[i], st, ago)]
        /\ EndLeases({i}, rows')
    BY <1>2 DEF AnswerQuestion
  <2>2. Answered(rows[i], st, ago).token = NULL
    BY <2>1, PresentRow DEF Answered, Unclaimed, Row
  <2> QED
    BY <2>1, <2>2, EndKeeps, KeepsClaims DEF ClaimsInv
<1>3. ASSUME NEW i \in Ids,
             NEW st \in {"resolved", "expired", "dismissed", "answered_partial"},
             ResolveQuestion(i, st)
      PROVE  ClaimsInv'
  <2>1. /\ i \in Present
        /\ rows' = [rows EXCEPT ![i] = Resolved(rows[i], st)] /\ EndLeases({i}, rows')
    BY <1>3 DEF ResolveQuestion
  <2>2. Resolved(rows[i], st).token = NULL
    BY <2>1, PresentRow DEF Resolved, Unclaimed, Row
  <2> QED
    BY <2>1, <2>2, EndKeeps, KeepsClaims DEF ClaimsInv
<1>4. ASSUME NEW S, Remove(S) PROVE ClaimsInv'
  BY <1>4, RemoveKeeps, KeepsClaims DEF ClaimsInv
<1>5. CASE ListQuestions
  <2>1. rows' = Swept(ExpireSweep, rows) /\ EndLeases(Expiring, rows')
    BY <1>5 DEF ListQuestions
  <2> QED
    BY <2>1, SweepKeeps, KeepsClaims DEF ClaimsInv
<1> QED
  BY <1>1, <1>2, <1>3, <1>4, <1>5 DEF User, DeleteQuestion, PurgeQuestions

LEMMA JobsClaims ==
  ASSUME TypeOK, TypeOK', ClaimsInv, Jobs
  PROVE  ClaimsInv'
<1>1. CASE ExpireJob
  <2>1. rows' = Swept(ExpireJobSweep, rows) /\ EndLeases(Expiring, rows')
    BY <1>1 DEF ExpireJob
  <2> QED
    BY <2>1, SweepKeeps, KeepsClaims DEF ClaimsInv
<1>2. CASE CleanupJob
  <2>1. /\ rows' = Swept(CleanupJobSweep, rows)
        /\ EndLeases({i \in Expiring : ~ OldPending(rows[i])}, rows')
    BY <1>2 DEF CleanupJob
  <2> QED
    BY <2>1, SweepKeeps, KeepsClaims DEF ClaimsInv
<1> QED
  BY <1>1, <1>2 DEF Jobs

LEMMA TickClaims ==
  ASSUME TypeOK, TypeOK', ClaimsInv, Tick
  PROVE  ClaimsInv'
<1>1. rows' = Swept(Aged, rows) /\ patched' = patched
  BY DEF Tick
<1>2. ASSUME NEW i \in Ids, rows'[i] # NULL PROVE Keeps(i)
  <2>1. i \in Present /\ rows[i] \in Row
    BY <1>1, <1>2, PresentRow DEF Swept, Present, RowsOf
  <2>2. Follows(rows[i], rows'[i])
    BY <1>1, <2>1, SweptAt, AgedFollows
  <2> QED
    BY <1>1, <2>1, <2>2, FollowKeeps
<1> QED
  BY <1>2, KeepsClaims DEF ClaimsInv, Keeps

\* A claim covers only questions that can be claimed, unless a PATCH
\* overwrote the status, and one token never covers more of them than may be
\* delivered together, whatever requests, jobs and time come in between.
THEOREM ClaimsAreBounded == Spec => []ClaimsBounded
<1>1. TypeOK /\ TypeOK' /\ ClaimsInv /\ [Next]_vars => ClaimsInv'
  <2> SUFFICES ASSUME TypeOK, TypeOK', ClaimsInv, [Next]_vars PROVE ClaimsInv'
    OBVIOUS
  <2>1. CASE Next
    BY <2>1, ProducerClaims, AgentClaims, UserClaims, JobsClaims, TickClaims DEF Next
  <2>2. CASE UNCHANGED vars
    BY <2>2 DEF vars, ClaimsInv, ClaimInv, BatchBounded, Present
  <2> QED
    BY <2>1, <2>2
<1>2. ClaimsInv => ClaimsBounded
  BY DEF ClaimsInv, ClaimInv, ClaimOK, ClaimsBounded, ClaimedIsClaimable
<1> QED
  BY <1>1, <1>2, InitClaims, TypeCorrect, PTL DEF Spec
---------------------------------------------------------------------------
(* Counting deliveries.  AskedCountsAttempts is inductive: the count and   *)
(* the attempts change together, and a new row starts both again.          *)

\* Rows come from rows and keep their count, and no attempt is recorded.
LEMMA CountKept ==
  ASSUME AskedCountsAttempts,
         \A i \in Ids : rows'[i] # NULL =>
            /\ i \in Present /\ rows'[i].asked = rows[i].asked
            /\ attempts'[i].sent = attempts[i].sent
  PROVE  AskedCountsAttempts'
  BY DEF AskedCountsAttempts, Present, RowsOf

LEMMA SweepCounts ==
  ASSUME TypeOK, TypeOK', AskedCountsAttempts, NEW S, EndLeases(S, rows'),
         UNCHANGED attempts,
         \/ rows' = Swept(ClaimSweep, rows)
         \/ rows' = Swept(ExpireSweep, rows)
         \/ rows' = Swept(ExpireJobSweep, rows)
         \/ rows' = Swept(CleanupJobSweep, rows)
  PROVE  AskedCountsAttempts'
  BY SweepKeeps, CountKept

\* One row is rewritten and keeps its count.
LEMMA RewriteCounts ==
  ASSUME TypeOK, AskedCountsAttempts, NEW i \in Present, NEW row,
         rows' = [rows EXCEPT ![i] = row], row.asked = rows[i].asked,
         \A j \in Ids : attempts'[j].sent = attempts[j].sent
  PROVE  AskedCountsAttempts'
<1>1. ASSUME NEW j \in Ids, rows'[j] # NULL
      PROVE  j \in Present /\ rows'[j].asked = rows[j].asked
  BY <1>1 DEF TypeOK, Present, RowsOf
<1> QED
  BY <1>1, CountKept

LEMMA ProducerCounts ==
  ASSUME TypeOK, TypeOK', AskedCountsAttempts, Producer
  PROVE  AskedCountsAttempts'
<1>1. PICK k \in Keys, tp \in TopicInputs, rk \in Ranks, ex \in ExpiryInputs,
           auto \in BOOLEAN :
        CreateQuestion(k, tp, rk, ex, auto) \/ UpdateByKey(k, tp, rk, ex, auto)
  BY DEF Producer
<1>2. CASE CreateQuestion(k, tp, rk, ex, auto)
  <2>1. PICK i \in Ids \ Present :
          /\ Upsert(i, NewRow(k, tp, rk, ex), k, tp)
          /\ attempts' = [attempts EXCEPT ![i] = NoAttempts]
    BY <1>2 DEF CreateQuestion
  <2>2. NewRow(k, tp, rk, ex).token = NULL /\ NewRow(k, tp, rk, ex).asked = 0
    BY DEF NewRow
  <2>3. rows'[i].asked = 0 /\ attempts'[i].sent = 0
    BY <2>1, <2>2, UpsertKeeps DEF TypeOK, NoAttempts
  <2>4. \A j \in Ids \ {i} : rows'[j] # NULL =>
          j \in Present /\ rows'[j].asked = rows[j].asked
    BY <2>1, <2>2, UpsertKeeps
  <2>5. \A j \in Ids \ {i} : attempts'[j] = attempts[j]
    BY <2>1 DEF TypeOK
  <2> QED
    BY <2>3, <2>4, <2>5 DEF AskedCountsAttempts, Present, RowsOf
<1>3. CASE UpdateByKey(k, tp, rk, ex, auto)
  <2>1. PICK i \in Present : Upsert(i, Refreshed(rows[i], tp, rk, ex), k, tp)
    BY <1>3 DEF UpdateByKey
  <2>2. i \in Ids /\ Follows(rows[i], Refreshed(rows[i], tp, rk, ex))
    BY <2>1, PresentRow, RefreshedFollows
  <2>3. rows'[i].asked = rows[i].asked
    BY <2>1, <2>2, UpsertKeeps DEF Follows
  <2>4. \A j \in Ids \ {i} : rows'[j] # NULL =>
          j \in Present /\ rows'[j].asked = rows[j].asked
    BY <2>1, <2>2, UpsertKeeps
  <2>5. attempts' = attempts
    BY <1>3 DEF UpdateByKey
  <2> QED
    BY <2>1, <2>3, <2>4, <2>5, CountKept
<1> QED
  BY <1>1, <1>2, <1>3

LEMMA AgentCounts ==
  ASSUME TypeOK, TypeOK', AskedCountsAttempts, Agent
  PROVE  AskedCountsAttempts'
<1>1. PICK c \in Channels :
        \/ \E l \in LeaseInputs, gate \in Gates, merge \in BOOLEAN :
             ClaimNext(c, l, gate, merge)
        \/ \E gate \in Gates : ClaimNothing(c, gate)
        \/ \E i \in Ids, t \in Tokens \cup {NULL} : MarkAsked(i, c, t)
  BY DEF Agent
<1>2. ASSUME NEW l \in LeaseInputs, NEW gate \in Gates, NEW merge \in BOOLEAN,
             ClaimNext(c, l, gate, merge)
      PROVE  AskedCountsAttempts'
  <2> DEFINE swept == Swept(ClaimSweep, rows)
  <2>1. swept \in Table /\ RowsOf(swept) = Present
    BY SweptTypes, SweptRows DEF TypeOK, Table, Present
  <2>2. \A i \in Present : swept[i] \in Row /\ swept[i].asked = rows[i].asked
    BY PresentRow, SweptAt, ComposedSweepsFollow, SweepTypes DEF Follows
  <2>3. PICK t \in Tokens, chosen \in SUBSET Present :
          rows' = Handed(swept, chosen, t, c, l)
    BY <1>2 DEF ClaimNext
  <2> HIDE DEF swept
  <2>4. ASSUME NEW i \in Ids, rows'[i] # NULL
        PROVE  i \in Present /\ rows'[i].asked = rows[i].asked
    <3>1. rows'[i] = IF i \in chosen THEN Claimed(swept[i], t, c, l) ELSE swept[i]
      BY <2>3 DEF Handed
    <3>2. i \in Present
      BY <2>1, <2>3, <2>4, <3>1 DEF RowsOf
    <3>3. Claimed(swept[i], t, c, l).asked = swept[i].asked
      BY <2>2, <3>2 DEF Claimed, Row
    <3> QED
      BY <2>2, <3>1, <3>2, <3>3
  <2>5. attempts' = attempts
    BY <1>2 DEF ClaimNext
  <2> QED
    BY <2>4, <2>5, CountKept
<1>3. ASSUME NEW gate \in Gates, ClaimNothing(c, gate)
      PROVE  AskedCountsAttempts'
  <2>1. rows' = Swept(ClaimSweep, rows) /\ EndLeases(Expiring, rows')
    BY <1>3 DEF ClaimNothing
  <2>2. attempts' = attempts
    BY <1>3 DEF ClaimNothing
  <2> QED
    BY <2>1, <2>2, SweepCounts
<1>4. ASSUME NEW i \in Ids, NEW t \in Tokens \cup {NULL}, MarkAsked(i, c, t)
      PROVE  AskedCountsAttempts'
  <2>1. i \in Present /\ rows' = [rows EXCEPT ![i] = Asked(rows[i], c)]
    BY <1>4 DEF MarkAsked
  <2>2. rows[i] \in Row
    BY <2>1, PresentRow
  <2>3. Unclaimed(rows[i]) \in Row /\ Unclaimed(rows[i]).asked = rows[i].asked
    BY <2>2, UnclaimedType DEF Unclaimed, Row
  <2>4. Asked(rows[i], c).asked = rows[i].asked + 1
    BY <2>3 DEF Asked, Row
  <2>5. rows'[i].asked = rows[i].asked + 1
    BY <2>1, <2>4 DEF TypeOK
  <2>6. attempts'[i].sent = attempts[i].sent + 1
    BY <1>4 DEF MarkAsked, TypeOK
  <2>7. \A j \in Ids \ {i} : rows'[j] = rows[j] /\ attempts'[j] = attempts[j]
    BY <1>4, <2>1 DEF MarkAsked, TypeOK
  <2> QED
    BY <2>1, <2>5, <2>6, <2>7 DEF AskedCountsAttempts, Present, RowsOf
<1> QED
  BY <1>1, <1>2, <1>3, <1>4

LEMMA UserCounts ==
  ASSUME TypeOK, TypeOK', AskedCountsAttempts, User
  PROVE  AskedCountsAttempts'
<1>1. ASSUME NEW i \in Ids, NEW st \in PatchStatusInputs, NEW ex \in ExpiryInputs,
             PatchQuestion(i, st, ex)
      PROVE  AskedCountsAttempts'
  <2>1. /\ i \in Present /\ rows' = [rows EXCEPT ![i] = Patched(rows[i], st, ex)]
        /\ attempts' = attempts
    BY <1>1 DEF PatchQuestion
  <2>2. Patched(rows[i], st, ex).asked = rows[i].asked
    BY <2>1, PresentRow, PatchedClaim
  <2> QED
    BY <2>1, <2>2, RewriteCounts
<1>2. ASSUME NEW i \in Ids, NEW st \in {"resolved", "answered_partial"},
             NEW ago \in BackdateInputs, AnswerQuestion(i, st, ago)
      PROVE  AskedCountsAttempts'
  <2>1. i \in Present /\ rows' = [rows EXCEPT ![i] = Answered(rows[i], st, ago)]
    BY <1>2 DEF AnswerQuestion
  <2>2. Answered(rows[i], st, ago).asked = rows[i].asked
    BY <2>1, PresentRow DEF Answered, Unclaimed, Row
  <2>3. \A j \in Ids : attempts'[j].sent = attempts[j].sent
    BY <1>2 DEF AnswerQuestion, TypeOK
  <2> QED
    BY <2>1, <2>2, <2>3, RewriteCounts
<1>3. ASSUME NEW i \in Ids,
             NEW st \in {"resolved", "expired", "dismissed", "answered_partial"},
             ResolveQuestion(i, st)
      PROVE  AskedCountsAttempts'
  <2>1. /\ i \in Present /\ rows' = [rows EXCEPT ![i] = Resolved(rows[i], st)]
        /\ attempts' = attempts
    BY <1>3 DEF ResolveQuestion
  <2>2. Resolved(rows[i], st).asked = rows[i].asked
    BY <2>1, PresentRow DEF Resolved, Unclaimed, Row
  <2> QED
    BY <2>1, <2>2, RewriteCounts
<1>4. ASSUME NEW S, Remove(S) PROVE AskedCountsAttempts'
  <2>1. attempts' = attempts
    BY <1>4 DEF Remove
  <2> QED
    BY <1>4, <2>1, RemoveKeeps, CountKept
<1>5. CASE ListQuestions
  <2>1. /\ rows' = Swept(ExpireSweep, rows) /\ EndLeases(Expiring, rows')
        /\ attempts' = attempts
    BY <1>5 DEF ListQuestions
  <2> QED
    BY <2>1, SweepCounts
<1> QED
  BY <1>1, <1>2, <1>3, <1>4, <1>5 DEF User, DeleteQuestion, PurgeQuestions

LEMMA JobsCounts ==
  ASSUME TypeOK, TypeOK', AskedCountsAttempts, Jobs
  PROVE  AskedCountsAttempts'
<1>1. CASE ExpireJob
  <2>1. /\ rows' = Swept(ExpireJobSweep, rows) /\ EndLeases(Expiring, rows')
        /\ attempts' = attempts
    BY <1>1 DEF ExpireJob
  <2> QED
    BY <2>1, SweepCounts
<1>2. CASE CleanupJob
  <2>1. /\ rows' = Swept(CleanupJobSweep, rows)
        /\ EndLeases({i \in Expiring : ~ OldPending(rows[i])}, rows')
        /\ attempts' = attempts
    BY <1>2 DEF CleanupJob
  <2> QED
    BY <2>1, SweepCounts
<1> QED
  BY <1>1, <1>2 DEF Jobs

LEMMA TickCounts ==
  ASSUME TypeOK, TypeOK', AskedCountsAttempts, Tick
  PROVE  AskedCountsAttempts'
<1>1. rows' = Swept(Aged, rows) /\ attempts' = attempts
  BY DEF Tick
<1>2. ASSUME NEW i \in Ids, rows'[i] # NULL
      PROVE  i \in Present /\ rows'[i].asked = rows[i].asked
  <2>1. i \in Present /\ rows[i] \in Row
    BY <1>1, <1>2, PresentRow DEF Swept, Present, RowsOf
  <2> QED
    BY <1>1, <2>1, SweptAt, AgedFollows DEF Follows
<1> QED
  BY <1>1, <1>2, CountKept

\* asked_count, which claim_next_questions sorts by, is the number of delivery
\* attempts on record for the question: no refresh, requeue, answer, sweep or
\* deletion loses or repeats one.
THEOREM AskedCounted == Spec => []AskedCountsAttempts
<1>1. TypeOK /\ TypeOK' /\ AskedCountsAttempts /\ [Next]_vars => AskedCountsAttempts'
  <2> SUFFICES ASSUME TypeOK, TypeOK', AskedCountsAttempts, [Next]_vars
               PROVE  AskedCountsAttempts'
    OBVIOUS
  <2>1. CASE Next
    BY <2>1, ProducerCounts, AgentCounts, UserCounts, JobsCounts, TickCounts DEF Next
  <2>2. CASE UNCHANGED vars
    BY <2>2 DEF vars, AskedCountsAttempts, Present
  <2> QED
    BY <2>1, <2>2
<1>2. Init => AskedCountsAttempts
  BY DEF Init, AskedCountsAttempts, Present, RowsOf
<1> QED
  BY <1>1, <1>2, TypeCorrect, PTL DEF Spec

---------------------------------------------------------------------------
(* The reminder.  While an item is not asked about, each of its days that  *)
(* is behind was missed, or the reminder that runs may still be.           *)

DueKey(i, due) == <<"due", i, due>>

\* Is a day to be asked about behind on day d: over, or begun by the reminder?
Past(lead, d, started) == IF lead < d \/ (lead = d /\ started) THEN 1 ELSE 0
Gone(due, d, started) ==
  Past(due - 7, d, started) + Past(due - 3, d, started) + Past(due - 1, d, started)

\* May the run r come to be counted as missed, for the question k?
Pending(r, k) ==
  IF r # NULL /\ r.job = "reminder" /\ (r.failed \/ k \in r.todo) THEN 1 ELSE 0

\* An item that waits to be asked about since more than a week before it is due.
Awaits(i) ==
  dues[i] # NULL /\ known[i] < dues[i].due - 7 /\ DueKey(i, dues[i].due) \notin asked

DaysCounted ==
  \A i \in Items : Awaits(i) =>
    Gone(dues[i].due, day, begun) <= missed + Pending(run, DueKey(i, dues[i].due))

RunOK(r, d) ==
  r # NULL => r \in Checks!Run /\ r.today <= d /\ (r.job = "reminder" => r.goals = FALSE)

ChecksTyped ==
  /\ day \in Checks!Days /\ counted \in Checks!Days \cup {NULL} /\ begun \in BOOLEAN
  /\ dues \in [Items -> Checks!Item \cup {NULL}]
  /\ decisions \in [Decisions -> Checks!Decision]
  /\ threshold \in Scores
  /\ open \subseteq asked /\ asked \subseteq Checks!Key
  /\ missed \in 0 .. 3
  /\ known \in [Items -> Checks!Days] /\ \A i \in Items : known[i] <= day

ChecksInv == ChecksTyped /\ RunOK(run, day) /\ DaysCounted

LEMMA Calendar ==
  /\ LastDay \in Nat /\ Dues \subseteq Checks!Days /\ Checks!Days = 0 .. LastDay
  /\ NULL \notin Checks!Run
  BY ChecksAssumption DEF Checks!DaysAssumption, Checks!Days

LEMMA DuesAreDays == \A d \in Dues : d \in Int
  BY Calendar

\* The days to ask on that are behind, as days pass and reminders begin.
LEMMA GoneCounts ==
  ASSUME NEW due \in Int, NEW d \in Int, NEW started \in BOOLEAN
  PROVE  /\ Gone(due, d, started) \in 0 .. 3
         /\ d >= due => Gone(due, d, started) = 3
         /\ d < due - 7 => Gone(due, d, started) = 0
         /\ started \/ due - d \notin {7, 3, 1} =>
              Gone(due, d + 1, FALSE) <= Gone(due, d, started)
         /\ Gone(due, d + 1, FALSE) <= Gone(due, d, started) + 1
         /\ due - d \notin {7, 3, 1} => Gone(due, d, TRUE) = Gone(due, d, started)
         /\ Gone(due, d, TRUE) <= Gone(due, d, started) + 1
  BY SMTT(30) DEF Gone, Past

LEMMA PendingCounts == ASSUME NEW r, NEW k PROVE Pending(r, k) \in {0, 1}
  BY DEF Pending

LEMMA Balanced ==
  ASSUME NEW g \in 0 .. 3, NEW m \in 0 .. 3, NEW n \in 0 .. 3,
         NEW p \in {0, 1}, NEW q \in {0, 1},
         g <= m + p, g <= n \/ m + p <= n + q
  PROVE  g <= n + q
  OBVIOUS

LEMMA SoonerCounts ==
  ASSUME NEW n \in 0 .. 3
  PROVE  Checks!Sooner(n) \in 0 .. 3 /\ n <= Checks!Sooner(n)
         /\ \A g \in 0 .. 3 : g <= n + 1 => g <= Checks!Sooner(n)
  BY DEF Checks!Sooner

LEMMA ItemDue ==
  ASSUME ChecksInv, NEW i \in Items, dues[i] # NULL
  PROVE  dues[i].due \in Dues /\ dues[i].due \in Int /\ DueKey(i, dues[i].due) \in Checks!Key
<1>1. dues[i].due \in Dues
  BY DEF ChecksInv, ChecksTyped, Checks!Item
<1>2. dues[i].due \in Int
  BY <1>1, DuesAreDays
<1>3. <<"due", i, dues[i].due>> \in
        {<<kind, j, d>> : kind \in {"due", "overdue"}, j \in Items, d \in Dues}
  BY <1>1
<1> QED
  BY <1>1, <1>2, <1>3 DEF DueKey, Checks!Key

\* What a job is to ask is a question.
LEMMA TodosAreKeys ==
  ASSUME ChecksInv
  PROVE  /\ Checks!Reminders(day) \subseteq Checks!Key
         /\ Checks!Overdue(day) \subseteq Checks!Key
         /\ Checks!NearTarget(day) \subseteq Checks!Key
         /\ Checks!BelowThreshold \subseteq Checks!Key
<1>1. Checks!Reminders(day) \subseteq Checks!Key
  BY ItemDue DEF Checks!Reminders, DueKey
<1>2. Checks!Overdue(day) \subseteq Checks!Key
  <2>1. ASSUME NEW i \in Items, dues[i] # NULL
        PROVE  <<"overdue", i, dues[i].due>> \in Checks!Key
    BY <2>1, ItemDue DEF Checks!Key
  <2> QED
    BY <2>1 DEF Checks!Overdue
<1>3. Checks!NearTarget(day) \subseteq Checks!Key
  <2>1. ASSUME NEW x \in Decisions, decisions[x].target # NULL
        PROVE  <<"target", x, decisions[x].target>> \in Checks!Key
    <3>1. decisions[x].target \in Dues
      BY <2>1 DEF ChecksInv, ChecksTyped, Checks!Decision
    <3> QED
      BY <3>1 DEF Checks!Key
  <2> QED
    BY <2>1 DEF Checks!NearTarget, Checks!Active
<1>4. Checks!BelowThreshold \subseteq Checks!Key
  <2>1. ASSUME NEW x \in Decisions PROVE <<"threshold", x, threshold>> \in Checks!Key
    BY DEF ChecksInv, ChecksTyped, Checks!Key
  <2> QED
    BY <2>1 DEF Checks!BelowThreshold, Checks!Active
<1> QED
  BY <1>1, <1>2, <1>3, <1>4

\* Steps that neither the reminder nor its days know of.
LEMMA OutsideKeeps ==
  ASSUME ChecksInv, Checks!Decide \/ Checks!SetThreshold \/ Checks!ChangeGoals \/ Checks!Answer
  PROVE  ChecksInv'
<1>1. /\ day' = day /\ dues' = dues /\ run' = run /\ begun' = begun /\ missed' = missed
      /\ known' = known /\ asked' = asked
  BY DEF Checks!Decide, Checks!SetThreshold, Checks!ChangeGoals, Checks!Answer, Checks!family
<1>2. /\ counted' \in Checks!Days \cup {NULL} /\ threshold' \in Scores /\ open' \subseteq asked
      /\ decisions' \in [Decisions -> Checks!Decision]
  BY DEF Checks!Decide, Checks!SetThreshold, Checks!ChangeGoals, Checks!Answer, Checks!family,
         ChecksInv, ChecksTyped
<1> QED
  BY <1>1, <1>2 DEF ChecksInv, ChecksTyped, DaysCounted, Awaits

\* An item that is changed today is known from today.
LEMMA PlanKeeps ==
  ASSUME ChecksInv, Checks!Plan
  PROVE  ChecksInv'
<1>1. PICK i \in Items, new \in Checks!Item \cup {NULL} :
        dues' = [dues EXCEPT ![i] = new] /\ known' = [known EXCEPT ![i] = day]
  BY DEF Checks!Plan
<1>2. UNCHANGED <<day, decisions, threshold, counted, open, run, begun, missed, asked>>
  BY DEF Checks!Plan
<1>3. ChecksTyped'
  BY <1>1, <1>2, Calendar DEF ChecksInv, ChecksTyped
<1>4. ASSUME NEW j \in Items, Awaits(j)'
      PROVE  Gone(dues'[j].due, day', begun')
               <= missed' + Pending(run', DueKey(j, dues'[j].due))
  <2>1. CASE j = i
    <3>1. dues'[j] = new /\ known'[j] = day /\ new # NULL /\ day < new.due - 7
      BY <1>1, <1>4, <2>1 DEF ChecksInv, ChecksTyped, Awaits
    <3>2. day \in Int /\ begun \in BOOLEAN /\ missed \in 0 .. 3
      BY Calendar DEF ChecksInv, ChecksTyped
    <3>0. new.due \in Int
      <4>1. new \in Checks!Item
        BY <3>1
      <4>2. new.due \in Dues
        BY <4>1 DEF Checks!Item
      <4> QED
        BY <4>2, DuesAreDays
    <3>3. Gone(new.due, day, begun) = 0
      BY <3>0, <3>1, <3>2, GoneCounts
    <3>4. Pending(run, DueKey(j, new.due)) \in {0, 1}
      BY PendingCounts
    <3>5. Gone(new.due, day, begun) <= missed + Pending(run, DueKey(j, new.due))
      BY <3>2, <3>3, <3>4
    <3> QED
      BY <1>2, <3>1, <3>5
  <2>2. CASE j # i
    <3>1. dues'[j] = dues[j] /\ known'[j] = known[j]
      BY <1>1, <2>2 DEF ChecksInv, ChecksTyped
    <3>2. Awaits(j)
      BY <1>2, <1>4, <3>1 DEF Awaits
    <3> QED
      BY <1>2, <3>1, <3>2 DEF ChecksInv, DaysCounted
  <2> QED
    BY <2>1, <2>2
<1>5. DaysCounted'
  BY <1>4 DEF DaysCounted
<1> QED
  BY <1>2, <1>3, <1>5 DEF ChecksInv

LEMMA NextDayKeeps ==
  ASSUME ChecksInv, Checks!NextDay
  PROVE  ChecksInv'
<1>1. /\ day < LastDay /\ day' = day + 1 /\ begun' = FALSE
      /\ missed' = IF begun \/ ~ Checks!LeadDay THEN missed ELSE Checks!Sooner(missed)
      /\ dues' = dues /\ known' = known /\ asked' = asked /\ run' = run
      /\ decisions' = decisions /\ threshold' = threshold /\ counted' = counted /\ open' = open
  BY DEF Checks!NextDay, Checks!family
<1>2. /\ day \in Int /\ day \in 0 .. LastDay /\ begun \in BOOLEAN /\ missed \in 0 .. 3
  BY Calendar DEF ChecksInv, ChecksTyped
<1>3. missed' \in 0 .. 3 /\ missed <= missed'
  BY <1>1, <1>2, SoonerCounts
<1>4. ChecksTyped'
  <2>1. day' \in Checks!Days
    BY <1>1, <1>2, Calendar
  <2>0. begun' \in BOOLEAN
    BY <1>1
  <2>2. \A i \in Items : known'[i] <= day'
    BY <1>1, <1>2, Calendar DEF ChecksInv, ChecksTyped
  <2> QED
    BY <1>1, <1>3, <2>0, <2>1, <2>2 DEF ChecksInv, ChecksTyped
<1>5. RunOK(run', day')
  BY <1>1, <1>2, Calendar DEF ChecksInv, RunOK, Checks!Run
<1>6. ASSUME NEW i \in Items, Awaits(i)'
      PROVE  Gone(dues'[i].due, day', begun')
               <= missed' + Pending(run', DueKey(i, dues'[i].due))
  <2>1. Awaits(i) /\ dues[i] # NULL
    BY <1>1, <1>6 DEF Awaits
  <2> DEFINE due == dues[i].due
             before == Gone(due, day, begun)
             after == Gone(due, day + 1, FALSE)
             p == Pending(run, DueKey(i, due))
  <2>2. due \in Int
    BY <2>1, ItemDue
  <2>3. p \in {0, 1}
    BY PendingCounts
  <2>4. before <= missed + p
    BY <2>1 DEF ChecksInv, DaysCounted
  <2>5. begun \/ due - day \notin {7, 3, 1} => after <= before
    BY <1>2, <2>2, GoneCounts
  <2>6. before \in 0 .. 3 /\ after \in 0 .. 3 /\ after <= before + 1
    <3>1. before \in 0 .. 3 /\ after <= before + 1
      BY <1>2, <2>2, GoneCounts
    <3>2. day + 1 \in Int
      BY <1>2
    <3>3. after \in 0 .. 3
      BY <2>2, <3>2, GoneCounts
    <3> QED
      BY <3>1, <3>3
  <2>7. due - day \in {7, 3, 1} => Checks!LeadDay
    BY <2>1 DEF Checks!LeadDay
  <2> HIDE DEF due, before, after, p
  <2>8. after <= missed' + p
    <3>1. CASE begun \/ ~ Checks!LeadDay
      <4>1. after <= before
        BY <2>5, <2>7, <3>1
      <4>2. after <= missed + p
        BY <1>2, <2>3, <2>4, <2>6, <4>1
      <4>3. \A n \in 0 .. 3 : missed <= n => after <= n + p
        BY <1>2, <2>3, <2>6, <4>2
      <4> QED
        BY <1>3, <4>3
    <3>2. CASE ~ (begun \/ ~ Checks!LeadDay)
      <4>1. missed' = Checks!Sooner(missed)
        BY <1>1, <3>2
      <4>2. missed' = IF missed < 3 THEN missed + 1 ELSE missed
        BY <4>1 DEF Checks!Sooner
      <4> QED
        BY <1>2, <2>3, <2>4, <2>6, <4>2
    <3> QED
      BY <3>1, <3>2
  <2> QED
    BY <1>1, <2>8 DEF due, after, p
<1>7. DaysCounted'
  BY <1>6 DEF DaysCounted
<1> QED
  BY <1>4, <1>5, <1>7 DEF ChecksInv

\* A job that starts with what it is to ask.
LEMMA Started ==
  ASSUME ChecksInv, NEW job \in {"reminder", "check"}, Checks!Start(job)
  PROVE  /\ run = NULL /\ run' # NULL /\ RunOK(run', day)
         /\ run'.job = job
         /\ job = "reminder" => run'.todo = Checks!Reminders(day)
<1> DEFINE todo == IF job = "reminder" THEN Checks!Reminders(day)
                   ELSE Checks!Overdue(day) \cup Checks!NearTarget(day) \cup Checks!BelowThreshold
           busy == Checks!Active # {}
           weekly == job = "check"
           r == [job |-> job, today |-> day, active |-> busy, goals |-> weekly,
                 failed |-> FALSE, todo |-> todo]
<1>1. run = NULL /\ run' = r
  BY DEF Checks!Start
<1>2. todo \in SUBSET Checks!Key
  BY TodosAreKeys
<1>3. busy \in BOOLEAN /\ weekly \in BOOLEAN
  OBVIOUS
<1>4. day \in Checks!Days /\ day <= day
  BY Calendar DEF ChecksInv, ChecksTyped
<1>5. job = "reminder" => weekly = FALSE
  OBVIOUS
<1>6. r.job = job /\ r.today = day /\ r.goals = weekly /\ r.todo = todo
  OBVIOUS
<1>7. job = "reminder" => todo = Checks!Reminders(day)
  OBVIOUS
<1> HIDE DEF todo, busy, weekly
<1>8. r \in Checks!Run
  BY <1>2, <1>3, <1>4 DEF Checks!Run
<1> HIDE DEF r
<1> QED
  BY <1>1, <1>4, <1>5, <1>6, <1>7, <1>8, Calendar DEF RunOK

LEMMA StartReminderKeeps ==
  ASSUME ChecksInv, Checks!StartReminder
  PROVE  ChecksInv'
<1>1. /\ ~ begun /\ begun' = TRUE /\ Checks!Start("reminder")
      /\ UNCHANGED <<day, dues, decisions, threshold, counted, open, missed, known, asked>>
  BY DEF Checks!StartReminder, Checks!family
<1>2. /\ run = NULL /\ run' # NULL /\ RunOK(run', day)
      /\ run'.job = "reminder"
      /\ run'.todo = Checks!Reminders(day)
  BY <1>1, Started
<1>3. begun' \in BOOLEAN
  BY <1>1
<1>4. ChecksTyped'
  BY <1>1, <1>3 DEF ChecksInv, ChecksTyped
<1>5. ASSUME NEW i \in Items, Awaits(i)'
      PROVE  Gone(dues'[i].due, day', begun')
               <= missed' + Pending(run', DueKey(i, dues'[i].due))
  <2>1. Awaits(i) /\ dues[i] # NULL
    BY <1>1, <1>5 DEF Awaits
  <2> DEFINE due == dues[i].due
             before == Gone(due, day, begun)
             after == Gone(due, day, TRUE)
             p == Pending(run', DueKey(i, due))
  <2>2. due \in Int
    BY <2>1, ItemDue
  <2>3. day \in Int /\ begun \in BOOLEAN /\ missed \in 0 .. 3
    BY Calendar DEF ChecksInv, ChecksTyped
  <2>4. before <= missed
    <3>1. Pending(run, DueKey(i, due)) = 0
      BY <1>2 DEF Pending
    <3>2. before <= missed + Pending(run, DueKey(i, due))
      BY <2>1 DEF ChecksInv, DaysCounted
    <3> QED
      BY <2>3, <3>1, <3>2
  <2>5. /\ before \in 0 .. 3 /\ after \in 0 .. 3 /\ after <= before + 1
        /\ due - day \notin {7, 3, 1} => after = before
    BY <2>2, <2>3, GoneCounts
  <2>6. due - day \in {7, 3, 1} => DueKey(i, due) \in run'.todo
    BY <1>2, <2>1 DEF Checks!Reminders, Checks!Leads, DueKey
  <2>7. p \in {0, 1}
    BY PendingCounts
  <2>8. due - day \in {7, 3, 1} => p = 1
    BY <1>2, <2>6 DEF Pending
  <2> HIDE DEF due, before, after, p
  <2>9. after <= missed + p
    BY <2>3, <2>4, <2>5, <2>7, <2>8
  <2> QED
    BY <1>1, <2>9 DEF due, after, p
<1>6. DaysCounted'
  BY <1>5 DEF DaysCounted
<1> QED
  BY <1>1, <1>2, <1>4, <1>6 DEF ChecksInv

\* What becomes of the run alone: a question less to ask, a goal count more, the end.
LEMMA RunMoves ==
  ASSUME ChecksInv,
         UNCHANGED <<day, begun, dues, known, decisions, threshold, counted>>,
         RunOK(run', day), missed' \in 0 .. 3,
         open' \subseteq asked', asked' \subseteq Checks!Key, asked \subseteq asked',
         \A i \in Items :
           Awaits(i) /\ DueKey(i, dues[i].due) \notin asked' =>
             \/ Gone(dues[i].due, day, begun) <= missed'
             \/ missed + Pending(run, DueKey(i, dues[i].due))
                  <= missed' + Pending(run', DueKey(i, dues[i].due))
  PROVE  ChecksInv'
<1>1. ChecksTyped'
  BY DEF ChecksInv, ChecksTyped
<1>2. ASSUME NEW i \in Items, Awaits(i)'
      PROVE  Gone(dues'[i].due, day', begun')
               <= missed' + Pending(run', DueKey(i, dues'[i].due))
  <2>1. Awaits(i) /\ DueKey(i, dues[i].due) \notin asked'
    BY <1>2 DEF Awaits
  <2> DEFINE g == Gone(dues[i].due, day, begun)
             p == Pending(run, DueKey(i, dues[i].due))
             q == Pending(run', DueKey(i, dues[i].due))
  <2>2. g <= missed + p
    BY <2>1 DEF ChecksInv, DaysCounted
  <2>3. g <= missed' \/ missed + p <= missed' + q
    BY <2>1
  <2>4. g \in 0 .. 3
    <3>1. dues[i].due \in Int
      BY <2>1, ItemDue DEF Awaits
    <3>2. day \in Int /\ begun \in BOOLEAN
      BY Calendar DEF ChecksInv, ChecksTyped
    <3> QED
      BY <3>1, <3>2, GoneCounts
  <2>5. p \in {0, 1} /\ q \in {0, 1}
    BY PendingCounts
  <2>6. missed \in 0 .. 3
    BY DEF ChecksInv, ChecksTyped
  <2> HIDE DEF g, p, q
  <2>7. g <= missed' + q
    BY <2>2, <2>3, <2>4, <2>5, <2>6, Balanced
  <2> QED
    BY <2>7 DEF g, q
<1>3. DaysCounted'
  BY <1>2 DEF DaysCounted
<1> QED
  BY <1>1, <1>3 DEF ChecksInv

LEMMA StartCheckKeeps ==
  ASSUME ChecksInv, Checks!StartCheck
  PROVE  ChecksInv'
<1>1. /\ Checks!Start("check")
      /\ UNCHANGED <<day, dues, decisions, threshold, counted, open, begun, missed, known, asked>>
  BY DEF Checks!StartCheck, Checks!family
<1>2. run = NULL /\ RunOK(run', day)
  BY <1>1, Started
<1>3. missed \in 0 .. 3
  BY DEF ChecksInv, ChecksTyped
<1>4. ASSUME NEW i \in Items
      PROVE  missed + Pending(run, DueKey(i, dues[i].due))
               <= missed' + Pending(run', DueKey(i, dues[i].due))
  <2>1. Pending(run, DueKey(i, dues[i].due)) = 0
    BY <1>2 DEF Pending
  <2>2. Pending(run', DueKey(i, dues[i].due)) \in {0, 1}
    BY PendingCounts
  <2> QED
    BY <1>1, <1>3, <2>1, <2>2
<1> QED
  BY <1>1, <1>2, <1>3, <1>4, RunMoves DEF ChecksInv, ChecksTyped

\* A step of the run that leaves the family's plans and the calendar alone.
LEMMA RunAt ==
  ASSUME ChecksInv, run # NULL
  PROVE  /\ run \in Checks!Run /\ run.today <= day /\ (run.job = "reminder" => run.goals = FALSE)
         /\ missed \in 0 .. 3 /\ open \subseteq asked /\ asked \subseteq Checks!Key
  BY DEF ChecksInv, RunOK, ChecksTyped

\* One question less to ask.
LEMMA TodoShrinks ==
  ASSUME ChecksInv, run # NULL, NEW k, NEW failed \in BOOLEAN,
         failed = run.failed \/ failed = TRUE,
         run' = [run EXCEPT !.todo = @ \ {k}, !.failed = failed]
  PROVE  /\ run' # NULL /\ RunOK(run', day)
         /\ run'.job = run.job /\ run'.failed = failed /\ run'.todo = run.todo \ {k}
<1> DEFINE r == [run EXCEPT !.todo = @ \ {k}, !.failed = failed]
<1>1. run \in Checks!Run /\ run.today <= day /\ (run.job = "reminder" => run.goals = FALSE)
  BY RunAt
<1>2. /\ r \in Checks!Run /\ r.today = run.today /\ r.job = run.job /\ r.goals = run.goals
      /\ r.failed = failed /\ r.todo = run.todo \ {k}
  BY <1>1 DEF Checks!Run
<1>3. run' = r
  OBVIOUS
<1> HIDE DEF r
<1> QED
  BY <1>1, <1>2, <1>3, Calendar DEF RunOK

LEMMA AskKeeps ==
  ASSUME ChecksInv, NEW k \in Checks!Key, Checks!Ask(k)
  PROVE  ChecksInv'
<1>1. /\ run # NULL /\ k \in run.todo
      /\ open' = open \cup {k} /\ asked' = asked \cup {k}
      /\ run' = [run EXCEPT !.todo = @ \ {k}]
      /\ UNCHANGED <<day, dues, decisions, threshold, counted, begun, missed, known>>
  BY DEF Checks!Ask, Checks!family
<1>2. run.failed \in BOOLEAN /\ run \in Checks!Run
  BY <1>1, RunAt DEF Checks!Run
<1>3. [run EXCEPT !.todo = @ \ {k}] = [run EXCEPT !.todo = @ \ {k}, !.failed = run.failed]
  BY <1>2 DEF Checks!Run
<1>4. /\ run' # NULL /\ RunOK(run', day)
      /\ run'.job = run.job /\ run'.failed = run.failed /\ run'.todo = run.todo \ {k}
  BY <1>1, <1>2, <1>3, TodoShrinks
<1>5. ASSUME NEW i \in Items, DueKey(i, dues[i].due) \notin asked'
      PROVE  missed + Pending(run, DueKey(i, dues[i].due))
               <= missed' + Pending(run', DueKey(i, dues[i].due))
  <2>1. Pending(run', DueKey(i, dues[i].due)) = Pending(run, DueKey(i, dues[i].due))
    BY <1>1, <1>4, <1>5 DEF Pending
  <2>2. missed \in Int /\ Pending(run, DueKey(i, dues[i].due)) \in Int
    BY RunAt, <1>1, PendingCounts
  <2> QED
    BY <1>1, <2>1, <2>2
<1>6. missed' \in 0 .. 3 /\ open' \subseteq asked' /\ asked' \subseteq Checks!Key
  BY <1>1, RunAt
<1> QED
  BY <1>1, <1>4, <1>5, <1>6, RunMoves

LEMMA AskFailsKeeps ==
  ASSUME ChecksInv, NEW k \in Checks!Key, Checks!AskFails(k)
  PROVE  ChecksInv'
<1>1. /\ run # NULL /\ k \in run.todo
      /\ run' = [run EXCEPT !.todo = @ \ {k}, !.failed = TRUE]
      /\ UNCHANGED <<day, dues, decisions, threshold, counted, open, begun, missed, known, asked>>
  BY DEF Checks!AskFails, Checks!family
<1>2. /\ run' # NULL /\ RunOK(run', day)
      /\ run'.job = run.job /\ run'.failed = TRUE
  <2>1. TRUE \in BOOLEAN
    OBVIOUS
  <2> QED
    BY <1>1, <2>1, TodoShrinks
<1>3. ASSUME NEW i \in Items
      PROVE  missed + Pending(run, DueKey(i, dues[i].due))
               <= missed' + Pending(run', DueKey(i, dues[i].due))
  <2> DEFINE p == Pending(run, DueKey(i, dues[i].due))
             q == Pending(run', DueKey(i, dues[i].due))
  <2>1. p = 0 \/ q = 1
    BY <1>1, <1>2 DEF Pending
  <2>2. missed \in Int /\ p \in {0, 1} /\ q \in {0, 1}
    BY RunAt, <1>1, PendingCounts
  <2> HIDE DEF p, q
  <2>3. missed + p <= missed + q
    BY <2>1, <2>2
  <2> QED
    BY <1>1, <2>3 DEF p, q
<1>4. missed' \in 0 .. 3 /\ open' \subseteq asked' /\ asked' \subseteq Checks!Key
  BY <1>1, RunAt
<1> QED
  BY <1>1, <1>2, <1>3, <1>4, RunMoves

\* Goals are counted by a check alone.
LEMMA CountGoalsKeeps ==
  ASSUME ChecksInv, Checks!CountGoals
  PROVE  ChecksInv'
<1> DEFINE todo(answered) ==
      IF answered /\ run.active /\ counted # NULL /\ counted >= run.today
      THEN {<<"recheck", NULL, run.today>>} ELSE {}
    r(answered) == [run EXCEPT !.goals = FALSE, !.todo = todo(answered)]
<1>1. /\ run # NULL /\ run.todo = {} /\ run.goals
      /\ UNCHANGED <<day, dues, decisions, threshold, counted, open, begun, missed, known, asked>>
  BY DEF Checks!CountGoals, Checks!family
<1>2. PICK answered \in BOOLEAN : run' = r(answered)
  BY DEF Checks!CountGoals
<1>3. /\ run \in Checks!Run /\ run.today <= day /\ run.job # "reminder"
      /\ run.today \in Checks!Days
  BY <1>1, RunAt DEF Checks!Run
<1>4. todo(answered) \subseteq Checks!Key
  BY <1>3 DEF Checks!Key
<1> HIDE DEF todo
<1>5. r(answered) \in Checks!Run /\ r(answered).today = run.today /\ r(answered).job = run.job
  BY <1>3, <1>4 DEF Checks!Run
<1> HIDE DEF r
<1>6. run' # NULL /\ RunOK(run', day) /\ run'.job # "reminder"
  BY <1>2, <1>3, <1>5, Calendar DEF RunOK
<1>7. ASSUME NEW i \in Items
      PROVE  missed + Pending(run, DueKey(i, dues[i].due))
               <= missed' + Pending(run', DueKey(i, dues[i].due))
  <2>1. /\ Pending(run, DueKey(i, dues[i].due)) = 0
        /\ Pending(run', DueKey(i, dues[i].due)) = 0
    BY <1>3, <1>6 DEF Pending
  <2>2. missed \in Int
    BY <1>1, RunAt
  <2> QED
    BY <1>1, <2>1, <2>2
<1>8. missed' \in 0 .. 3 /\ open' \subseteq asked' /\ asked' \subseteq Checks!Key
  BY <1>1, RunAt
<1> QED
  BY <1>1, <1>6, <1>7, <1>8, RunMoves

\* A run that ends is counted as missed when it was to be, or had something left to ask.
LEMMA RunEnds ==
  ASSUME ChecksInv, Checks!End \/ Checks!GiveUp
  PROVE  ChecksInv'
<1>1. /\ run # NULL /\ run' = NULL
      /\ UNCHANGED <<day, dues, decisions, threshold, counted, open, begun, known, asked>>
  BY DEF Checks!End, Checks!GiveUp, Checks!family
<1>2. /\ missed' = missed \/ missed' = Checks!Sooner(missed)
      /\ \A i \in Items : Pending(run, DueKey(i, dues[i].due)) = 1
                            => missed' = Checks!Sooner(missed)
  BY DEF Checks!End, Checks!GiveUp, Pending
<1>3. missed \in 0 .. 3 /\ RunOK(run', day)
  BY <1>1, RunAt DEF RunOK
<1>4. missed' \in 0 .. 3 /\ missed <= missed'
  BY <1>2, <1>3, SoonerCounts
<1>5. ASSUME NEW i \in Items, Awaits(i)
      PROVE  \/ Gone(dues[i].due, day, begun) <= missed'
             \/ missed + Pending(run, DueKey(i, dues[i].due))
                  <= missed' + Pending(run', DueKey(i, dues[i].due))
  <2> DEFINE g == Gone(dues[i].due, day, begun)
             p == Pending(run, DueKey(i, dues[i].due))
             q == Pending(run', DueKey(i, dues[i].due))
  <2>1. p \in {0, 1} /\ q = 0
    BY <1>1, PendingCounts DEF Pending
  <2>2. g <= missed + p /\ g \in 0 .. 3
    <3>1. dues[i].due \in Int /\ day \in Int /\ begun \in BOOLEAN
      BY <1>5, ItemDue, Calendar DEF ChecksInv, ChecksTyped, Awaits
    <3> QED
      BY <1>5, <3>1, GoneCounts DEF ChecksInv, DaysCounted
  <2>3. p = 1 => missed' = Checks!Sooner(missed)
    BY <1>2
  <2> HIDE DEF g, p, q
  <2>4. g <= missed'
    <3>1. CASE p = 0
      <4>1. g <= missed
        BY <1>3, <2>2, <3>1
      <4>2. \A n \in 0 .. 3 : missed <= n => g <= n
        BY <1>3, <2>2, <4>1
      <4> QED
        BY <1>4, <4>2
    <3>2. CASE p = 1
      <4>1. g <= missed + 1
        BY <1>3, <2>2, <3>2
      <4> QED
        BY <1>3, <2>2, <2>3, <3>2, <4>1, SoonerCounts
    <3> QED
      BY <2>1, <3>1, <3>2
  <2> QED
    BY <2>4 DEF g
<1>6. open' \subseteq asked' /\ asked' \subseteq Checks!Key /\ asked \subseteq asked'
  BY <1>1, RunAt
<1> QED
  BY <1>1, <1>3, <1>4, <1>5, <1>6, RunMoves

LEMMA ChecksStep == ChecksInv /\ Checks!Next => ChecksInv'
  BY OutsideKeeps, PlanKeeps, NextDayKeeps, StartReminderKeeps, StartCheckKeeps,
     CountGoalsKeeps, RunEnds, AskKeeps, AskFailsKeeps DEF Checks!Next

LEMMA ChecksStart == Checks!Init => ChecksInv
<1> SUFFICES ASSUME Checks!Init PROVE ChecksInv
  OBVIOUS
<1>1. day = 0 /\ 0 \in Checks!Days /\ missed \in 0 .. 3 /\ threshold \in Scores /\ counted = NULL
  BY Calendar DEF Checks!Init
<1>2. begun \in BOOLEAN /\ open \subseteq asked /\ asked \subseteq Checks!Key
  BY DEF Checks!Init
<1>3. /\ dues \in [Items -> Checks!Item \cup {NULL}] /\ \A i \in Items : dues[i] = NULL
      /\ known \in [Items -> Checks!Days] /\ \A i \in Items : known[i] <= day
  BY <1>1, Calendar DEF Checks!Init
<1>4. decisions \in [Decisions -> Checks!Decision]
  BY DEF Checks!Init, Checks!Decision
<1>5. RunOK(run, day)
  BY DEF Checks!Init, RunOK
<1>6. DaysCounted
  BY <1>3 DEF DaysCounted, Awaits
<1> QED
  BY <1>1, <1>2, <1>3, <1>4, <1>5, <1>6 DEF ChecksInv, ChecksTyped

LEMMA ChecksTypeOK == ChecksInv => Checks!TypeOK
  BY DEF ChecksInv, ChecksTyped, RunOK, Checks!Run, Checks!TypeOK

\* By the day an item is due, the three days to ask on are behind.
LEMMA ChecksReminded == ChecksInv => Checks!Reminded
<1> SUFFICES ASSUME ChecksInv, NEW i \in Items,
                    dues[i] # NULL, known[i] < dues[i].due - 7, day >= dues[i].due,
                    missed < 3, run = NULL, DueKey(i, dues[i].due) \notin asked
             PROVE  FALSE
  BY DEF Checks!Reminded, DueKey
<1>1. dues[i].due \in Int /\ day \in Int /\ begun \in BOOLEAN /\ missed \in 0 .. 3
  BY ItemDue, Calendar DEF ChecksInv, ChecksTyped
<1>2. Gone(dues[i].due, day, begun) = 3
  BY <1>1, GoneCounts
<1>3. Pending(run, DueKey(i, dues[i].due)) = 0
  BY DEF Pending
<1>4. Gone(dues[i].due, day, begun) <= missed + Pending(run, DueKey(i, dues[i].due))
  BY DEF ChecksInv, DaysCounted, Awaits
<1> QED
  BY <1>1, <1>2, <1>3, <1>4

\* An item whose date was set more than a week ahead and then left has been asked about by
\* the day it is due, whatever the family changes beside it, unless the reminder failed or
\* did not run on its three days: for any number of items, over any number of days
\* (send_due_soon_summary).
THEOREM RemindersAreAsked == MCSpec => []Reminded
<1>1. MCInit => ChecksInv
  BY ChecksStart DEF MCInit
<1>2. ChecksInv /\ [MCNext]_<<part, vars, checkVars, planVars>> => ChecksInv'
  <2> SUFFICES ASSUME ChecksInv, [MCNext]_<<part, vars, checkVars, planVars>>
               PROVE  ChecksInv'
    OBVIOUS
  <2>1. CASE Checks!Next
    BY <2>1, ChecksStep
  <2>2. CASE UNCHANGED checkVars
    BY <2>2 DEF checkVars, ChecksInv, ChecksTyped, DaysCounted, Awaits
  <2> QED
    BY <2>1, <2>2 DEF MCNext
<1>3. ChecksInv => Reminded
  BY ChecksTypeOK, ChecksReminded DEF Reminded
<1> QED
  BY <1>1, <1>2, <1>3, PTL DEF MCSpec

---------------------------------------------------------------------------
(* Plans.  Of a request in progress, the invariant says what it read and   *)
(* what it will write: a transaction nothing overtook still describes the  *)
(* plan it read, and only a complete plan is to become active.             *)

PlanRequests ==
  [op : {"plan"}, was : Plans!Plan, next : Plans!Plan, rewrites : BOOLEAN, overtaken : BOOLEAN]

\* A transaction nothing overtook read the plan as it is; one that leaves the rows of
\* participants alone changes no more than the status.
PlanRequestOK(r, p) ==
  /\ r.op = "plan" /\ r \in PlanRequests
  /\ p # NULL
  /\ ~ r.overtaken => r.was = p
  /\ r.next.status = "active" => Plans!MissingFields(r.next) = {}
  /\ ~ r.rewrites => r.next.schedule = r.was.schedule /\ r.next.people = r.was.people

\* What a reconcile found of the instances it means to mark as missed.
Found == UNION {[S -> {"scheduled"}] : S \in SUBSET Plans!Times}

ReconcileRequests ==
  [op : {"reconcile"}, was : Found, new : SUBSET Plans!Times, overtaken : BOOLEAN]

CheckinRequests ==
  [op : {"checkin"}, time : Plans!Times, status : Plans!InstanceStatus,
   was : Plans!InstanceStatus]

RequestOK(r, p) ==
  \/ r = NULL
  \/ r = Plans!Due
  \/ PlanRequestOK(r, p)
  \/ r \in ReconcileRequests
  \/ r \in CheckinRequests

Requests ==
  /\ session = [s \in Sessions |-> session[s]]
  /\ \A s \in Sessions : RequestOK(session[s], plan)

Marks == Plans!InstanceStatus \cup {NULL}

PlanRows ==
  /\ plan = NULL \/ plan \in Plans!Plan
  /\ instances \in [Plans!Times -> Marks]
  /\ checkins \in [Plans!Times -> Marks]
  /\ now \in 0 .. MaxTime /\ raced \in BOOLEAN /\ overwritten \subseteq Plans!Times

PlansInv == PlanRows /\ Requests /\ Plans!ActiveComplete /\ Plans!CheckinStands

LEMMA PlanConstants ==
  /\ \A e \in Edits : /\ e.status \in Plans!PlanStatus \cup {NULL}
                      /\ e.schedule \in Plans!Schedule \cup {NULL}
                      /\ e.people \in (SUBSET Persons) \cup {NULL}
  /\ Answers \subseteq Plans!InstanceStatus
  /\ NULL \notin Plans!InstanceStatus /\ NULL \notin Plans!Plan
  /\ MaxTime \in Nat
  BY PlansAssumption DEF Plans!PlanningAssumption

\* What a plan lacks is a matter of its people and its schedule.
LEMMA SameMissing ==
  ASSUME NEW p, NEW q, p.people = q.people, p.schedule = q.schedule
  PROVE  Plans!MissingFields(p) = Plans!MissingFields(q)
  BY DEF Plans!MissingFields

LEMMA OccurrencesAreTimes ==
  ASSUME NEW sc \in Plans!Schedule
  PROVE  Plans!Occurrences(sc) \subseteq Plans!Times
<1> DEFINE first == IF sc.start > Plans!Today THEN sc.start ELSE Plans!Today
<1>1. Plans!Occurrences(sc) =
        {2 * d + sc.half : d \in {x \in Plans!Days :
           Plans!Falls(sc, x) /\ x >= first /\ x < first + Window}}
  BY DEF Plans!Occurrences
<1>2. sc.half \in 0 .. 1
  BY DEF Plans!Schedule
<1>3. Plans!Horizon \in Int
  BY PlansAssumption DEF Plans!PlanningAssumption, Plans!Horizon
<1> HIDE DEF first
<1>4. ASSUME NEW d \in Plans!Days PROVE 2 * d + sc.half \in Plans!Times
  BY <1>2, <1>3 DEF Plans!Days, Plans!Times
<1> QED
  BY <1>1, <1>4

\* A request that takes its next step leaves the others what they were.
LEMMA RequestMoves ==
  ASSUME Requests, NEW s \in Sessions, NEW r, RequestOK(r, plan),
         session' = [session EXCEPT ![s] = r], plan' = plan
  PROVE  Requests'
<1>1. session' = [t \in Sessions |-> IF t = s THEN r ELSE session[t]]
  BY DEF Requests
<1>2. \A t \in Sessions : RequestOK(session'[t], plan')
  BY <1>1 DEF Requests
<1> QED
  BY <1>1, <1>2 DEF Requests

LEMMA Resting == ASSUME NEW p PROVE RequestOK(NULL, p) /\ RequestOK(Plans!Due, p)
  BY DEF RequestOK

\* A commit overtakes what read the plan before it.
LEMMA Overtaken ==
  ASSUME Requests, NEW s \in Sessions, NEW r, NEW p, p # NULL, r \in {NULL, Plans!Due},
         session' = [Plans!Overtake(s) EXCEPT ![s] = r], plan' = p
  PROVE  Requests'
<1>1. session' = [t \in Sessions |-> IF t = s THEN r ELSE Plans!Overtake(s)[t]]
  BY DEF Plans!Overtake
<1>2. ASSUME NEW t \in Sessions, t # s PROVE RequestOK(session'[t], p)
  <2>1. RequestOK(session[t], plan)
    BY DEF Requests
  <2>2. session'[t] = Plans!Overtake(s)[t]
    BY <1>1, <1>2
  <2>3. Plans!Overtake(s)[t] =
          IF session[t] # NULL /\ t # s /\ session[t].op \in {"plan", "reconcile"}
          THEN [session[t] EXCEPT !.overtaken = TRUE] ELSE session[t]
    BY DEF Plans!Overtake
  <2>4. CASE session[t] \in {NULL, Plans!Due} \/ session[t] \in CheckinRequests
    <3>1. session[t] = NULL \/ session[t].op \notin {"plan", "reconcile"}
      BY <2>4 DEF Plans!Due, CheckinRequests
    <3>2. session'[t] = session[t]
      BY <2>2, <2>3, <3>1
    <3> QED
      BY <2>4, <3>2 DEF RequestOK
  <2>5. CASE PlanRequestOK(session[t], plan)
    <3>1. session[t] \in PlanRequests /\ session[t].op = "plan"
      BY <2>5 DEF PlanRequestOK
    <3>2. (session'[t] = session[t] /\ session[t] = NULL)
            \/ session'[t] = [session[t] EXCEPT !.overtaken = TRUE]
      BY <1>2, <2>2, <2>3, <3>1
    <3>3. ASSUME session'[t] = [session[t] EXCEPT !.overtaken = TRUE]
          PROVE  PlanRequestOK(session'[t], p)
      <4> DEFINE q == [session[t] EXCEPT !.overtaken = TRUE]
      <4>1. /\ q \in PlanRequests /\ q.op = "plan" /\ q.overtaken
            /\ q.was = session[t].was /\ q.next = session[t].next
            /\ q.rewrites = session[t].rewrites
        BY <3>1 DEF PlanRequests
      <4> HIDE DEF q
      <4>2. PlanRequestOK(q, p)
        BY <2>5, <4>1 DEF PlanRequestOK
      <4> QED
        BY <3>3, <4>2 DEF q
    <3> QED
      BY <3>2, <3>3, Resting DEF RequestOK
  <2>6. CASE session[t] \in ReconcileRequests
    <3>1. session[t] \in ReconcileRequests /\ session[t].op = "reconcile"
      BY <2>6 DEF ReconcileRequests
    <3>2. (session'[t] = session[t] /\ session[t] = NULL)
            \/ session'[t] = [session[t] EXCEPT !.overtaken = TRUE]
      BY <1>2, <2>2, <2>3, <3>1
    <3>3. ASSUME session'[t] = [session[t] EXCEPT !.overtaken = TRUE]
          PROVE  session'[t] \in ReconcileRequests
      <4> DEFINE q == [session[t] EXCEPT !.overtaken = TRUE]
      <4>1. q \in ReconcileRequests
        BY <2>6 DEF ReconcileRequests
      <4> HIDE DEF q
      <4> QED
        BY <3>3, <4>1 DEF q
    <3> QED
      BY <3>2, <3>3, Resting DEF RequestOK
  <2> QED
    BY <2>1, <2>4, <2>5, <2>6 DEF RequestOK
<1>3. RequestOK(session'[s], p)
  BY <1>1, Resting
<1> QED
  BY <1>1, <1>2, <1>3 DEF Requests

\* What a request in progress will write.
LEMMA PlanRequest ==
  ASSUME Requests, NEW s \in Sessions, session[s] # NULL, session[s].op = "plan"
  PROVE  PlanRequestOK(session[s], plan)
<1>1. RequestOK(session[s], plan)
  BY DEF Requests
<1> QED
  BY <1>1 DEF RequestOK, Plans!Due, ReconcileRequests, CheckinRequests

LEMMA ReconcileRequest ==
  ASSUME Requests, NEW s \in Sessions, session[s] # NULL, session[s].op = "reconcile"
  PROVE  session[s] \in ReconcileRequests
<1>1. RequestOK(session[s], plan)
  BY DEF Requests
<1> QED
  BY <1>1 DEF RequestOK, Plans!Due, PlanRequestOK, CheckinRequests

LEMMA CheckinRequest ==
  ASSUME Requests, NEW s \in Sessions, session[s] # NULL, session[s].op = "checkin"
  PROVE  session[s] \in CheckinRequests
<1>1. RequestOK(session[s], plan)
  BY DEF Requests
<1> QED
  BY <1>1 DEF RequestOK, Plans!Due, PlanRequestOK, ReconcileRequests

\* A step that writes nothing but requests.
LEMMA RowsStay ==
  ASSUME PlansInv, UNCHANGED <<Plans!rows, Plans!history>>, now' \in 0 .. MaxTime, Requests'
  PROVE  PlansInv'
  BY DEF PlansInv, PlanRows, Plans!rows, Plans!history, Plans!ActiveComplete,
         Plans!CheckinStands

LEMMA CreateKeeps ==
  ASSUME PlansInv, NEW s \in Sessions, Plans!CreatePlan(s)
  PROVE  PlansInv'
<1> DEFINE row(e) == [status |-> Plans!Or(e.status, "draft"),
                      schedule |-> e.schedule, people |-> e.people]
<1>1. PICK e \in Edits :
        /\ plan = NULL /\ session[s] = NULL
        /\ NULL \notin {e.schedule, e.people}
        /\ row(e).status = "active" => Plans!MissingFields(row(e)) = {}
        /\ plan' = row(e)
        /\ session' = [session EXCEPT ![s] =
                         IF row(e).status = "active" THEN Plans!Due ELSE NULL]
        /\ UNCHANGED <<instances, checkins, now, Plans!history>>
  BY DEF Plans!CreatePlan
<1>2. row(e) \in Plans!Plan
  BY <1>1, PlanConstants DEF Plans!Plan, Plans!Or, Plans!PlanStatus
<1> HIDE DEF row
<1> DEFINE next == IF row(e).status = "active" THEN Plans!Due ELSE NULL
<1>3. session' = [t \in Sessions |-> IF t = s THEN next ELSE session[t]]
  BY <1>1 DEF PlansInv, Requests
<1>4. ASSUME NEW t \in Sessions PROVE RequestOK(session'[t], plan')
  <2>1. RequestOK(session[t], NULL)
    BY <1>1 DEF PlansInv, Requests
  <2>2. RequestOK(session[t], plan')
    BY <2>1 DEF RequestOK, PlanRequestOK
  <2> QED
    BY <1>3, <2>2, Resting
<1>5. Requests'
  BY <1>3, <1>4 DEF Requests
<1>6. Plans!ActiveComplete'
  BY <1>1 DEF Plans!ActiveComplete
<1>7. Plans!CheckinStands'
  BY <1>1 DEF PlansInv, Plans!CheckinStands, Plans!history
<1> QED
  BY <1>1, <1>2, <1>5, <1>6, <1>7 DEF PlansInv, PlanRows, Plans!history

\* A request that begins to change the plan.
LEMMA BeginKeeps ==
  ASSUME PlansInv, NEW s \in Sessions, NEW next, NEW rewrites \in BOOLEAN,
         plan # NULL, next \in Plans!Plan,
         next.status = "active" => Plans!MissingFields(next) = {},
         ~ rewrites => next.schedule = plan.schedule /\ next.people = plan.people,
         Plans!Change(s, next, rewrites)
  PROVE  PlansInv'
<1> DEFINE r == [op |-> "plan", was |-> plan, next |-> next, rewrites |-> rewrites,
                 overtaken |-> FALSE]
<1>1. /\ session' = [session EXCEPT ![s] = r]
      /\ UNCHANGED <<Plans!rows, now, Plans!history>>
  BY DEF Plans!Change
<1>2. r \in PlanRequests
  BY DEF PlanRequests, PlansInv, PlanRows
<1>3. /\ r.op = "plan" /\ r.was = plan /\ r.next = next /\ r.rewrites = rewrites
      /\ r.overtaken = FALSE
  OBVIOUS
<1> HIDE DEF r
<1>4. RequestOK(r, plan)
  BY <1>2, <1>3 DEF RequestOK, PlanRequestOK
<1>5. plan' = plan /\ now' = now
  BY <1>1 DEF Plans!rows
<1>6. Requests'
  BY <1>1, <1>4, <1>5, RequestMoves DEF PlansInv
<1> QED
  BY <1>1, <1>5, <1>6, RowsStay DEF PlansInv, PlanRows

LEMMA BeginUpdateKeeps ==
  ASSUME PlansInv, NEW s \in Sessions, Plans!BeginUpdate(s)
  PROVE  PlansInv'
<1> DEFINE status(e) == Plans!Or(e.status, plan.status)
           next(e) == [status |-> status(e), schedule |-> Plans!Or(e.schedule, plan.schedule),
                       people |-> Plans!Or(e.people, plan.people)]
<1>1. PICK e \in Edits : /\ plan # NULL
                         /\ status(e) = "active" => Plans!MissingFields(next(e)) = {}
                         /\ Plans!Change(s, next(e), TRUE)
  BY DEF Plans!BeginUpdate
<1>2. plan \in Plans!Plan
  BY <1>1 DEF PlansInv, PlanRows
<1>3. next(e) \in Plans!Plan /\ next(e).status = status(e)
  BY <1>2, PlanConstants DEF Plans!Plan, Plans!Or
<1> HIDE DEF next, status
<1> QED
  BY <1>1, <1>3, BeginKeeps

LEMMA BeginStatusKeeps ==
  ASSUME PlansInv, NEW s \in Sessions,
         Plans!BeginActivate(s) \/ Plans!BeginPause(s) \/ Plans!BeginArchive(s)
  PROVE  PlansInv'
<1>1. plan # NULL /\ plan \in Plans!Plan
  BY DEF PlansInv, PlanRows, Plans!BeginActivate, Plans!BeginPause, Plans!BeginArchive
<1>2. PICK status \in Plans!PlanStatus :
        /\ status = "active" => Plans!MissingFields(plan) = {}
        /\ Plans!Change(s, [plan EXCEPT !.status = status], FALSE)
  BY DEF Plans!BeginActivate, Plans!BeginPause, Plans!BeginArchive, Plans!PlanStatus
<1> DEFINE next == [plan EXCEPT !.status = status]
<1>3. /\ next \in Plans!Plan /\ next.status = status
      /\ next.schedule = plan.schedule /\ next.people = plan.people
  BY <1>1 DEF Plans!Plan
<1>4. Plans!Change(s, next, FALSE)
  BY <1>2
<1> HIDE DEF next
<1>5. Plans!MissingFields(next) = Plans!MissingFields(plan)
  BY <1>3, SameMissing
<1> QED
  BY <1>1, <1>2, <1>3, <1>4, <1>5, BeginKeeps

LEMMA CommitPlanKeeps ==
  ASSUME PlansInv, NEW s \in Sessions, Plans!CommitPlan(s)
  PROVE  PlansInv'
<1> DEFINE r == session[s]
           merged == Plans!Merged(r)
<1>1. /\ r # NULL /\ r.op = "plan"
      /\ plan' = merged
      /\ raced' = (r.overtaken \/ (raced /\ r.next.status # "active"))
      /\ session' = [Plans!Overtake(s) EXCEPT ![s] =
           IF merged.status = "active" THEN Plans!Due ELSE NULL]
      /\ UNCHANGED <<instances, checkins, now, overwritten>>
  BY DEF Plans!CommitPlan
<1>2. PlanRequestOK(r, plan)
  BY <1>1, PlanRequest DEF PlansInv
<1> HIDE DEF r
<1>3. r \in PlanRequests /\ plan \in Plans!Plan
  BY <1>2 DEF PlanRequestOK, PlansInv, PlanRows
<1>4. /\ merged.status = IF r.next.status # r.was.status THEN r.next.status ELSE plan.status
      /\ merged.schedule =
           IF r.next.schedule # r.was.schedule THEN r.next.schedule ELSE plan.schedule
      /\ merged.people =
           IF r.rewrites THEN (plan.people \ r.was.people) \cup r.next.people ELSE plan.people
      /\ merged = [status |-> merged.status, schedule |-> merged.schedule,
                   people |-> merged.people]
  BY DEF Plans!Merged
<1>5. merged.status \in Plans!PlanStatus /\ merged.schedule \in Plans!Schedule
  BY <1>3, <1>4 DEF PlanRequests, Plans!Plan
<1>6. merged.people \in SUBSET Persons
  BY <1>3, <1>4 DEF PlanRequests, Plans!Plan
<1>7. merged \in Plans!Plan
  BY <1>4, <1>5, <1>6 DEF Plans!Plan
<1>8. ASSUME ~ r.overtaken
      PROVE  /\ merged.status = r.next.status
             /\ Plans!MissingFields(merged) = Plans!MissingFields(r.next)
  <2>1. r.was = plan
    BY <1>2, <1>8 DEF PlanRequestOK
  <2>2. merged.status = r.next.status /\ merged.schedule = r.next.schedule
    BY <1>4, <2>1
  <2>3. ~ r.rewrites => r.next.people = r.was.people
    BY <1>2 DEF PlanRequestOK
  <2>4. r.rewrites \in BOOLEAN /\ plan.people \ r.was.people = {}
    BY <1>3, <2>1 DEF PlanRequests
  <2>5. merged.people = r.next.people
    BY <1>4, <2>1, <2>3, <2>4
  <2> QED
    BY <2>2, <2>5, SameMissing
<1> HIDE DEF merged
<1>9. raced' = FALSE => ~ r.overtaken
  BY <1>1
<1>10. raced' \in BOOLEAN
  BY <1>1, <1>3 DEF PlanRequests
<1>11. Plans!ActiveComplete'
  <2> SUFFICES ASSUME plan'.status = "active", ~ raced'
               PROVE  Plans!MissingFields(plan') = {}
    BY DEF Plans!ActiveComplete
  <2>1. ~ r.overtaken
    BY <1>1
  <2> QED
    BY <1>1, <1>2, <1>8, <2>1 DEF PlanRequestOK
<1>12. merged # NULL
  BY <1>7, PlanConstants
<1> DEFINE left == IF merged.status = "active" THEN Plans!Due ELSE NULL
<1>13. Requests'
  <2>1. left \in {NULL, Plans!Due} /\ session' = [Plans!Overtake(s) EXCEPT ![s] = left]
    BY <1>1
  <2> HIDE DEF left
  <2> QED
    BY <1>1, <1>12, <2>1, Overtaken DEF PlansInv
<1>14. Plans!CheckinStands'
  BY <1>1 DEF PlansInv, Plans!CheckinStands
<1> QED
  BY <1>1, <1>7, <1>10, <1>11, <1>13, <1>14 DEF PlansInv, PlanRows

\* reconcile_plan_instances, for every route that reconciles.
LEMMA BeginReconcileKeeps ==
  ASSUME PlansInv, NEW s \in Sessions, Plans!BeginReconcile(s)
  PROVE  PlansInv'
<1> DEFINE lapsed == {t \in Plans!Times : instances[t] = "scheduled" /\ t < now}
           new == {t \in Plans!Occurrences(plan.schedule) : instances[t] = NULL}
           found == [t \in lapsed |-> instances[t]]
           r == [op |-> "reconcile", was |-> found, new |-> new, overtaken |-> FALSE]
           next == IF plan # NULL /\ plan.status = "active" /\ lapsed \cup new # {}
                   THEN r ELSE NULL
<1>1. /\ session' = [session EXCEPT ![s] = next]
      /\ UNCHANGED <<Plans!rows, now, Plans!history>>
  BY DEF Plans!BeginReconcile, Plans!Reconcile
<1>2. ASSUME plan # NULL PROVE RequestOK(r, plan)
  <2>1. plan.schedule \in Plans!Schedule
    BY <1>2 DEF PlansInv, PlanRows, Plans!Plan
  <2>2. new \in SUBSET Plans!Times
    BY <2>1, OccurrencesAreTimes
  <2>3. found \in [lapsed -> {"scheduled"}] /\ lapsed \in SUBSET Plans!Times
    OBVIOUS
  <2> HIDE DEF lapsed, new, found
  <2>4. found \in Found
    BY <2>3 DEF Found
  <2>5. r \in ReconcileRequests
    BY <2>2, <2>4 DEF ReconcileRequests
  <2> QED
    BY <2>5 DEF RequestOK
<1>3. next = NULL \/ (plan # NULL /\ next = r)
  OBVIOUS
<1> HIDE DEF r, next
<1>4. RequestOK(next, plan)
  BY <1>2, <1>3, Resting
<1>5. plan' = plan /\ now' = now
  BY <1>1 DEF Plans!rows
<1>6. Requests'
  BY <1>1, <1>4, <1>5, RequestMoves DEF PlansInv
<1> QED
  BY <1>1, <1>5, <1>6, RowsStay DEF PlansInv, PlanRows

LEMMA CommitReconcileKeeps ==
  ASSUME PlansInv, NEW s \in Sessions, Plans!CommitReconcile(s)
  PROVE  PlansInv'
<1> DEFINE r == session[s]
<1>1. /\ r # NULL /\ r.op = "reconcile"
      /\ \A t \in r.new : instances[t] = NULL
      /\ instances' = [t \in Plans!Times |-> IF t \in DOMAIN r.was THEN "missed"
                                ELSE IF t \in r.new THEN "scheduled" ELSE instances[t]]
      /\ overwritten' = overwritten \cup {t \in DOMAIN r.was : instances[t] # r.was[t]}
      /\ session' = [session EXCEPT ![s] = NULL]
      /\ UNCHANGED <<plan, checkins, now, raced>>
  BY DEF Plans!CommitReconcile
<1>2. r \in ReconcileRequests
  BY <1>1, ReconcileRequest DEF PlansInv
<1> HIDE DEF r
<1>3. /\ DOMAIN r.was \subseteq Plans!Times
      /\ \A t \in DOMAIN r.was : r.was[t] = "scheduled"
  <2>1. PICK S \in SUBSET Plans!Times : r.was \in [S -> {"scheduled"}]
    BY <1>2 DEF ReconcileRequests, Found
  <2> QED
    BY <2>1
<1>4. Requests'
  BY <1>1, Resting, RequestMoves DEF PlansInv
<1>5. instances' \in [Plans!Times -> Marks] /\ overwritten' \subseteq Plans!Times
  BY <1>1, <1>3 DEF PlansInv, PlanRows, Marks, Plans!InstanceStatus
<1>6. Plans!CheckinStands'
  <2> SUFFICES ASSUME NEW t \in Plans!Times, checkins[t] # NULL, t \notin overwritten'
               PROVE  \/ instances'[t] = checkins[t]
                      \/ checkins[t] = "scheduled" /\ instances'[t] = "missed"
    BY <1>1 DEF Plans!CheckinStands
  <2>1. \/ instances[t] = checkins[t]
        \/ checkins[t] = "scheduled" /\ instances[t] = "missed"
    BY <1>1 DEF PlansInv, Plans!CheckinStands
  <2>2. CASE t \in DOMAIN r.was
    <3>1. instances[t] = "scheduled" /\ instances'[t] = "missed"
      BY <1>1, <1>3, <2>2
    <3> QED
      BY <2>1, <3>1
  <2>3. CASE t \notin DOMAIN r.was /\ t \in r.new
    BY <1>1, <2>1, <2>3, PlanConstants DEF Plans!InstanceStatus
  <2>4. CASE t \notin DOMAIN r.was /\ t \notin r.new
    BY <1>1, <2>1, <2>4
  <2> QED
    BY <2>2, <2>3, <2>4
<1> QED
  BY <1>1, <1>4, <1>5, <1>6 DEF PlansInv, PlanRows, Plans!ActiveComplete

LEMMA BeginCheckinKeeps ==
  ASSUME PlansInv, NEW s \in Sessions, Plans!BeginCheckin(s)
  PROVE  PlansInv'
<1> DEFINE r(t, mark) == [op |-> "checkin", time |-> t, status |-> mark, was |-> instances[t]]
<1>1. PICK t \in Plans!Times, mark \in Answers :
        /\ instances[t] # NULL
        /\ session' = [session EXCEPT ![s] = r(t, mark)]
        /\ UNCHANGED <<Plans!rows, now, Plans!history>>
  BY DEF Plans!BeginCheckin
<1>2. instances[t] \in Plans!InstanceStatus
  BY <1>1 DEF PlansInv, PlanRows, Marks
<1>3. r(t, mark) \in CheckinRequests
  BY <1>2, PlanConstants DEF CheckinRequests
<1> HIDE DEF r
<1>4. RequestOK(r(t, mark), plan)
  BY <1>3 DEF RequestOK
<1>5. plan' = plan /\ now' = now
  BY <1>1 DEF Plans!rows
<1>6. Requests'
  BY <1>1, <1>4, <1>5, RequestMoves DEF PlansInv
<1> QED
  BY <1>1, <1>5, <1>6, RowsStay DEF PlansInv, PlanRows

LEMMA CommitCheckinKeeps ==
  ASSUME PlansInv, NEW s \in Sessions, Plans!CommitCheckin(s)
  PROVE  PlansInv'
<1> DEFINE r == session[s]
<1>1. /\ r # NULL /\ r.op = "checkin"
      /\ instances' = IF r.status = r.was THEN instances
                      ELSE [instances EXCEPT ![r.time] = r.status]
      /\ checkins' = [checkins EXCEPT ![r.time] = r.status]
      /\ overwritten' = IF r.status = r.was /\ instances[r.time] # r.was
                        THEN overwritten \cup {r.time} ELSE overwritten \ {r.time}
      /\ session' = [session EXCEPT ![s] = NULL]
      /\ UNCHANGED <<plan, now, raced>>
  BY DEF Plans!CommitCheckin
<1>2. r \in CheckinRequests
  BY <1>1, CheckinRequest DEF PlansInv
<1> HIDE DEF r
<1>3. r.time \in Plans!Times /\ r.status \in Marks
  BY <1>2 DEF CheckinRequests, Marks
<1>4. Requests'
  BY <1>1, Resting, RequestMoves DEF PlansInv
<1>5. /\ instances' \in [Plans!Times -> Marks] /\ checkins' \in [Plans!Times -> Marks]
      /\ overwritten' \subseteq Plans!Times
  BY <1>1, <1>3 DEF PlansInv, PlanRows
<1>6. Plans!CheckinStands'
  <2> SUFFICES ASSUME NEW t \in Plans!Times, checkins'[t] # NULL, t \notin overwritten'
               PROVE  \/ instances'[t] = checkins'[t]
                      \/ checkins'[t] = "scheduled" /\ instances'[t] = "missed"
    BY DEF Plans!CheckinStands
  <2>1. CASE t = r.time
    <3>1. checkins'[t] = r.status
      BY <1>1, <2>1 DEF PlansInv, PlanRows
    <3>2. instances'[t] = r.status
      BY <1>1, <2>1 DEF PlansInv, PlanRows
    <3> QED
      BY <3>1, <3>2
  <2>2. CASE t # r.time
    <3>1. /\ checkins'[t] = checkins[t] /\ instances'[t] = instances[t]
          /\ t \notin overwritten
      BY <1>1, <2>2 DEF PlansInv, PlanRows
    <3> QED
      BY <3>1 DEF PlansInv, Plans!CheckinStands
  <2> QED
    BY <2>1, <2>2
<1> QED
  BY <1>1, <1>4, <1>5, <1>6 DEF PlansInv, PlanRows, Plans!ActiveComplete

LEMMA RollbackKeeps ==
  ASSUME PlansInv, NEW s \in Sessions, Plans!Rollback(s)
  PROVE  PlansInv'
<1>1. /\ session' = [session EXCEPT ![s] = NULL] /\ plan' = plan /\ now' = now
      /\ UNCHANGED <<Plans!rows, Plans!history>>
  BY DEF Plans!Rollback, Plans!rows
<1>2. Requests'
  BY <1>1, Resting, RequestMoves DEF PlansInv
<1> QED
  BY <1>1, <1>2, RowsStay DEF PlansInv, PlanRows

LEMMA PlansTick == PlansInv /\ Plans!Tick => PlansInv'
<1> SUFFICES ASSUME PlansInv, Plans!Tick PROVE PlansInv'
  OBVIOUS
<1>1. /\ now < MaxTime /\ now' = now + 1 /\ session' = session /\ plan' = plan
      /\ UNCHANGED <<Plans!rows, Plans!history>>
  BY DEF Plans!Tick, Plans!rows
<1>2. now' \in 0 .. MaxTime
  BY <1>1, PlanConstants DEF PlansInv, PlanRows
<1>3. Requests'
  BY <1>1 DEF PlansInv, Requests
<1> QED
  BY <1>1, <1>2, <1>3, RowsStay

LEMMA PlansStep == PlansInv /\ Plans!Next => PlansInv'
<1> SUFFICES ASSUME PlansInv, NEW s \in Sessions,
                    \/ Plans!CreatePlan(s) \/ Plans!BeginUpdate(s) \/ Plans!BeginActivate(s)
                    \/ Plans!BeginPause(s) \/ Plans!BeginArchive(s) \/ Plans!CommitPlan(s)
                    \/ Plans!BeginReconcile(s) \/ Plans!CommitReconcile(s)
                    \/ Plans!BeginCheckin(s) \/ Plans!CommitCheckin(s)
                    \/ Plans!Rollback(s)
             PROVE  PlansInv'
  BY PlansTick DEF Plans!Next, Plans!ListPlans, Plans!GetPlan, Plans!ListInstances,
                   Plans!ReconcileChanged
<1> QED
  BY CreateKeeps, BeginUpdateKeeps, BeginStatusKeeps, CommitPlanKeeps, BeginReconcileKeeps,
     CommitReconcileKeeps, BeginCheckinKeeps, CommitCheckinKeeps, RollbackKeeps

LEMMA PlansStart == Plans!Init => PlansInv
<1> SUFFICES ASSUME Plans!Init PROVE PlansInv
  OBVIOUS
<1>1. PlanRows
  <2>1. NULL \in Marks /\ 0 \in 0 .. MaxTime
    BY PlanConstants DEF Marks
  <2>2. raced \in BOOLEAN /\ overwritten \subseteq Plans!Times
    BY DEF Plans!Init
  <2>3. instances \in [Plans!Times -> Marks] /\ checkins \in [Plans!Times -> Marks]
    BY <2>1 DEF Plans!Init
  <2> QED
    BY <2>1, <2>2, <2>3 DEF Plans!Init, PlanRows
<1>2. Requests
  BY Resting DEF Plans!Init, Requests
<1>3. Plans!ActiveComplete /\ Plans!CheckinStands
  BY DEF Plans!Init, Plans!ActiveComplete, Plans!CheckinStands
<1> QED
  BY <1>1, <1>2, <1>3 DEF PlansInv

LEMMA PlansTyped == PlansInv => Plans!TypeOK
<1> SUFFICES ASSUME PlansInv PROVE Plans!TypeOK
  OBVIOUS
<1>1. ASSUME NEW s \in Sessions
      PROVE  \/ session[s] \in {NULL, Plans!Due}
             \/ /\ session[s].op = "plan"
                /\ {session[s].was, session[s].next} \subseteq Plans!Plan
             \/ /\ session[s].op = "reconcile"
                /\ DOMAIN session[s].was \cup session[s].new \subseteq Plans!Times
             \/ session[s].op = "checkin" /\ session[s].status \in Plans!InstanceStatus
  <2>1. RequestOK(session[s], plan)
    BY DEF PlansInv, Requests
  <2>2. CASE session[s] \in ReconcileRequests
    <3>1. PICK S \in SUBSET Plans!Times : session[s].was \in [S -> {"scheduled"}]
      BY <2>2 DEF ReconcileRequests, Found
    <3> QED
      BY <2>2, <3>1 DEF ReconcileRequests
  <2> QED
    BY <2>1, <2>2 DEF RequestOK, PlanRequestOK, PlanRequests, CheckinRequests
<1> QED
  BY <1>1 DEF PlansInv, PlanRows, Marks, Plans!TypeOK

\* A plan is active only with people and a complete schedule, and what was last said of an
\* occurrence stands, for every body of PUT, every calendar and any number of requests that
\* overlap, but for what the excuses name (update_plan, activate_plan, record_checkin,
\* reconcile_plan_instances).
THEOREM PlansAreHeld == MCSpec => []PlansHold
<1>1. MCInit => PlansInv
  BY PlansStart DEF MCInit
<1>2. PlansInv /\ [MCNext]_<<part, vars, checkVars, planVars>> => PlansInv'
  <2> SUFFICES ASSUME PlansInv, [MCNext]_<<part, vars, checkVars, planVars>>
               PROVE  PlansInv'
    OBVIOUS
  <2>1. CASE Plans!Next
    BY <2>1, PlansStep
  <2>2. CASE UNCHANGED planVars
    <3>1. /\ plan' = plan /\ instances' = instances /\ checkins' = checkins
          /\ session' = session /\ now' = now /\ raced' = raced
          /\ overwritten' = overwritten
      BY <2>2 DEF planVars
    <3>2. Requests'
      BY <3>1 DEF PlansInv, Requests
    <3> QED
      BY <3>1, <3>2, RowsStay DEF PlansInv, PlanRows, Plans!rows, Plans!history
  <2> QED
    BY <2>1, <2>2 DEF MCNext
<1>3. PlansInv => PlansHold
  BY PlansTyped DEF PlansInv, PlansHold
<1> QED
  BY <1>1, <1>2, <1>3, PTL DEF MCSpec
=============================================================================
