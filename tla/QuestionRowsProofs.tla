--------------------------- MODULE QuestionRowsProofs ---------------------------
(***************************************************************************)
(* What the operations on a row of the question queue make of it, and the  *)
(* operations on the table of all of them of the table: the lemmas about   *)
(* QuestionRows that the proofs about Questions and QuestionSessions share. *)
(***************************************************************************)
EXTENDS QuestionRows, TLAPS

---------------------------------------------------------------------------
(* The ranges of the columns                                               *)

LEMMA ThresholdsNat ==
  /\ LeaseMax \in Nat /\ ExpiryMax \in Nat /\ Cooldown \in Nat
  /\ PostAnswer \in Nat /\ StaleAsked \in Nat /\ StalePending \in Nat
  BY ConstantsAssumption

LEMMA FreshAges ==
  /\ 0 \in Age(StalePending) /\ 0 \in Age(StaleAsked) /\ 0 \in Age(PostAnswer)
  /\ 0 \in Age(Cooldown)
  BY ThresholdsNat DEF Age

LEMMA StatusNames ==
  /\ "pending" \in Status /\ "asked" \in Status /\ "answered_partial" \in Status
  /\ "resolved" \in Status /\ "expired" \in Status /\ "dismissed" \in Status
  BY DEF Status

\* A timestamp of any age can be kept.
LEMMA CappedAge ==
  ASSUME NEW n \in Nat, NEW age \in Nat
  PROVE  Capped(age, n) \in Age(n)
  BY DEF Capped, Age

LEMMA CountUpAge ==
  ASSUME NEW n \in Nat, NEW age \in Age(n) \cup {NULL}
  PROVE  /\ CountUp(age, n) \in Age(n) \cup {NULL}
         /\ age # NULL => CountUp(age, n) \in Age(n)
  BY DEF CountUp, Capped, Age

LEMMA CountDownLeft ==
  ASSUME NEW n \in Nat, NEW left \in Left(n) \cup {NULL}
  PROVE  CountDown(left) \in Left(n) \cup {NULL}
  BY DEF CountDown, Left, Lapsed

---------------------------------------------------------------------------
(* Row operations keep the type of a row.                                  *)

LEMMA NewRowType ==
  ASSUME NEW k \in Keys, NEW tp \in Topics \cup {NULL}, NEW rk \in Ranks,
         NEW ex \in Left(ExpiryMax) \cup {NULL}
  PROVE  NewRow(k, tp, rk, ex) \in Row
  BY FreshAges, StatusNames DEF NewRow, Row

LEMMA UnclaimedType ==
  ASSUME NEW r \in Row
  PROVE  Unclaimed(r) \in Row
  BY DEF Row, Unclaimed

LEMMA TouchType ==
  ASSUME NEW r \in Row, NEW st \in Status
  PROVE  /\ [r EXCEPT !.updated = 0] \in Row
         /\ [r EXCEPT !.status = st, !.updated = 0] \in Row
  BY FreshAges DEF Row

LEMMA WriteTypes ==
  ASSUME NEW r \in Row
  PROVE  /\ Released(r) \in Row
         /\ Expired(r) \in Row
         /\ Superseded(r) \in Row
         /\ CleanedUp(r) \in Row
         /\ Requeued(r) \in Row
<1>1. Unclaimed(r) \in Row
  BY UnclaimedType
<1> QED
  BY <1>1, TouchType, StatusNames
  DEF Released, Expired, Superseded, CleanedUp, Requeued

LEMMA RefreshedType ==
  ASSUME NEW r \in Row, NEW tp \in Topics \cup {NULL}, NEW rk \in Ranks,
         NEW ex \in Left(ExpiryMax) \cup {NULL}
  PROVE  Refreshed(r, tp, rk, ex) \in Row
<1> DEFINE st == IF Active(r) THEN r.status ELSE "pending"
<1>1. st \in Status
  BY StatusNames DEF Row
<1> HIDE DEF st
<1>2. [r EXCEPT !.topic = tp, !.rank = rk, !.expires = ex, !.updated = 0,
                !.status = st] \in Row
  BY <1>1, FreshAges DEF Row
<1> QED
  BY <1>2 DEF Refreshed, st

LEMMA PatchedType ==
  ASSUME NEW r \in Row, NEW st \in Status \cup {NULL},
         NEW ex \in Left(ExpiryMax) \cup {NULL}
  PROVE  Patched(r, st, ex) \in Row
<1> DEFINE status == IF st = NULL THEN r.status ELSE st
           expires == IF ex = NULL THEN r.expires ELSE ex
<1>1. status \in Status /\ expires \in Left(ExpiryMax) \cup {NULL}
  BY DEF Row
<1>2. Patched(r, st, ex) =
        [r EXCEPT !.status = status, !.expires = expires, !.updated = 0]
  BY DEF Patched
<1> HIDE DEF status, expires
<1> QED
  BY <1>1, <1>2, FreshAges DEF Row

LEMMA ClaimedType ==
  ASSUME NEW r \in Row, NEW t \in Tokens, NEW c \in Channels,
         NEW l \in Left(LeaseMax)
  PROVE  Claimed(r, t, c, l) \in Row
  BY FreshAges DEF Row, Claimed

LEMMA AskedType ==
  ASSUME NEW r \in Row, NEW c \in Channels
  PROVE  Asked(r, c) \in Row
<1> DEFINE s == Unclaimed(r)
           asked == s.asked + 1
<1>1. s \in Row
  BY UnclaimedType
<1>2. asked \in Nat
  BY <1>1 DEF Row
<1>3. Asked(r, c) = [s EXCEPT !.status = "asked", !.lastAsked = 0, !.updated = 0,
                              !.asked = asked, !.lastChannel = c]
  BY DEF Asked
<1> HIDE DEF s, asked
<1> QED
  BY <1>1, <1>2, <1>3, FreshAges, StatusNames DEF Row

LEMMA AnsweredType ==
  ASSUME NEW r \in Row, NEW st \in Status, NEW ago \in Nat
  PROVE  Answered(r, st, ago) \in Row
<1> DEFINE s == Unclaimed(r)
           answered == Capped(ago, PostAnswer)
           updated == Capped(ago, StalePending)
<1>1. s \in Row
  BY UnclaimedType
<1>2. answered \in Age(PostAnswer) /\ updated \in Age(StalePending)
  BY CappedAge, ThresholdsNat
<1>3. Answered(r, st, ago) =
        [s EXCEPT !.status = st, !.answered = answered, !.updated = updated]
  BY DEF Answered
<1> HIDE DEF s, answered, updated
<1> QED
  BY <1>1, <1>2, <1>3 DEF Row

LEMMA ResolvedType ==
  ASSUME NEW r \in Row, NEW st \in Status
  PROVE  Resolved(r, st) \in Row
<1> DEFINE s == Unclaimed(r)
           answered == IF st = "resolved" /\ s.answered = NULL THEN 0 ELSE s.answered
<1>1. s \in Row
  BY UnclaimedType
<1>2. answered \in Age(PostAnswer) \cup {NULL}
  BY <1>1, FreshAges DEF Row
<1>3. Resolved(r, st) =
        [s EXCEPT !.status = st, !.updated = 0, !.answered = answered]
  BY DEF Resolved
<1> HIDE DEF s, answered
<1> QED
  BY <1>1, <1>2, <1>3, FreshAges DEF Row

LEMMA SweepTypes ==
  ASSUME NEW r \in Row
  PROVE  /\ ClaimSweep(r) \in Row
         /\ ExpireJobSweep(r) \in Row
         /\ CleanupJobSweep(r) \in Row
         /\ ExpireSweep(r) \in Row
<1>1. \A s \in Row : /\ ReleaseSweep(s) \in Row /\ ExpireSweep(s) \in Row
                     /\ CleanupSweep(s) \in Row /\ RequeueSweep(s) \in Row
  BY WriteTypes DEF ReleaseSweep, ExpireSweep, CleanupSweep, RequeueSweep
<1> QED
  BY <1>1 DEF ClaimSweep, ExpireJobSweep, CleanupJobSweep

LEMMA AgedType ==
  ASSUME NEW r \in Row
  PROVE  Aged(r) \in Row
<1>1. /\ CountDown(r.expires) \in Left(ExpiryMax) \cup {NULL}
      /\ CountDown(r.lease) \in Left(LeaseMax) \cup {NULL}
  BY CountDownLeft, ThresholdsNat DEF Row
<1>2. /\ CountUp(r.lastAsked, StaleAsked) \in Age(StaleAsked) \cup {NULL}
      /\ CountUp(r.answered, PostAnswer) \in Age(PostAnswer) \cup {NULL}
  BY CountUpAge, ThresholdsNat DEF Row
<1>3. CountUp(r.updated, StalePending) \in Age(StalePending)
  <2>1. r.updated \in Age(StalePending) /\ r.updated # NULL
    BY ConstantsAssumption, ThresholdsNat DEF Row, Age
  <2> QED
    BY <2>1, CountUpAge, ThresholdsNat
<1> QED
  BY <1>1, <1>2, <1>3 DEF Row, Aged
---------------------------------------------------------------------------
(* Table operations keep the type of the table.                            *)

Table == [Ids -> Row \cup {NULL}]

LEMMA SweptTypes ==
  ASSUME NEW table \in Table
  PROVE  /\ Swept(ClaimSweep, table) \in Table
         /\ Swept(ExpireJobSweep, table) \in Table
         /\ Swept(CleanupJobSweep, table) \in Table
         /\ Swept(ExpireSweep, table) \in Table
         /\ Swept(Aged, table) \in Table
  BY SweepTypes, AgedType DEF Swept, Table

LEMMA UpsertedType ==
  ASSUME NEW table \in Table, NEW i \in Ids, NEW row \in Row,
         NEW k, NEW tp
  PROVE  Upserted(table, i, row, k, tp) \in Table
  BY WriteTypes DEF Upserted, Rivals, RowsOf, Table

LEMMA HandedType ==
  ASSUME NEW table \in Table, NEW chosen \in SUBSET RowsOf(table),
         NEW t \in Tokens, NEW c \in Channels, NEW l \in Left(LeaseMax)
  PROVE  Handed(table, chosen, t, c, l) \in Table
  BY ClaimedType DEF Handed, RowsOf, Table

\* A sweep neither adds nor removes rows.
LEMMA SweptRows ==
  ASSUME NEW table \in Table
  PROVE  /\ RowsOf(Swept(ClaimSweep, table)) = RowsOf(table)
         /\ RowsOf(Swept(ExpireJobSweep, table)) = RowsOf(table)
         /\ RowsOf(Swept(CleanupJobSweep, table)) = RowsOf(table)
         /\ RowsOf(Swept(ExpireSweep, table)) = RowsOf(table)
         /\ RowsOf(Swept(Aged, table)) = RowsOf(table)
  BY SweepTypes, AgedType, RowAssumption DEF Swept, Table, RowsOf
=============================================================================
