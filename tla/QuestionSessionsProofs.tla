------------------------ MODULE QuestionSessionsProofs ------------------------
(***************************************************************************)
(* Proofs about QuestionSessions, for any number of overlapping            *)
(* transactions: the columns of a row agree with each other although every *)
(* transaction writes only those it found different.                       *)
(*                                                                         *)
(* The inductive invariant says what an open transaction may write: the    *)
(* claim as a whole or not at all (WriteOK), an answer or a delivery but   *)
(* never its absence, and a status only along with what goes with it, or   *)
(* to a row that has it already (UpdateOK). What a row has it keeps until  *)
(* it is deleted, and its identity is not given out again.                 *)
(***************************************************************************)
EXTENDS QuestionSessions, QuestionRowsProofs

---------------------------------------------------------------------------
(* The inductive invariant                                                 *)

ClaimColumns == {"token", "channel", "lease"}

\* The claim columns of r are there as a whole or not at all.
ClaimAgrees(r) ==
  /\ (r.token = NULL) = (r.lease = NULL)
  /\ (r.token = NULL) = (r.channel = NULL)

\* Once a row has a value in one of these it keeps one.
Lasting == {"answered", "lastAsked", "lastChannel"}

\* A write is some columns of a row, the claim among them as a whole or not at all.
WriteOK(w) ==
  /\ DOMAIN w \subseteq Columns
  /\ ClaimColumns \subseteq DOMAIN w \/ ClaimColumns \cap DOMAIN w = {}
  /\ DOMAIN w # {} =>
       \E r \in Row : ClaimAgrees(r) /\ \A c \in DOMAIN w : w[c] = r[c]

\* The row r, if it is there, has a value in column c.
Has(r, c) == r # NULL => r[c] # NULL

\* What a transaction of kind op may write to the row r with n deliveries on record.
UpdateOK(w, op, r, n) ==
  /\ \A c \in Lasting \cap DOMAIN w : w[c] # NULL
  /\ "asked" \in DOMAIN w => op = "asked" /\ w["asked"] > 0 /\ w["asked"] <= n + 1
  /\ "status" \in DOMAIN w /\ op # "set_status" =>
       /\ w["status"] = "resolved" => "answered" \in DOMAIN w \/ Has(r, "answered")
       /\ w["status"] = "asked" => /\ {"asked", "lastAsked"} \subseteq DOMAIN w
                                   /\ "lastChannel" \in DOMAIN w \/ Has(r, "lastChannel")

\* What an open transaction may write to a table whose rows have the identities `given`
\* or had them, with `count` deliveries on record.
WorkOK(work, table, given, count) ==
  /\ WorkType(work)
  /\ DOMAIN work = {"op", "writes", "insert", "delete", "token"}
  /\ \A i \in Ids : WriteOK(work.writes[i])
  /\ \A i \in Ids \ {work.insert} :
       /\ UpdateOK(work.writes[i], work.op, table[i], count[i])
       /\ DOMAIN work.writes[i] # {} => i \in given
  /\ work.insert # NULL =>
       /\ work.insert \notin given
       /\ work.writes[work.insert] \in Row
       /\ work.writes[work.insert].status = "pending"
       /\ work.writes[work.insert].asked = 0

\* The row r of identity i, of which n deliveries are on record.
RowOK(i, r, n, edited) ==
  r # NULL =>
    /\ ClaimAgrees(r) /\ r.asked <= n
    /\ i \notin edited =>
         /\ r.status = "resolved" => r.answered # NULL
         /\ r.status = "asked" => r.lastAsked # NULL /\ r.lastChannel # NULL /\ r.asked > 0

IInv ==
  /\ rows \in Table /\ sent \in [Ids -> Nat] /\ DOMAIN session = Sessions
  /\ used \subseteq Ids /\ patched \subseteq Ids
  /\ \A i \in Ids : rows[i] # NULL => i \in used
  /\ \A i \in Ids : RowOK(i, rows[i], sent[i], patched)
  /\ \A s \in Sessions : session[s] # NULL => WorkOK(session[s], rows, used, sent)
  /\ \A s, t \in Sessions : s # t /\ session[s] # NULL /\ session[t] # NULL =>
       session[s].insert = NULL \/ session[s].insert # session[t].insert

---------------------------------------------------------------------------
(* Columns of rows                                                         *)

LEMMA NoWriteColumns == DOMAIN NoWrite = {}
BY DEF NoWrite

\* A row is its columns.
LEMMA Columnwise ==
  ASSUME NEW r \in Row
  PROVE  DOMAIN r = Columns /\ r = [c \in Columns |-> r[c]]
BY DEF Row, Columns

\* A row some columns of which are those of another row is a row.
LEMMA Mixed ==
  ASSUME NEW r \in Row, NEW q \in Row, NEW f, f = [c \in Columns |-> f[c]],
         \A c \in Columns : f[c] = r[c] \/ f[c] = q[c]
  PROVE  f \in Row
BY DEF Row, Columns

\* What Over leaves and what it writes.
LEMMA Written ==
  ASSUME NEW r \in Row, NEW w, WriteOK(w)
  PROVE  /\ Over(w, r) \in Row
         /\ \A c \in Columns : Over(w, r)[c] = IF c \in DOMAIN w THEN w[c] ELSE r[c]
         /\ ClaimAgrees(r) => ClaimAgrees(Over(w, r))
<1>1. PICK q \in Row : /\ DOMAIN w # {} => ClaimAgrees(q)
                       /\ \A c \in DOMAIN w : w[c] = q[c]
  <2>1. CASE DOMAIN w = {}
    BY <2>1
  <2>2. CASE DOMAIN w # {}
    BY <2>2 DEF WriteOK
  <2>3. QED
    BY <2>1, <2>2
<1>2. PICK f : f = Over(w, r)
  OBVIOUS
<1>3. /\ f = [c \in Columns |-> f[c]]
      /\ \A c \in Columns : f[c] = IF c \in DOMAIN w THEN w[c] ELSE r[c]
  BY <1>2 DEF Over
<1>4. f \in Row
  BY <1>1, <1>3, Mixed
<1>5. ASSUME ClaimAgrees(r)
      PROVE  ClaimAgrees(f)
  <2>1. CASE ClaimColumns \subseteq DOMAIN w
    <3>1. f.token = q.token /\ f.channel = q.channel /\ f.lease = q.lease
      BY <1>1, <1>3, <2>1 DEF ClaimColumns, Columns
    <3>2. ClaimAgrees(q)
      BY <1>1, <2>1 DEF ClaimColumns
    <3>3. QED
      BY <3>1, <3>2 DEF ClaimAgrees
  <2>2. CASE ClaimColumns \cap DOMAIN w = {}
    <3>1. f.token = r.token /\ f.channel = r.channel /\ f.lease = r.lease
      BY <1>3, <2>2 DEF ClaimColumns, Columns
    <3>2. QED
      BY <1>5, <3>1 DEF ClaimAgrees
  <2>3. QED
    BY <2>1, <2>2 DEF WriteOK
<1>6. QED
  BY <1>2, <1>3, <1>4, <1>5

\* What an operation makes of row r, other than to set its status by hand: its claim
\* stays or goes, answers and deliveries stay or come, and a status comes with them.
Keeps(r, s, op) ==
  /\ s \in Row
  /\ \/ s.token = r.token /\ s.channel = r.channel /\ s.lease = r.lease
     \/ s.token = NULL /\ s.channel = NULL /\ s.lease = NULL
  /\ s.lastAsked = r.lastAsked /\ s.lastChannel = r.lastChannel /\ s.asked = r.asked
  /\ r.answered # NULL => s.answered # NULL
  /\ op = "set_status" \/ s.status = r.status
       \/ (s.status # "asked" /\ (s.status = "resolved" => s.answered # NULL))

\* What the flush of such an operation writes.
LEMMA Flushed ==
  ASSUME NEW r \in Row, ClaimAgrees(r), NEW s, NEW op, Keeps(r, s, op), NEW n,
         NEW fresh \in SUBSET {"updated", "answered"}, "answered" \in fresh => s.answered # NULL
  PROVE  WriteOK(Diff(r, s, fresh)) /\ UpdateOK(Diff(r, s, fresh), op, r, n)
<1>1. s \in Row
  BY DEF Keeps
<1>2. PICK w : w = Diff(r, s, fresh)
  OBVIOUS
<1>3. /\ DOMAIN w = {d \in Columns : r[d] # s[d]} \cup fresh
      /\ \A c \in DOMAIN w : w[c] = s[c]
  BY <1>2 DEF Diff
<1>4. ClaimAgrees(s)
  BY DEF Keeps, ClaimAgrees
<1>5. DOMAIN w \subseteq Columns
  BY <1>3 DEF Columns
<1>6. ClaimColumns \subseteq DOMAIN w \/ ClaimColumns \cap DOMAIN w = {}
  BY <1>3 DEF ClaimColumns, Columns, Keeps, ClaimAgrees
<1>7. WriteOK(w)
  BY <1>1, <1>3, <1>4, <1>5, <1>6 DEF WriteOK
<1>8. \A c \in Lasting \cap DOMAIN w : w[c] # NULL
  BY <1>3 DEF Lasting, Columns, Keeps
<1>9. "asked" \notin DOMAIN w
  BY <1>3 DEF Keeps
<1>10. ASSUME "status" \in DOMAIN w, op # "set_status"
       PROVE  /\ w["status"] # "asked"
              /\ w["status"] = "resolved" => "answered" \in DOMAIN w \/ Has(r, "answered")
  <2>1. w["status"] = s.status /\ s.status # r.status
    BY <1>3, <1>10
  <2>2. s.status # "asked" /\ (s.status = "resolved" => s.answered # NULL)
    BY <1>10, <2>1 DEF Keeps
  <2>3. "answered" \in DOMAIN w \/ r["answered"] = s.answered
    BY <1>3 DEF Columns
  <2>4. QED
    BY <2>1, <2>2, <2>3 DEF Has
<1>11. UpdateOK(w, op, r, n)
  BY <1>8, <1>9, <1>10 DEF UpdateOK
<1>12. QED
  BY <1>2, <1>7, <1>11

\* Nothing is written.
LEMMA NotWritten ==
  ASSUME NEW r, NEW op, NEW n
  PROVE  WriteOK(NoWrite) /\ UpdateOK(NoWrite, op, r, n)
BY NoWriteColumns DEF WriteOK, UpdateOK

---------------------------------------------------------------------------
(* What the operations make of a row                                       *)

LEMMA KeepsBoth ==
  ASSUME NEW r, NEW s, NEW t, NEW op, Keeps(r, s, op), Keeps(s, t, op)
  PROVE  Keeps(r, t, op)
BY DEF Keeps

\* A question whose claim is ended, along with a change of its status.
LEMMA EndedKeeps ==
  ASSUME NEW r \in Row, NEW op,
         NEW s \in {Superseded(r), Released(r), Expired(r)}
  PROVE  Keeps(r, s, op)
<1>1. s \in Row
  BY WriteTypes
<1>2. /\ s.status = r.status \/ s.status \in {"dismissed", "expired"}
      /\ s.token = NULL /\ s.channel = NULL /\ s.lease = NULL
      /\ s.lastAsked = r.lastAsked /\ s.lastChannel = r.lastChannel /\ s.asked = r.asked
      /\ s.answered = r.answered
  BY DEF Superseded, Released, Expired, Unclaimed, Row
<1>3. QED
  BY <1>1, <1>2 DEF Keeps

\* A question that is dismissed or pending again with its claim.
LEMMA RequeuedKeeps ==
  ASSUME NEW r \in Row, NEW op, NEW s \in {CleanedUp(r), Requeued(r)}
  PROVE  Keeps(r, s, op)
<1>1. s \in Row
  BY WriteTypes
<1>2. /\ s.status \in {"dismissed", "pending"}
      /\ s.token = r.token /\ s.channel = r.channel /\ s.lease = r.lease
      /\ s.lastAsked = r.lastAsked /\ s.lastChannel = r.lastChannel /\ s.asked = r.asked
      /\ s.answered = r.answered
  BY DEF CleanedUp, Requeued, Row
<1>3. QED
  BY <1>1, <1>2 DEF Keeps

\* A question that is asked for again under its key.
LEMMA RefreshedKeeps ==
  ASSUME NEW r \in Row, NEW op, NEW tp \in Topics, NEW rk \in Ranks,
         NEW ex \in Left(ExpiryMax) \cup {NULL}
  PROVE  Keeps(r, Refreshed(r, tp, rk, ex), op)
<1>1. PICK s : s = Refreshed(r, tp, rk, ex)
  OBVIOUS
<1>2. s \in Row
  BY <1>1, RefreshedType
<1>3. /\ s.status \in {r.status, "pending"}
      /\ s.token = r.token /\ s.channel = r.channel /\ s.lease = r.lease
      /\ s.lastAsked = r.lastAsked /\ s.lastChannel = r.lastChannel /\ s.asked = r.asked
      /\ s.answered = r.answered
  BY <1>1 DEF Refreshed, Row
<1>4. QED
  BY <1>1, <1>2, <1>3 DEF Keeps

\* A question that is edited, its status set by hand or not.
LEMMA PatchedKeeps ==
  ASSUME NEW r \in Row, NEW st \in Status \cup {NULL},
         NEW ex \in Left(ExpiryMax) \cup {NULL}, NEW op, st # NULL => op = "set_status"
  PROVE  Keeps(r, Patched(r, st, ex), op)
<1>1. PICK s : s = Patched(r, st, ex)
  OBVIOUS
<1>2. s \in Row
  BY <1>1, PatchedType
<1>3. /\ st = NULL => s.status = r.status
      /\ s.token = r.token /\ s.channel = r.channel /\ s.lease = r.lease
      /\ s.lastAsked = r.lastAsked /\ s.lastChannel = r.lastChannel /\ s.asked = r.asked
      /\ s.answered = r.answered
  BY <1>1 DEF Patched, Row
<1>4. QED
  BY <1>1, <1>2, <1>3 DEF Keeps

\* A question that is answered.
LEMMA AnsweredKeeps ==
  ASSUME NEW r \in Row, NEW st \in Status, st # "asked", NEW op
  PROVE  Keeps(r, Answered(r, st, 0), op) /\ Answered(r, st, 0).answered # NULL
<1>1. PICK s : s = Answered(r, st, 0)
  OBVIOUS
<1>2. s \in Row
  BY <1>1, AnsweredType
<1>3. Capped(0, PostAnswer) # NULL
  BY ThresholdsNat, ConstantsAssumption DEF Capped
<1>4. /\ s.status = st
      /\ s.token = NULL /\ s.channel = NULL /\ s.lease = NULL
      /\ s.lastAsked = r.lastAsked /\ s.lastChannel = r.lastChannel /\ s.asked = r.asked
      /\ s.answered = Capped(0, PostAnswer)
  BY <1>1 DEF Answered, Unclaimed, Row
<1>5. QED
  BY <1>1, <1>2, <1>3, <1>4 DEF Keeps

\* A question that is resolved otherwise.
LEMMA ResolvedKeeps ==
  ASSUME NEW r \in Row, NEW st \in Status, st # "asked", NEW op
  PROVE  Keeps(r, Resolved(r, st), op)
<1>1. PICK s : s = Resolved(r, st)
  OBVIOUS
<1>2. s \in Row
  BY <1>1, ResolvedType
<1>3. /\ s.status = st
      /\ s.token = NULL /\ s.channel = NULL /\ s.lease = NULL
      /\ s.lastAsked = r.lastAsked /\ s.lastChannel = r.lastChannel /\ s.asked = r.asked
      /\ s.answered = IF st = "resolved" /\ r.answered = NULL THEN 0 ELSE r.answered
  BY <1>1 DEF Resolved, Unclaimed, Row
<1>4. 0 # NULL
  BY ConstantsAssumption
<1>5. QED
  BY <1>1, <1>2, <1>3, <1>4 DEF Keeps

\* What each sweep makes of a row it meets.
LEMMA SweepsKeep ==
  ASSUME NEW r \in Row, NEW op
  PROVE  /\ Keeps(r, ReleaseSweep(r), op) /\ Keeps(r, ExpireSweep(r), op)
         /\ Keeps(r, CleanupSweep(r), op) /\ Keeps(r, RequeueSweep(r), op)
<1>1. Keeps(r, r, op)
  BY DEF Keeps
<1>2. /\ Keeps(r, Released(r), op) /\ Keeps(r, Expired(r), op)
      /\ Keeps(r, CleanedUp(r), op) /\ Keeps(r, Requeued(r), op)
  BY EndedKeeps, RequeuedKeeps
<1>3. QED
  BY <1>1, <1>2 DEF ReleaseSweep, ExpireSweep, CleanupSweep, RequeueSweep

\* What the sweeps of a claim and of the two jobs make of it.
LEMMA JobsKeep ==
  ASSUME NEW r \in Row, NEW op
  PROVE  /\ Keeps(r, ClaimSweep(r), op) /\ Keeps(r, ExpireJobSweep(r), op)
         /\ Keeps(r, CleanupJobSweep(r), op)
<1>1. ASSUME NEW a, NEW b, Keeps(a, b, op)
      PROVE  b \in Row
  BY <1>1 DEF Keeps
<1>2. Keeps(r, ClaimSweep(r), op)
  <2>1. PICK a : a = ExpireSweep(r)
    OBVIOUS
  <2>2. Keeps(r, a, op) /\ a \in Row
    BY <1>1, <2>1, SweepsKeep
  <2>3. Keeps(a, ReleaseSweep(a), op)
    BY <2>2, SweepsKeep
  <2>4. QED
    BY <2>1, <2>2, <2>3, KeepsBoth DEF ClaimSweep
<1>3. Keeps(r, ExpireJobSweep(r), op)
  <2>1. PICK a : a = ReleaseSweep(r)
    OBVIOUS
  <2>2. Keeps(r, a, op) /\ a \in Row
    BY <1>1, <2>1, SweepsKeep
  <2>3. Keeps(a, ExpireSweep(a), op)
    BY <2>2, SweepsKeep
  <2>4. QED
    BY <2>1, <2>2, <2>3, KeepsBoth DEF ExpireJobSweep
<1>4. Keeps(r, CleanupJobSweep(r), op)
  <2>1. PICK a : a = CleanupSweep(r)
    OBVIOUS
  <2>2. PICK b : b = ReleaseSweep(a)
    OBVIOUS
  <2>3. PICK d : d = ExpireSweep(b)
    OBVIOUS
  <2>4. Keeps(r, a, op) /\ a \in Row
    BY <1>1, <2>1, SweepsKeep
  <2>5. Keeps(a, b, op) /\ b \in Row
    BY <1>1, <2>2, <2>4, SweepsKeep
  <2>6. Keeps(b, d, op) /\ d \in Row
    BY <1>1, <2>3, <2>5, SweepsKeep
  <2>7. Keeps(d, RequeueSweep(d), op)
    BY <2>6, SweepsKeep
  <2>8. Keeps(r, d, op)
    BY <2>4, <2>5, <2>6, KeepsBoth
  <2>9. Keeps(r, RequeueSweep(d), op)
    BY <2>7, <2>8, KeepsBoth
  <2>10. QED
    BY <2>1, <2>2, <2>3, <2>9 DEF CleanupJobSweep
<1>5. QED
  BY <1>2, <1>3, <1>4

---------------------------------------------------------------------------
(* What a transaction writes as it begins                                  *)

Kinds == {"create", "update", "patch", "set_status", "claim", "asked", "answer", "resolve",
          "delete", "sweep"}

LEMMA PresentRow ==
  ASSUME IInv, NEW i \in Ids, rows[i] # NULL
  PROVE  /\ rows[i] \in Row /\ ClaimAgrees(rows[i]) /\ i \in used
         /\ sent[i] \in Nat /\ rows[i].asked <= sent[i]
BY DEF IInv, Table, RowOK

\* Every identity of an open transaction is one of a row, but for that of its insert.
LEMMA Begun ==
  ASSUME IInv, NEW s \in Sessions, NEW work, Begin(s, work),
         WorkOK(work, rows, used, sent),
         \A u \in Sessions : session[u] # NULL /\ work.insert # NULL =>
                               session[u].insert # work.insert
  PROVE  IInv'
<1>1. /\ session' = [session EXCEPT ![s] = work] /\ DOMAIN session = Sessions
      /\ rows' = rows /\ used' = used /\ sent' = sent /\ patched' = patched
  BY DEF Begin, IInv
<1>2. ASSUME NEW u \in Sessions, session'[u] # NULL
      PROVE  WorkOK(session'[u], rows', used', sent')
  <2>1. session'[u] = work \/ session'[u] = session[u]
    BY <1>1
  <2>2. QED
    BY <1>1, <1>2, <2>1 DEF IInv
<1>3. ASSUME NEW t \in Sessions, NEW u \in Sessions, t # u,
             session'[t] # NULL, session'[u] # NULL
      PROVE  session'[t].insert = NULL \/ session'[t].insert # session'[u].insert
  <2>1. CASE t = s
    <3>1. session'[t] = work /\ session'[u] = session[u]
      BY <1>1, <1>3, <2>1
    <3>2. QED
      BY <1>3, <3>1
  <2>2. CASE u = s
    <3>1. session'[u] = work /\ session'[t] = session[t]
      BY <1>1, <1>3, <2>2
    <3>2. QED
      BY <1>3, <3>1
  <2>3. CASE t # s /\ u # s
    <3>1. session'[u] = session[u] /\ session'[t] = session[t]
      BY <1>1, <1>3, <2>3
    <3>2. QED
      BY <1>3, <3>1 DEF IInv
  <2>4. QED
    BY <2>1, <2>2, <2>3
<1>4. DOMAIN session' = Sessions
  BY <1>1
<1>5. QED
  BY <1>1, <1>2, <1>3, <1>4 DEF IInv

\* A transaction that inserts nothing writes rows that are there.
LEMMA WriteBegun ==
  ASSUME IInv, NEW s \in Sessions, NEW op \in Kinds, NEW writes, NEW gone \in SUBSET Ids,
         NEW t \in Tokens \cup {NULL},
         Begin(s, [op |-> op, writes |-> writes, insert |-> NULL, delete |-> gone, token |-> t]),
         \A i \in Ids : \/ writes[i] = NoWrite
                        \/ /\ rows[i] # NULL /\ WriteOK(writes[i])
                           /\ UpdateOK(writes[i], op, rows[i], sent[i])
  PROVE  IInv'
<1>1. PICK work : work = [op |-> op, writes |-> writes, insert |-> NULL, delete |-> gone,
                          token |-> t]
  OBVIOUS
<1>2. /\ work.op = op /\ work.writes = writes /\ work.insert = NULL /\ work.delete = gone
      /\ work.token = t /\ DOMAIN work = {"op", "writes", "insert", "delete", "token"}
  BY <1>1
<1>3. ASSUME NEW i \in Ids
      PROVE  /\ WriteOK(writes[i]) /\ UpdateOK(writes[i], op, rows[i], sent[i])
             /\ DOMAIN writes[i] # {} => i \in used
  BY NotWritten, NoWriteColumns, PresentRow
<1>4. WorkType(work)
  BY <1>2, <1>3 DEF WorkType, WriteOK, Kinds
<1>5. WorkOK(work, rows, used, sent)
  BY <1>2, <1>3, <1>4 DEF WorkOK
<1>6. QED
  BY <1>1, <1>2, <1>5, Begun

\* A transaction that writes one row.
LEMMA RowBegun ==
  ASSUME IInv, NEW s \in Sessions, NEW op \in Kinds, NEW i \in Ids, rows[i] # NULL, NEW w,
         NEW t \in Tokens \cup {NULL},
         Begin(s, [op |-> op, writes |-> Only(i, w), insert |-> NULL, delete |-> {}, token |-> t]),
         WriteOK(w), UpdateOK(w, op, rows[i], sent[i])
  PROVE  IInv'
<1>1. PICK writes : writes = Only(i, w)
  OBVIOUS
<1>2. \A j \in Ids : writes[j] = IF j = i THEN w ELSE NoWrite
  BY <1>1 DEF Only
<1>3. \A j \in Ids : \/ writes[j] = NoWrite
                     \/ /\ rows[j] # NULL /\ WriteOK(writes[j])
                        /\ UpdateOK(writes[j], op, rows[j], sent[j])
  BY <1>2
<1>4. QED
  BY <1>1, <1>3, WriteBegun

\* What the flush of an operation that keeps a row writes.
LEMMA RowFlushed ==
  ASSUME IInv, NEW i \in Ids, rows[i] # NULL, NEW q, NEW op, Keeps(rows[i], q, op),
         NEW fresh \in SUBSET {"updated", "answered"}, "answered" \in fresh => q.answered # NULL
  PROVE  /\ WriteOK(Diff(rows[i], q, fresh))
         /\ UpdateOK(Diff(rows[i], q, fresh), op, rows[i], sent[i])
<1>1. rows[i] \in Row /\ ClaimAgrees(rows[i])
  BY PresentRow
<1>2. QED
  BY <1>1, Flushed

\* The rows a written question supersedes.
LEMMA RivalsFlushed ==
  ASSUME IInv, NEW i \in Ids, NEW k, NEW tp, NEW op, NEW j \in Ids
  PROVE  \/ SupersededWrites(i, k, tp)[j] = NoWrite
         \/ /\ rows[j] # NULL /\ WriteOK(SupersededWrites(i, k, tp)[j])
            /\ UpdateOK(SupersededWrites(i, k, tp)[j], op, rows[j], sent[j])
<1>1. SupersededWrites(i, k, tp)[j] = IF j \in Rivals(rows, i, k, tp)
                                      THEN Diff(rows[j], Superseded(rows[j]), {"updated"})
                                      ELSE NoWrite
  BY DEF SupersededWrites
<1>2. CASE j \in Rivals(rows, i, k, tp)
  <2>1. rows[j] # NULL
    BY <1>2 DEF Rivals, RowsOf
  <2>2. Keeps(rows[j], Superseded(rows[j]), op)
    BY <2>1, PresentRow, EndedKeeps
  <2>3. QED
    BY <1>1, <1>2, <2>1, <2>2, RowFlushed
<1>3. QED
  BY <1>1, <1>2

---------------------------------------------------------------------------
(* Each request begins                                                     *)

LEMMA CreateBegun ==
  ASSUME IInv, NEW s \in Sessions, NEW k \in Keys, NEW tp \in Topics, NEW rk \in Ranks,
         NEW ex \in ExpiryInputs, BeginCreate(s, k, tp, rk, ex)
  PROVE  IInv'
<1>1. PICK i \in Ids \ used :
        /\ \A u \in Sessions : session[u] # NULL => session[u].insert # i
        /\ Begin(s, [Work("create", [SupersededWrites(i, k, tp) EXCEPT ![i] = NewRow(k, tp, rk, ex)])
                       EXCEPT !.insert = i])
  BY DEF BeginCreate
<1>2. PICK new : new = NewRow(k, tp, rk, ex)
  OBVIOUS
<1>3. /\ new \in Row /\ new.status = "pending" /\ new.asked = 0 /\ ClaimAgrees(new)
      /\ DOMAIN new = Columns
  <2>1. new \in Row
    BY <1>2, NewRowType, InputsAssumption
  <2>2. /\ new.status = "pending" /\ new.asked = 0
        /\ new.token = NULL /\ new.channel = NULL /\ new.lease = NULL
    BY <1>2 DEF NewRow
  <2>3. QED
    BY <2>1, <2>2, Columnwise DEF ClaimAgrees
<1>4. PICK writes : writes = [SupersededWrites(i, k, tp) EXCEPT ![i] = new]
  OBVIOUS
<1>5. /\ writes[i] = new
      /\ \A j \in Ids \ {i} : writes[j] = SupersededWrites(i, k, tp)[j]
  BY <1>4 DEF SupersededWrites
<1>6. PICK work : work = [op |-> "create", writes |-> writes, insert |-> i, delete |-> {},
                          token |-> NULL]
  OBVIOUS
<1>7. /\ work.op = "create" /\ work.writes = writes /\ work.insert = i /\ work.delete = {}
      /\ work.token = NULL /\ DOMAIN work = {"op", "writes", "insert", "delete", "token"}
  BY <1>6
<1>8. Begin(s, work)
  <2>1. Begin(s, [Work("create", writes) EXCEPT !.insert = i])
    BY <1>1, <1>2, <1>4
  <2>2. [Work("create", writes) EXCEPT !.insert = i] = work
    BY <1>6 DEF Work
  <2>3. QED
    BY <2>1, <2>2
<1>9. WriteOK(writes[i])
  BY <1>3, <1>5 DEF WriteOK, ClaimColumns, Columns
<1>10. ASSUME NEW j \in Ids \ {i}
       PROVE  /\ WriteOK(writes[j]) /\ UpdateOK(writes[j], "create", rows[j], sent[j])
              /\ DOMAIN writes[j] # {} => j \in used
  <2>1. PICK w : w = writes[j]
    OBVIOUS
  <2>2. \/ w = NoWrite
        \/ rows[j] # NULL /\ WriteOK(w) /\ UpdateOK(w, "create", rows[j], sent[j])
    BY <1>5, <2>1, RivalsFlushed
  <2>3. WriteOK(w) /\ UpdateOK(w, "create", rows[j], sent[j])
    BY <2>2, NotWritten
  <2>4. DOMAIN w # {} => j \in used
    BY <2>2, NoWriteColumns, PresentRow
  <2>5. QED
    BY <2>1, <2>3, <2>4
<1>11. WorkType(work)
  BY <1>7, <1>9, <1>10 DEF WorkType, WriteOK
<1>12. i # NULL
  BY ConstantsAssumption
<1>13. WorkOK(work, rows, used, sent)
  BY <1>3, <1>5, <1>7, <1>9, <1>10, <1>11, <1>12 DEF WorkOK
<1>14. QED
  BY <1>1, <1>7, <1>8, <1>13, Begun

LEMMA UpdateBegun ==
  ASSUME IInv, NEW s \in Sessions, NEW k \in Keys, NEW tp \in Topics, NEW rk \in Ranks,
         NEW ex \in ExpiryInputs, BeginUpdateByKey(s, k, tp, rk, ex)
  PROVE  IInv'
<1>1. PICK i \in Present :
        Begin(s, Work("update",
          [SupersededWrites(i, k, tp) EXCEPT
             ![i] = Diff(rows[i], Refreshed(rows[i], tp, rk, ex), {"updated"})]))
  BY DEF BeginUpdateByKey
<1>2. i \in Ids /\ rows[i] # NULL
  BY DEF Present, RowsOf
<1>3. PICK w : w = Diff(rows[i], Refreshed(rows[i], tp, rk, ex), {"updated"})
  OBVIOUS
<1>4. WriteOK(w) /\ UpdateOK(w, "update", rows[i], sent[i])
  <2>1. ex \in Left(ExpiryMax) \cup {NULL}
    BY InputsAssumption
  <2>2. Keeps(rows[i], Refreshed(rows[i], tp, rk, ex), "update")
    BY <1>2, <2>1, PresentRow, RefreshedKeeps
  <2>3. QED
    BY <1>2, <1>3, <2>2, RowFlushed
<1>5. PICK writes : writes = [SupersededWrites(i, k, tp) EXCEPT ![i] = w]
  OBVIOUS
<1>6. /\ writes[i] = w
      /\ \A j \in Ids \ {i} : writes[j] = SupersededWrites(i, k, tp)[j]
  BY <1>2, <1>5 DEF SupersededWrites
<1>7. Begin(s, [op |-> "update", writes |-> writes, insert |-> NULL, delete |-> {},
                token |-> NULL])
  BY <1>1, <1>3, <1>5 DEF Work
<1>8. \A j \in Ids : \/ writes[j] = NoWrite
                     \/ /\ rows[j] # NULL /\ WriteOK(writes[j])
                        /\ UpdateOK(writes[j], "update", rows[j], sent[j])
  BY <1>2, <1>4, <1>6, RivalsFlushed
<1>9. "update" \in Kinds
  BY DEF Kinds
<1>10. QED
  BY <1>7, <1>8, <1>9, WriteBegun

LEMMA PatchBegun ==
  ASSUME IInv, NEW s \in Sessions, NEW i \in Ids, NEW st \in PatchStatusInputs,
         NEW ex \in ExpiryInputs, BeginPatch(s, i, st, ex)
  PROVE  IInv'
<1>1. rows[i] # NULL
  BY DEF BeginPatch, Present, RowsOf
<1>2. PICK op \in Kinds : op = IF st = NULL THEN "patch" ELSE "set_status"
  BY DEF Kinds
<1>3. st \in Status \cup {NULL} /\ ex \in Left(ExpiryMax) \cup {NULL}
  BY InputsAssumption
<1>4. Keeps(rows[i], Patched(rows[i], st, ex), op)
  BY <1>1, <1>2, <1>3, PresentRow, PatchedKeeps
<1>5. PICK w : w = Diff(rows[i], Patched(rows[i], st, ex), {"updated"})
  OBVIOUS
<1>6. WriteOK(w) /\ UpdateOK(w, op, rows[i], sent[i])
  BY <1>1, <1>4, <1>5, RowFlushed
<1>7. Begin(s, [op |-> op, writes |-> Only(i, w), insert |-> NULL, delete |-> {},
                token |-> NULL])
  BY <1>2, <1>5 DEF BeginPatch, Work
<1>8. QED
  BY <1>1, <1>6, <1>7, RowBegun

LEMMA AnswerBegun ==
  ASSUME IInv, NEW s \in Sessions, NEW i \in Ids, NEW st \in {"resolved", "answered_partial"},
         BeginAnswer(s, i, st)
  PROVE  IInv'
<1>1. rows[i] # NULL
  BY DEF BeginAnswer, Present, RowsOf
<1>2. st \in Status /\ st # "asked"
  BY StatusNames
<1>3. /\ Keeps(rows[i], Answered(rows[i], st, 0), "answer")
      /\ Answered(rows[i], st, 0).answered # NULL
  BY <1>1, <1>2, PresentRow, AnsweredKeeps
<1>4. PICK w : w = Diff(rows[i], Answered(rows[i], st, 0), {"answered", "updated"})
  OBVIOUS
<1>5. WriteOK(w) /\ UpdateOK(w, "answer", rows[i], sent[i])
  BY <1>1, <1>3, <1>4, RowFlushed
<1>6. Begin(s, [op |-> "answer", writes |-> Only(i, w), insert |-> NULL, delete |-> {},
                token |-> NULL])
  BY <1>4 DEF BeginAnswer, Work
<1>7. "answer" \in Kinds
  BY DEF Kinds
<1>8. QED
  BY <1>1, <1>5, <1>6, <1>7, RowBegun

LEMMA ResolveBegun ==
  ASSUME IInv, NEW s \in Sessions, NEW i \in Ids,
         NEW st \in {"resolved", "expired", "dismissed", "answered_partial"},
         BeginResolve(s, i, st)
  PROVE  IInv'
<1>1. rows[i] # NULL
  BY DEF BeginResolve, Present, RowsOf
<1>2. st \in Status /\ st # "asked"
  BY StatusNames
<1>3. Keeps(rows[i], Resolved(rows[i], st), "resolve")
  BY <1>1, <1>2, PresentRow, ResolvedKeeps
<1>4. PICK w : w = Diff(rows[i], Resolved(rows[i], st), {"updated"})
  OBVIOUS
<1>5. WriteOK(w) /\ UpdateOK(w, "resolve", rows[i], sent[i])
  BY <1>1, <1>3, <1>4, RowFlushed
<1>6. Begin(s, [op |-> "resolve", writes |-> Only(i, w), insert |-> NULL, delete |-> {},
                token |-> NULL])
  BY <1>4 DEF BeginResolve, Work
<1>7. "resolve" \in Kinds
  BY DEF Kinds
<1>8. QED
  BY <1>1, <1>5, <1>6, <1>7, RowBegun

\* A delivery is counted with what it writes of the row.
LEMMA AskedBegun ==
  ASSUME IInv, NEW s \in Sessions, NEW i \in Ids, NEW c \in Channels,
         NEW t \in {NULL, rows[i].token}, BeginAsked(s, i, c, t)
  PROVE  IInv'
<1>1. /\ rows[i] # NULL
      /\ Begin(s, [Work("asked", Only(i, Diff(rows[i], Asked(rows[i], c),
                                              {"lastAsked", "updated"}))) EXCEPT !.token = t])
  BY DEF BeginAsked, Present, RowsOf
<1>2. PICK r : r = rows[i]
  OBVIOUS
<1>3. r \in Row /\ r.asked <= sent[i] /\ sent[i] \in Nat /\ r.asked \in Nat
  <2>1. r \in Row /\ r.asked <= sent[i] /\ sent[i] \in Nat
    BY <1>1, <1>2, PresentRow
  <2>2. QED
    BY <2>1 DEF Row
<1>4. ClaimAgrees(r)
  BY <1>1, <1>2, PresentRow
<1>5. t \in Tokens \cup {NULL}
  BY <1>2, <1>3 DEF Row
<1>6. PICK q : q = Asked(r, c)
  OBVIOUS
<1>7. q \in Row
  BY <1>3, <1>6, AskedType
<1>8. /\ q.status = "asked" /\ q.token = NULL /\ q.channel = NULL /\ q.lease = NULL
      /\ q.lastAsked = 0 /\ q.lastChannel = c /\ q.asked = r.asked + 1
      /\ q.answered = r.answered
  BY <1>3, <1>6 DEF Asked, Unclaimed, Row
<1>9. PICK w : w = Diff(r, q, {"lastAsked", "updated"})
  OBVIOUS
<1>10. /\ DOMAIN w = {d \in Columns : r[d] # q[d]} \cup {"lastAsked", "updated"}
       /\ \A d \in DOMAIN w : w[d] = q[d]
  BY <1>9 DEF Diff
<1>11. WriteOK(w)
  <2>1. ClaimAgrees(q)
    BY <1>8 DEF ClaimAgrees
  <2>2. DOMAIN w \subseteq Columns
    BY <1>10 DEF Columns
  <2>3. ClaimColumns \subseteq DOMAIN w \/ ClaimColumns \cap DOMAIN w = {}
    BY <1>4, <1>8, <1>10 DEF ClaimAgrees, ClaimColumns, Columns
  <2>4. QED
    BY <1>7, <1>10, <2>1, <2>2, <2>3 DEF WriteOK
<1>12. 0 # NULL /\ c # NULL
  BY ConstantsAssumption
<1>13. "answered" \notin DOMAIN w
  BY <1>8, <1>10
<1>14. \A d \in Lasting \cap DOMAIN w : w[d] # NULL
  BY <1>8, <1>10, <1>12, <1>13 DEF Lasting
<1>15. /\ "asked" \in DOMAIN w /\ w["asked"] = r.asked + 1
       /\ {"asked", "lastAsked"} \subseteq DOMAIN w
  <2>1. r["asked"] # q["asked"]
    BY <1>3, <1>8
  <2>2. QED
    BY <1>8, <1>10, <2>1 DEF Columns
<1>16. "lastChannel" \in DOMAIN w \/ Has(r, "lastChannel")
  BY <1>8, <1>10, <1>12 DEF Columns, Has
<1>17. "status" \in DOMAIN w => w["status"] = "asked"
  BY <1>8, <1>10
<1>18. w["asked"] > 0 /\ w["asked"] <= sent[i] + 1
  BY <1>3, <1>15
<1>19. UpdateOK(w, "asked", r, sent[i])
  BY <1>14, <1>15, <1>16, <1>17, <1>18 DEF UpdateOK
<1>20. Begin(s, [op |-> "asked", writes |-> Only(i, w), insert |-> NULL, delete |-> {},
                 token |-> t])
  BY <1>1, <1>2, <1>6, <1>9 DEF Work
<1>21. "asked" \in Kinds
  BY DEF Kinds
<1>22. QED
  BY <1>1, <1>2, <1>5, <1>11, <1>19, <1>20, <1>21, RowBegun

LEMMA DeleteBegun ==
  ASSUME IInv, NEW s \in Sessions, NEW S \in SUBSET Ids, BeginDelete(s, S)
  PROVE  IInv'
<1>1. PICK writes : writes = [i \in Ids |-> NoWrite]
  OBVIOUS
<1>2. \A i \in Ids : writes[i] = NoWrite
  BY <1>1
<1>3. Begin(s, [op |-> "delete", writes |-> writes, insert |-> NULL, delete |-> S,
                token |-> NULL])
  BY <1>1 DEF BeginDelete, Work
<1>4. "delete" \in Kinds
  BY DEF Kinds
<1>5. QED
  BY <1>2, <1>3, <1>4, WriteBegun

\* What a sweep flushes of a row it changes.
LEMMA SweepFlushed ==
  ASSUME IInv, NEW i \in Ids, NEW op, NEW q, rows[i] # NULL => Keeps(rows[i], q, op),
         NEW w, w = IF rows[i] = NULL \/ q = rows[i] THEN NoWrite
                    ELSE Diff(rows[i], q, {"updated"})
  PROVE  \/ w = NoWrite
         \/ rows[i] # NULL /\ WriteOK(w) /\ UpdateOK(w, op, rows[i], sent[i])
<1>1. CASE rows[i] = NULL \/ q = rows[i]
  BY <1>1
<1>2. CASE ~(rows[i] = NULL \/ q = rows[i])
  BY <1>2, RowFlushed
<1>3. QED
  BY <1>1, <1>2

LEMMA JobsBegun ==
  ASSUME IInv, NEW s \in Sessions, BeginExpireJob(s) \/ BeginCleanupJob(s)
  PROVE  IInv'
<1>1. "sweep" \in Kinds
  BY DEF Kinds
<1>2. CASE BeginExpireJob(s)
  <2>1. PICK writes : writes = SweepWrites(ExpireJobSweep)
    OBVIOUS
  <2>2. ASSUME NEW i \in Ids
        PROVE  \/ writes[i] = NoWrite
               \/ /\ rows[i] # NULL /\ WriteOK(writes[i])
                  /\ UpdateOK(writes[i], "sweep", rows[i], sent[i])
    <3>1. writes[i] = IF rows[i] = NULL \/ ExpireJobSweep(rows[i]) = rows[i] THEN NoWrite
                      ELSE Diff(rows[i], ExpireJobSweep(rows[i]), {"updated"})
      BY <2>1 DEF SweepWrites
    <3>2. rows[i] # NULL => Keeps(rows[i], ExpireJobSweep(rows[i]), "sweep")
      BY PresentRow, JobsKeep
    <3>3. QED
      BY <3>1, <3>2, SweepFlushed
  <2>3. Begin(s, [op |-> "sweep", writes |-> writes, insert |-> NULL, delete |-> {},
                  token |-> NULL])
    BY <1>2, <2>1 DEF BeginExpireJob, Work
  <2>4. QED
    BY <1>1, <2>2, <2>3, WriteBegun
<1>3. CASE BeginCleanupJob(s)
  <2>1. PICK writes : writes = SweepWrites(CleanupJobSweep)
    OBVIOUS
  <2>2. ASSUME NEW i \in Ids
        PROVE  \/ writes[i] = NoWrite
               \/ /\ rows[i] # NULL /\ WriteOK(writes[i])
                  /\ UpdateOK(writes[i], "sweep", rows[i], sent[i])
    <3>1. writes[i] = IF rows[i] = NULL \/ CleanupJobSweep(rows[i]) = rows[i] THEN NoWrite
                      ELSE Diff(rows[i], CleanupJobSweep(rows[i]), {"updated"})
      BY <2>1 DEF SweepWrites
    <3>2. rows[i] # NULL => Keeps(rows[i], CleanupJobSweep(rows[i]), "sweep")
      BY PresentRow, JobsKeep
    <3>3. QED
      BY <3>1, <3>2, SweepFlushed
  <2>3. Begin(s, [op |-> "sweep", writes |-> writes, insert |-> NULL, delete |-> {},
                  token |-> NULL])
    BY <1>3, <2>1 DEF BeginCleanupJob, Work
  <2>4. QED
    BY <1>1, <2>2, <2>3, WriteBegun
<1>4. QED
  BY <1>2, <1>3

\* What a claim writes of a row the sweep before it made q of r: the claim as a whole, and
\* what the sweep changed.
ClaimedWrite(r, q, t, c, l) ==
  LET swp == IF q = r THEN NoWrite ELSE Diff(r, q, {"updated"})
      clm == Diff(q, Claimed(q, t, c, l), {"lease", "updated"})
  IN  [d \in DOMAIN swp \cup DOMAIN clm |-> IF d \in DOMAIN clm THEN clm[d] ELSE swp[d]]

LEMMA ClaimFlushed ==
  ASSUME NEW r \in Row, ClaimAgrees(r), NEW n, NEW q, q = ClaimSweep(r), Candidate(q),
         NEW t \in Tokens, NEW c \in Channels, NEW l \in LeaseInputs
  PROVE  /\ WriteOK(ClaimedWrite(r, q, t, c, l))
         /\ UpdateOK(ClaimedWrite(r, q, t, c, l), "claim", r, n)
<1>0. PICK swp, clm, w :
        /\ swp = IF q = r THEN NoWrite ELSE Diff(r, q, {"updated"})
        /\ clm = Diff(q, Claimed(q, t, c, l), {"lease", "updated"})
        /\ w = [d \in DOMAIN swp \cup DOMAIN clm |->
                  IF d \in DOMAIN clm THEN clm[d] ELSE swp[d]]
  OBVIOUS
<1>1. Keeps(r, q, "claim") /\ q \in Row
  BY JobsKeep, SweepTypes
<1>2. ClaimAgrees(q)
  BY <1>1 DEF Keeps, ClaimAgrees
<1>3. q.token = NULL /\ q.lease = NULL /\ q.channel = NULL
  <2>1. PICK e : e = ExpireSweep(r)
    OBVIOUS
  <2>2. e \in Row /\ q = ReleaseSweep(e)
    BY <2>1, SweepTypes DEF ClaimSweep
  <2>3. CASE LeaseLapsed(e)
    BY <2>2, <2>3 DEF ReleaseSweep, Released, Unclaimed, Row
  <2>4. CASE ~LeaseLapsed(e)
    <3>1. q = e
      BY <2>2, <2>4 DEF ReleaseSweep
    <3>2. Lapsed # NULL
      BY ConstantsAssumption DEF Lapsed
    <3>3. q.token = NULL
      BY <2>4, <3>1, <3>2 DEF LeaseLapsed, Candidate
    <3>4. QED
      BY <1>2, <3>3 DEF ClaimAgrees
  <2>5. QED
    BY <2>3, <2>4
<1>4. l \in Left(LeaseMax) /\ l # NULL /\ t # NULL /\ c # NULL
  BY InputsAssumption, ConstantsAssumption, ThresholdsNat DEF Left, Lapsed
<1>5. PICK p : p = Claimed(q, t, c, l)
  OBVIOUS
<1>6. p \in Row
  BY <1>1, <1>4, <1>5, ClaimedType
<1>7. /\ p.token = t /\ p.channel = c /\ p.lease = l /\ p.status = q.status
      /\ p.asked = q.asked /\ p.lastAsked = q.lastAsked /\ p.lastChannel = q.lastChannel
      /\ p.answered = q.answered
  BY <1>1, <1>5 DEF Claimed, Row
<1>8. /\ DOMAIN clm = {d \in Columns : q[d] # p[d]} \cup {"lease", "updated"}
      /\ \A d \in DOMAIN clm : clm[d] = p[d]
  BY <1>0, <1>5 DEF Diff
<1>9. /\ DOMAIN swp \subseteq {d \in Columns : r[d] # q[d]} \cup {"updated"}
      /\ \A d \in DOMAIN swp : swp[d] = q[d]
  BY <1>0, NoWriteColumns DEF Diff
<1>10. /\ DOMAIN w = DOMAIN swp \cup DOMAIN clm
       /\ \A d \in DOMAIN w : w[d] = IF d \in DOMAIN clm THEN clm[d] ELSE swp[d]
  BY <1>0
<1>11. \A d \in DOMAIN w : w[d] = p[d]
  BY <1>8, <1>9, <1>10 DEF Columns
<1>12. DOMAIN w \subseteq Columns
  BY <1>8, <1>9, <1>10 DEF Columns
<1>13. ClaimColumns \subseteq DOMAIN w
  BY <1>3, <1>4, <1>7, <1>8, <1>10 DEF ClaimColumns, Columns
<1>14. ClaimAgrees(p)
  BY <1>4, <1>7 DEF ClaimAgrees
<1>15. WriteOK(w)
  BY <1>6, <1>11, <1>12, <1>13, <1>14 DEF WriteOK
<1>16. \A d \in {"answered", "lastAsked", "lastChannel", "asked"} :
         d \in DOMAIN w => w[d] = q[d] /\ r[d] # q[d]
  BY <1>7, <1>8, <1>9, <1>10
<1>17. \A d \in Lasting \cap DOMAIN w : w[d] # NULL
  BY <1>1, <1>16 DEF Lasting, Keeps
<1>18. "asked" \notin DOMAIN w
  BY <1>1, <1>16 DEF Keeps
<1>19. "status" \in DOMAIN w => w["status"] # "asked" /\ w["status"] # "resolved"
  BY <1>7, <1>11 DEF Candidate, ClaimableStatus
<1>20. UpdateOK(w, "claim", r, n)
  BY <1>17, <1>18, <1>19 DEF UpdateOK
<1>21. w = ClaimedWrite(r, q, t, c, l)
  BY <1>0 DEF ClaimedWrite
<1>22. QED
  BY <1>15, <1>20, <1>21

LEMMA ClaimBegun ==
  ASSUME IInv, NEW s \in Sessions, NEW c \in Channels, NEW l \in LeaseInputs,
         BeginClaim(s, c, l)
  PROVE  IInv'
<1>1. PICK swept : swept = Swept(ClaimSweep, rows)
  OBVIOUS
<1>2. PICK t \in Tokens, first \in Present, chosen \in SUBSET Present :
        /\ Batch(swept, first, chosen, TRUE)
        /\ Begin(s, [Work("claim", ClaimWrites(first, t, c, l, swept, chosen)) EXCEPT !.token = t])
  BY <1>1 DEF BeginClaim
<1>3. PICK writes : writes = ClaimWrites(first, t, c, l, swept, chosen)
  OBVIOUS
<1>4. PICK sweeps : sweeps = SweepWrites(ClaimSweep)
  OBVIOUS
<1>5. ASSUME NEW i \in Ids
      PROVE  \/ writes[i] = NoWrite
             \/ /\ rows[i] # NULL /\ WriteOK(writes[i])
                /\ UpdateOK(writes[i], "claim", rows[i], sent[i])
  <2>1. sweeps[i] = IF rows[i] = NULL \/ ClaimSweep(rows[i]) = rows[i] THEN NoWrite
                    ELSE Diff(rows[i], ClaimSweep(rows[i]), {"updated"})
    BY <1>4 DEF SweepWrites
  <2>2. CASE i \notin chosen
    <3>1. writes[i] = sweeps[i]
      BY <1>3, <1>4, <2>2 DEF ClaimWrites
    <3>2. rows[i] # NULL => Keeps(rows[i], ClaimSweep(rows[i]), "claim")
      BY PresentRow, JobsKeep
    <3>3. QED
      BY <2>1, <3>1, <3>2, SweepFlushed
  <2>3. CASE i \in chosen
    <3>1. rows[i] # NULL
      BY <2>3 DEF Present, RowsOf
    <3>2. swept[i] = ClaimSweep(rows[i])
      BY <1>1, <3>1 DEF Swept
    <3>3. Candidate(swept[i])
      BY <1>2, <2>3 DEF Batch
    <3>4. PICK clm : clm = Diff(swept[i], Claimed(swept[i], t, c, l), {"lease", "updated"})
      OBVIOUS
    <3>5. writes[i] = [d \in DOMAIN sweeps[i] \cup DOMAIN clm |->
                         IF d \in DOMAIN clm THEN clm[d] ELSE sweeps[i][d]]
      BY <1>3, <1>4, <2>3, <3>4 DEF ClaimWrites
    <3>6. PICK r : r = rows[i]
      OBVIOUS
    <3>7. r \in Row /\ ClaimAgrees(r)
      BY <3>1, <3>6, PresentRow
    <3>8. PICK q : q = swept[i]
      OBVIOUS
    <3>9. PICK swp : swp = sweeps[i]
      OBVIOUS
    <3>10. swp = IF q = r THEN NoWrite ELSE Diff(r, q, {"updated"})
      BY <2>1, <3>1, <3>2, <3>6, <3>8, <3>9
    <3>11. PICK w : w = writes[i]
      OBVIOUS
    <3>12. w = [d \in DOMAIN swp \cup DOMAIN clm |->
                  IF d \in DOMAIN clm THEN clm[d] ELSE swp[d]]
      BY <3>5, <3>9, <3>11
    <3>13. q = ClaimSweep(r) /\ Candidate(q) /\ clm = Diff(q, Claimed(q, t, c, l), {"lease", "updated"})
      BY <3>2, <3>3, <3>4, <3>6, <3>8
    <3>14. WriteOK(w) /\ UpdateOK(w, "claim", r, sent[i])
      <4>1. PICK n : n = sent[i]
        OBVIOUS
      <4>2. r \in Row /\ ClaimAgrees(r)
        BY <3>7
      <4>3. q = ClaimSweep(r) /\ Candidate(q)
        BY <3>13
      <4>4. w = ClaimedWrite(r, q, t, c, l)
        BY <3>10, <3>12, <3>13 DEF ClaimedWrite
      <4>5. /\ WriteOK(ClaimedWrite(r, q, t, c, l))
            /\ UpdateOK(ClaimedWrite(r, q, t, c, l), "claim", r, n)
        BY <4>2, <4>3, ClaimFlushed
      <4>6. QED
        BY <4>1, <4>4, <4>5
    <3>15. QED
      BY <3>1, <3>6, <3>11, <3>14
  <2>4. QED
    BY <2>2, <2>3
<1>6. Begin(s, [op |-> "claim", writes |-> writes, insert |-> NULL, delete |-> {}, token |-> t])
  BY <1>2, <1>3 DEF Work
<1>7. "claim" \in Kinds
  BY DEF Kinds
<1>8. QED
  BY <1>5, <1>6, <1>7, WriteBegun

---------------------------------------------------------------------------
(* A transaction ends                                                      *)

\* What a transaction may write it may still write when the row has kept what it had.
LEMMA UpdateKept ==
  ASSUME NEW w, WriteOK(w), NEW op, NEW r, NEW q, NEW n \in Nat, NEW m \in Nat, n <= m,
         UpdateOK(w, op, r, n), \A c \in Lasting : Has(r, c) => Has(q, c)
  PROVE  UpdateOK(w, op, q, m)
<1>1. "asked" \in DOMAIN w => w["asked"] \in Nat
  BY DEF WriteOK, Row
<1>2. "asked" \in DOMAIN w => op = "asked" /\ w["asked"] > 0 /\ w["asked"] <= m + 1
  BY <1>1 DEF UpdateOK
<1>3. /\ Has(r, "answered") => Has(q, "answered")
      /\ Has(r, "lastChannel") => Has(q, "lastChannel")
  BY DEF Lasting
<1>4. QED
  BY <1>2, <1>3 DEF UpdateOK

\* A committed update.
LEMMA OverOK ==
  ASSUME NEW i, NEW r \in Row, NEW n \in Nat, NEW edited, RowOK(i, r, n, edited),
         NEW w, WriteOK(w), NEW op, UpdateOK(w, op, r, n),
         NEW m \in Nat, n <= m, op = "asked" /\ DOMAIN w # {} => m = n + 1,
         NEW after, i \notin after => /\ i \notin edited
                                      /\ op # "set_status" \/ DOMAIN w = {}
  PROVE  /\ Over(w, r) \in Row /\ RowOK(i, Over(w, r), m, after)
         /\ \A c \in Lasting : r[c] # NULL => Over(w, r)[c] # NULL
<1>1. PICK q : q = Over(w, r)
  OBVIOUS
<1>2. /\ q \in Row /\ \A c \in Columns : q[c] = IF c \in DOMAIN w THEN w[c] ELSE r[c]
      /\ ClaimAgrees(r) => ClaimAgrees(q)
  BY <1>1, Written
<1>3. r # NULL
  BY RowAssumption
<1>4. ClaimAgrees(q)
  BY <1>2, <1>3 DEF RowOK
<1>5. r.asked \in Nat /\ q.asked \in Nat
  BY <1>2 DEF Row
<1>6. q["asked"] = IF "asked" \in DOMAIN w THEN w["asked"] ELSE r["asked"]
  BY <1>2 DEF Columns
<1>7. r.asked <= n
  BY <1>3 DEF RowOK
<1>8. q.asked <= m
  <2>1. CASE "asked" \in DOMAIN w
    <3>1. w["asked"] <= n + 1 /\ op = "asked"
      BY <2>1 DEF UpdateOK
    <3>2. m = n + 1
      BY <2>1, <3>1
    <3>3. QED
      BY <1>6, <2>1, <3>1, <3>2
  <2>2. CASE "asked" \notin DOMAIN w
    BY <1>5, <1>6, <1>7, <2>2
  <2>3. QED
    BY <2>1, <2>2
<1>9. \A c \in Lasting : r[c] # NULL => q[c] # NULL
  BY <1>2 DEF UpdateOK, Lasting, Columns
<1>10. r.asked > 0 => q.asked > 0
  BY <1>6 DEF UpdateOK
<1>11. ASSUME i \notin after
       PROVE  /\ q.status = "resolved" => q.answered # NULL
              /\ q.status = "asked" =>
                   q.lastAsked # NULL /\ q.lastChannel # NULL /\ q.asked > 0
  <2>1. CASE "status" \in DOMAIN w
    <3>1. op # "set_status" /\ q.status = w["status"]
      BY <1>2, <1>11, <2>1 DEF Columns
    <3>2. /\ w["status"] = "resolved" => "answered" \in DOMAIN w \/ Has(r, "answered")
          /\ w["status"] = "asked" => /\ {"asked", "lastAsked"} \subseteq DOMAIN w
                                      /\ "lastChannel" \in DOMAIN w \/ Has(r, "lastChannel")
      BY <2>1, <3>1 DEF UpdateOK
    <3>3. \A c \in Lasting : c \in DOMAIN w \/ r[c] # NULL => q[c] # NULL
      BY <1>2, <1>9 DEF UpdateOK, Lasting, Columns
    <3>4. "asked" \in DOMAIN w => q.asked > 0
      BY <1>6 DEF UpdateOK
    <3>5. QED
      BY <1>3, <3>1, <3>2, <3>3, <3>4 DEF Has, Lasting
  <2>2. CASE "status" \notin DOMAIN w
    <3>1. q.status = r.status
      BY <1>2, <2>2 DEF Columns
    <3>2. /\ r.status = "resolved" => r.answered # NULL
          /\ r.status = "asked" => r.lastAsked # NULL /\ r.lastChannel # NULL /\ r.asked > 0
      BY <1>3, <1>11 DEF RowOK
    <3>3. QED
      BY <1>9, <1>10, <3>1, <3>2 DEF Lasting
  <2>3. QED
    BY <2>1, <2>2
<1>12. RowOK(i, q, m, after)
  BY <1>4, <1>8, <1>11 DEF RowOK
<1>13. QED
  BY <1>1, <1>2, <1>9, <1>12

LEMMA CommitKept ==
  ASSUME IInv, NEW s \in Sessions, Commit(s)
  PROVE  IInv'
<1>1. PICK work : work = session[s]
  OBVIOUS
<1>2. work # NULL /\ WorkOK(work, rows, used, sent) /\ WorkType(work)
  BY <1>1 DEF Commit, IInv, WorkOK
<1>3. /\ rows' = [i \in Ids |-> IF i \in work.delete THEN NULL
                                ELSE IF i = work.insert THEN work.writes[i]
                                ELSE IF rows[i] = NULL THEN NULL
                                ELSE Over(work.writes[i], rows[i])]
      /\ used' = IF work.insert = NULL THEN used ELSE used \cup {work.insert}
      /\ sent' = [i \in Ids |-> IF i \in {j \in Ids : work.op = "asked" /\ j \in Touched(work)}
                                THEN sent[i] + 1 ELSE sent[i]]
      /\ patched' = IF work.op = "set_status" THEN patched \cup Touched(work) ELSE patched
      /\ session' = [session EXCEPT ![s] = NULL]
  BY <1>1 DEF Commit
<1>4. ASSUME NEW i \in Ids
      PROVE  /\ sent[i] \in Nat /\ sent'[i] \in Nat /\ sent[i] <= sent'[i]
             /\ work.op = "asked" /\ DOMAIN work.writes[i] # {} => sent'[i] = sent[i] + 1
             /\ i \notin patched' =>
                  i \notin patched /\ (work.op # "set_status" \/ DOMAIN work.writes[i] = {})
  <2>1. DOMAIN work.writes[i] # {} => i \in Touched(work)
    BY NoWriteColumns DEF Touched
  <2>2. sent[i] \in Nat
    BY DEF IInv
  <2>3. sent'[i] = IF work.op = "asked" /\ i \in Touched(work) THEN sent[i] + 1 ELSE sent[i]
    BY <1>3
  <2>4. i \notin patched' =>
          i \notin patched /\ (work.op # "set_status" \/ DOMAIN work.writes[i] = {})
    BY <1>3, <2>1
  <2>5. QED
    BY <2>1, <2>2, <2>3, <2>4
<1>5. ASSUME NEW i \in Ids, i = work.insert, rows'[i] # NULL
      PROVE  rows'[i] \in Row /\ i \in used' /\ RowOK(i, rows'[i], sent'[i], patched')
  <2>1. PICK q : q = work.writes[i]
    OBVIOUS
  <2>2. i # NULL
    BY ConstantsAssumption
  <2>3. q \in Row /\ q.status = "pending" /\ q.asked = 0 /\ WriteOK(q)
    BY <1>2, <1>5, <2>1, <2>2 DEF WorkOK
  <2>4. rows'[i] = q
    BY <1>3, <1>5, <2>1
  <2>5. ClaimAgrees(q)
    <3>1. DOMAIN q = Columns
      BY <2>3, Columnwise
    <3>2. PICK r \in Row : ClaimAgrees(r) /\ \A c \in Columns : q[c] = r[c]
      BY <2>3, <3>1 DEF WriteOK, Columns
    <3>3. q.token = r.token /\ q.channel = r.channel /\ q.lease = r.lease
      BY <3>2 DEF Columns
    <3>4. QED
      BY <3>2, <3>3 DEF ClaimAgrees
  <2>6. RowOK(i, q, sent'[i], patched')
    BY <1>4, <2>3, <2>5 DEF RowOK
  <2>7. i \in used'
    BY <1>3, <1>5, <2>2
  <2>8. QED
    BY <2>3, <2>4, <2>6, <2>7
<1>6. ASSUME NEW i \in Ids, i # work.insert, rows'[i] # NULL
      PROVE  /\ rows'[i] \in Row /\ i \in used' /\ RowOK(i, rows'[i], sent'[i], patched')
             /\ rows[i] # NULL /\ \A c \in Lasting : rows[i][c] # NULL => rows'[i][c] # NULL
  <2>1. rows[i] # NULL /\ rows'[i] = Over(work.writes[i], rows[i])
    BY <1>3, <1>6
  <2>2. rows[i] \in Row /\ i \in used
    BY <2>1, PresentRow
  <2>3. RowOK(i, rows[i], sent[i], patched)
    BY DEF IInv
  <2>4. WriteOK(work.writes[i]) /\ UpdateOK(work.writes[i], work.op, rows[i], sent[i])
    BY <1>2, <1>6 DEF WorkOK
  <2>5. PICK w, op, r, n, m : /\ w = work.writes[i] /\ op = work.op /\ r = rows[i]
                              /\ n = sent[i] /\ m = sent'[i]
    OBVIOUS
  <2>6. PICK edited, after : edited = patched /\ after = patched'
    OBVIOUS
  <2>7. /\ r \in Row /\ n \in Nat /\ m \in Nat /\ n <= m /\ RowOK(i, r, n, edited)
        /\ WriteOK(w) /\ UpdateOK(w, op, r, n)
        /\ op = "asked" /\ DOMAIN w # {} => m = n + 1
    BY <1>4, <2>2, <2>3, <2>4, <2>5, <2>6
  <2>8. i \notin after => i \notin edited /\ (op # "set_status" \/ DOMAIN w = {})
    BY <1>4, <2>5, <2>6
  <2>9. /\ Over(w, r) \in Row /\ RowOK(i, Over(w, r), m, after)
        /\ \A c \in Lasting : r[c] # NULL => Over(w, r)[c] # NULL
    BY <2>7, <2>8, OverOK
  <2>10. i \in used'
    BY <1>3, <2>2
  <2>11. QED
    BY <2>1, <2>5, <2>6, <2>9, <2>10
<1>7. ASSUME NEW t \in Sessions, session'[t] # NULL
      PROVE  WorkOK(session'[t], rows', used', sent')
  <2>1. t # s /\ session'[t] = session[t]
    BY <1>3, <1>7 DEF IInv
  <2>2. PICK other : other = session[t]
    OBVIOUS
  <2>3. other # NULL /\ WorkOK(other, rows, used, sent)
    BY <1>7, <2>1, <2>2 DEF IInv
  <2>4. other.insert = NULL \/ other.insert # work.insert
    BY <1>1, <1>2, <2>1, <2>2, <2>3 DEF IInv
  <2>5. ASSUME NEW i \in Ids \ {other.insert}
        PROVE  /\ UpdateOK(other.writes[i], other.op, rows'[i], sent'[i])
               /\ DOMAIN other.writes[i] # {} => i \in used'
    <3>1. /\ WriteOK(other.writes[i]) /\ UpdateOK(other.writes[i], other.op, rows[i], sent[i])
          /\ DOMAIN other.writes[i] # {} => i \in used
      BY <2>3 DEF WorkOK
    <3>2. CASE i = work.insert
      <4>1. i \notin used
        BY <1>2, <3>2, ConstantsAssumption DEF WorkOK
      <4>2. DOMAIN other.writes[i] = {}
        BY <3>1, <4>1
      <4>3. QED
        BY <4>2 DEF UpdateOK
    <3>3. CASE i # work.insert
      <4>1. ASSUME NEW c \in Lasting, Has(rows[i], c)
            PROVE  Has(rows'[i], c)
        BY <1>6, <3>3, <4>1 DEF Has
      <4>2. UpdateOK(other.writes[i], other.op, rows'[i], sent'[i])
        BY <1>4, <3>1, <4>1, UpdateKept
      <4>3. QED
        BY <1>3, <3>1, <4>2
    <3>4. QED
      BY <3>2, <3>3
  <2>6. other.insert # NULL => other.insert \notin used'
    BY <1>3, <2>3, <2>4 DEF WorkOK
  <2>7. WorkOK(other, rows', used', sent')
    BY <2>3, <2>5, <2>6 DEF WorkOK
  <2>8. QED
    BY <2>1, <2>2, <2>7
<1>8. ASSUME NEW t \in Sessions, NEW u \in Sessions, t # u,
             session'[t] # NULL, session'[u] # NULL
      PROVE  session'[t].insert = NULL \/ session'[t].insert # session'[u].insert
  <2>1. session'[t] = session[t] /\ session'[u] = session[u]
    BY <1>3, <1>8 DEF IInv
  <2>2. QED
    BY <1>8, <2>1 DEF IInv
<1>9. rows' \in Table
  <2>1. \A i \in Ids : rows'[i] \in Row \cup {NULL}
    BY <1>5, <1>6
  <2>2. DOMAIN rows' = Ids /\ rows' = [i \in Ids |-> rows'[i]]
    BY <1>3
  <2>3. QED
    BY <2>1, <2>2 DEF Table
<1>10. sent' \in [Ids -> Nat]
  BY <1>3, <1>4
<1>11. DOMAIN session' = Sessions
  BY <1>3 DEF IInv
<1>12. used' \subseteq Ids /\ patched' \subseteq Ids
  BY <1>2, <1>3 DEF IInv, WorkType, Touched
<1>13. \A i \in Ids : RowOK(i, rows'[i], sent'[i], patched')
  BY <1>5, <1>6 DEF RowOK
<1>14. \A i \in Ids : rows'[i] # NULL => i \in used'
  BY <1>5, <1>6
<1>15. QED
  BY <1>7, <1>8, <1>9, <1>10, <1>11, <1>12, <1>13, <1>14 DEF IInv

LEMMA RollbackKept ==
  ASSUME IInv, NEW s \in Sessions, Rollback(s)
  PROVE  IInv'
<1>1. /\ session' = [session EXCEPT ![s] = NULL] /\ DOMAIN session = Sessions
      /\ rows' = rows /\ used' = used /\ sent' = sent /\ patched' = patched
  BY DEF Rollback, IInv
<1>2. DOMAIN session' = Sessions
  BY <1>1
<1>3. \A t \in Sessions : session'[t] # NULL => session'[t] = session[t]
  BY <1>1
<1>4. \A t \in Sessions : session'[t] # NULL => WorkOK(session'[t], rows', used', sent')
  BY <1>1, <1>3 DEF IInv
<1>5. \A t, u \in Sessions : t # u /\ session'[t] # NULL /\ session'[u] # NULL =>
        session'[t].insert = NULL \/ session'[t].insert # session'[u].insert
  BY <1>3 DEF IInv
<1>6. QED
  BY <1>1, <1>2, <1>4, <1>5 DEF IInv

---------------------------------------------------------------------------
(* Time passes                                                             *)

\* No timestamp, deadline or claim comes or goes with time.
LEMMA AgedColumns ==
  ASSUME NEW q \in Row
  PROVE  /\ \A c \in Columns : /\ AgedColumn(c, q[c]) = Aged(q)[c]
                               /\ Aged(q)[c] = NULL <=> q[c] = NULL
         /\ Aged(q).status = q.status /\ Aged(q).asked = q.asked
<1>1. PICK p : p = Aged(q)
  OBVIOUS
<1>2. /\ p.key = q.key /\ p.topic = q.topic /\ p.rank = q.rank /\ p.status = q.status
      /\ p.asked = q.asked /\ p.lastChannel = q.lastChannel /\ p.token = q.token
      /\ p.channel = q.channel
      /\ p.expires = CountDown(q.expires) /\ p.lease = CountDown(q.lease)
      /\ p.updated = CountUp(q.updated, StalePending)
      /\ p.lastAsked = CountUp(q.lastAsked, StaleAsked)
      /\ p.answered = CountUp(q.answered, PostAnswer)
  BY <1>1 DEF Aged, Row
<1>3. /\ q.expires \in Int \cup {NULL} /\ q.lease \in Int \cup {NULL}
      /\ q.updated \in Int /\ q.lastAsked \in Int \cup {NULL}
      /\ q.answered \in Int \cup {NULL}
  <2>1. /\ \A n \in Nat : Age(n) \subseteq Int
        /\ \A n \in Nat : Left(n) \subseteq Int
    BY DEF Age, Left, Lapsed
  <2>2. QED
    BY <2>1, ThresholdsNat DEF Row
<1>4. ASSUME NEW x \in Int \cup {NULL}, NEW n \in Nat
      PROVE  /\ CountUp(x, n) = NULL <=> x = NULL
             /\ CountDown(x) = NULL <=> x = NULL
  <2>1. CASE x = NULL
    BY <2>1 DEF CountUp, CountDown
  <2>2. CASE x # NULL
    <3>1. CountUp(x, n) \in Int /\ CountDown(x) \in Int
      BY <1>4, <2>2 DEF CountUp, CountDown, Capped, Lapsed
    <3>2. QED
      BY <2>2, <3>1, ConstantsAssumption
  <2>3. QED
    BY <2>1, <2>2
<1>5. /\ p.expires = NULL <=> q.expires = NULL
      /\ p.lease = NULL <=> q.lease = NULL
      /\ p.updated = NULL <=> q.updated = NULL
      /\ p.lastAsked = NULL <=> q.lastAsked = NULL
      /\ p.answered = NULL <=> q.answered = NULL
  BY <1>2, <1>3, <1>4, ThresholdsNat
<1>6. \A c \in Columns : p[c] = NULL <=> q[c] = NULL
  BY <1>2, <1>5 DEF Columns
<1>7. \A c \in Columns : AgedColumn(c, q[c]) = p[c]
  BY <1>2 DEF Columns, AgedColumn
<1>8. QED
  BY <1>1, <1>2, <1>6, <1>7

\* What a transaction writes ages with the rows.
LEMMA AgedWrite ==
  ASSUME NEW w, WriteOK(w), NEW v, v = [c \in DOMAIN w |-> AgedColumn(c, w[c])]
  PROVE  /\ WriteOK(v) /\ DOMAIN v = DOMAIN w
         /\ \A c \in DOMAIN w : v[c] = NULL <=> w[c] = NULL
         /\ "asked" \in DOMAIN w => v["asked"] = w["asked"]
         /\ "status" \in DOMAIN w => v["status"] = w["status"]
<1>1. DOMAIN v = DOMAIN w /\ \A c \in DOMAIN w : v[c] = AgedColumn(c, w[c])
  OBVIOUS
<1>2. CASE DOMAIN w = {}
  BY <1>1, <1>2 DEF WriteOK
<1>3. CASE DOMAIN w # {}
  <2>1. PICK q \in Row : ClaimAgrees(q) /\ \A c \in DOMAIN w : w[c] = q[c]
    BY <1>3 DEF WriteOK
  <2>2. DOMAIN w \subseteq Columns
    BY DEF WriteOK
  <2>3. PICK p : p = Aged(q)
    OBVIOUS
  <2>4. p \in Row
    BY <2>3, AgedType
  <2>5. /\ \A c \in Columns : /\ AgedColumn(c, q[c]) = p[c]
                              /\ p[c] = NULL <=> q[c] = NULL
        /\ p.status = q.status /\ p.asked = q.asked
    BY <2>3, AgedColumns
  <2>6. \A c \in DOMAIN w : v[c] = p[c]
    BY <1>1, <2>1, <2>2, <2>5
  <2>7. ClaimAgrees(p)
    BY <2>1, <2>5 DEF ClaimAgrees, Columns
  <2>8. WriteOK(v)
    BY <1>1, <2>2, <2>4, <2>6, <2>7 DEF WriteOK
  <2>9. \A c \in DOMAIN w : v[c] = NULL <=> w[c] = NULL
    BY <2>1, <2>2, <2>5, <2>6
  <2>10. QED
    BY <1>1, <2>1, <2>5, <2>6, <2>8, <2>9
<1>4. QED
  BY <1>2, <1>3

LEMMA TickKept ==
  ASSUME IInv, Tick
  PROVE  IInv'
<1>1. /\ rows' = Swept(Aged, rows) /\ used' = used /\ sent' = sent /\ patched' = patched
      /\ session' = [s \in Sessions |->
           IF session[s] = NULL THEN NULL
           ELSE [session[s] EXCEPT !.writes =
                   [i \in Ids |-> [c \in DOMAIN session[s].writes[i] |->
                                     AgedColumn(c, session[s].writes[i][c])]]]]
  BY DEF Tick
<1>2. \A i \in Ids : rows'[i] = IF rows[i] = NULL THEN NULL ELSE Aged(rows[i])
  BY <1>1 DEF Swept
<1>3. ASSUME NEW i \in Ids, rows[i] # NULL
      PROVE  /\ RowOK(i, rows'[i], sent'[i], patched')
             /\ \A c \in Lasting : rows[i][c] # NULL => rows'[i][c] # NULL
  <2>1. PICK q : q = rows[i]
    OBVIOUS
  <2>2. q \in Row /\ q # NULL /\ RowOK(i, q, sent[i], patched)
    BY <1>3, <2>1, PresentRow DEF IInv
  <2>3. PICK p : p = Aged(q)
    OBVIOUS
  <2>4. /\ \A c \in Columns : p[c] = NULL <=> q[c] = NULL
        /\ p.status = q.status /\ p.asked = q.asked
    BY <2>2, <2>3, AgedColumns
  <2>5. /\ p.token = NULL <=> q.token = NULL
        /\ p.channel = NULL <=> q.channel = NULL
        /\ p.lease = NULL <=> q.lease = NULL
        /\ p.answered = NULL <=> q.answered = NULL
        /\ p.lastAsked = NULL <=> q.lastAsked = NULL
        /\ p.lastChannel = NULL <=> q.lastChannel = NULL
    BY <2>4 DEF Columns
  <2>6. RowOK(i, p, sent[i], patched)
    BY <2>2, <2>4, <2>5 DEF RowOK, ClaimAgrees
  <2>7. rows'[i] = p
    BY <1>2, <1>3, <2>1, <2>3
  <2>8. \A c \in Lasting : q[c] # NULL => p[c] # NULL
    BY <2>5 DEF Lasting
  <2>9. QED
    BY <1>1, <2>1, <2>6, <2>7, <2>8
<1>4. ASSUME NEW s \in Sessions, session'[s] # NULL
      PROVE  /\ session[s] # NULL /\ session'[s].insert = session[s].insert
             /\ WorkOK(session'[s], rows', used', sent')
  <2>1. PICK work : work = session[s]
    OBVIOUS
  <2>2. work # NULL /\ WorkOK(work, rows, used, sent)
    BY <1>1, <1>4, <2>1 DEF IInv
  <2>3. PICK writes : writes = [i \in Ids |-> [c \in DOMAIN work.writes[i] |->
                                                 AgedColumn(c, work.writes[i][c])]]
    OBVIOUS
  <2>4. PICK older : older = [work EXCEPT !.writes = writes]
    OBVIOUS
  <2>5. session'[s] = older
    BY <1>1, <2>1, <2>2, <2>3, <2>4
  <2>6. /\ DOMAIN older = {"op", "writes", "insert", "delete", "token"}
        /\ older.op = work.op /\ older.writes = writes /\ older.insert = work.insert
        /\ older.delete = work.delete /\ older.token = work.token
    BY <2>2, <2>4 DEF WorkOK
  <2>7. ASSUME NEW i \in Ids
        PROVE  /\ WriteOK(writes[i]) /\ DOMAIN writes[i] = DOMAIN work.writes[i]
               /\ \A c \in DOMAIN writes[i] : writes[i][c] = NULL <=> work.writes[i][c] = NULL
               /\ "asked" \in DOMAIN writes[i] => writes[i]["asked"] = work.writes[i]["asked"]
               /\ "status" \in DOMAIN writes[i] => writes[i]["status"] = work.writes[i]["status"]
    <3>1. PICK w : w = work.writes[i]
      OBVIOUS
    <3>2. PICK v : v = [c \in DOMAIN w |-> AgedColumn(c, w[c])]
      OBVIOUS
    <3>3. v = writes[i]
      BY <2>3, <3>1, <3>2
    <3>4. WriteOK(w)
      BY <2>2, <3>1 DEF WorkOK
    <3>5. QED
      BY <3>1, <3>2, <3>3, <3>4, AgedWrite
  <2>8. ASSUME NEW i \in Ids \ {work.insert}
        PROVE  /\ UpdateOK(writes[i], work.op, rows'[i], sent'[i])
               /\ DOMAIN writes[i] # {} => i \in used'
    <3>1. PICK w, v : w = work.writes[i] /\ v = writes[i]
      OBVIOUS
    <3>2. /\ WriteOK(v) /\ DOMAIN v = DOMAIN w
          /\ \A c \in DOMAIN v : v[c] = NULL <=> w[c] = NULL
          /\ "asked" \in DOMAIN v => v["asked"] = w["asked"]
          /\ "status" \in DOMAIN v => v["status"] = w["status"]
      BY <2>7, <3>1
    <3>3. UpdateOK(w, work.op, rows[i], sent[i]) /\ (DOMAIN w # {} => i \in used)
      BY <2>2, <3>1 DEF WorkOK
    <3>4. UpdateOK(v, work.op, rows[i], sent[i])
      BY <3>2, <3>3 DEF UpdateOK
    <3>5. ASSUME NEW c \in Lasting, Has(rows[i], c)
          PROVE  Has(rows'[i], c)
      BY <1>2, <1>3, <3>5 DEF Has
    <3>6. sent[i] \in Nat /\ sent[i] <= sent[i]
      BY DEF IInv
    <3>7. UpdateOK(v, work.op, rows'[i], sent[i])
      BY <3>2, <3>4, <3>5, <3>6, UpdateKept
    <3>8. QED
      BY <1>1, <3>1, <3>2, <3>3, <3>7
  <2>9. WorkType(older)
    BY <2>2, <2>6, <2>7 DEF WorkOK, WorkType
  <2>10. ASSUME work.insert # NULL
         PROVE  /\ work.insert \notin used' /\ writes[work.insert] \in Row
                /\ writes[work.insert].status = "pending" /\ writes[work.insert].asked = 0
    <3>1. PICK i \in Ids : i = work.insert
      BY <2>2, <2>10 DEF WorkOK, WorkType
    <3>2. PICK w : w = work.writes[i]
      OBVIOUS
    <3>3. w \in Row /\ w.status = "pending" /\ w.asked = 0 /\ i \notin used
      BY <2>2, <2>10, <3>1, <3>2 DEF WorkOK
    <3>4. PICK v : v = writes[i]
      OBVIOUS
    <3>5. v = [c \in DOMAIN w |-> AgedColumn(c, w[c])]
      BY <2>3, <3>2, <3>4
    <3>6. PICK p : p = Aged(w)
      OBVIOUS
    <3>7. /\ p \in Row /\ p.status = "pending" /\ p.asked = 0
          /\ \A c \in Columns : AgedColumn(c, w[c]) = p[c]
      BY <3>3, <3>6, AgedType, AgedColumns
    <3>8. v = p
      <4>1. v = [c \in Columns |-> p[c]]
        BY <3>3, <3>5, <3>7, Columnwise
      <4>2. QED
        BY <3>7, <4>1, Columnwise
    <3>9. QED
      BY <1>1, <3>1, <3>3, <3>4, <3>7, <3>8
  <2>11. WorkOK(older, rows', used', sent')
    BY <2>6, <2>7, <2>8, <2>9, <2>10 DEF WorkOK
  <2>12. QED
    BY <2>1, <2>2, <2>5, <2>6, <2>11
<1>5. \A t, u \in Sessions : t # u /\ session'[t] # NULL /\ session'[u] # NULL =>
        session'[t].insert = NULL \/ session'[t].insert # session'[u].insert
  BY <1>4 DEF IInv
<1>6. rows' \in Table
  BY <1>1, SweptTypes DEF IInv
<1>7. \A i \in Ids : /\ rows'[i] # NULL => i \in used'
                     /\ RowOK(i, rows'[i], sent'[i], patched')
  BY <1>1, <1>2, <1>3 DEF IInv, RowOK
<1>8. DOMAIN session' = Sessions
  BY <1>1
<1>9. QED
  BY <1>1, <1>4, <1>5, <1>6, <1>7, <1>8 DEF IInv

---------------------------------------------------------------------------
(* The invariant                                                           *)

LEMMA InitKept == Init => IInv
<1>1. ASSUME Init
      PROVE  IInv
  BY <1>1 DEF Init, IInv, Table, RowOK
<1>2. QED
  BY <1>1

LEMMA RequestsKept ==
  ASSUME IInv, NEW s \in Sessions, Requests(s)
  PROVE  IInv'
<1>1. ASSUME NEW i \in Present, NEW c \in Channels, NEW t \in {NULL, rows[i].token},
             BeginAsked(s, i, c, t)
      PROVE  IInv'
  <2>1. i \in Ids
    BY DEF Present, RowsOf
  <2>2. QED
    BY <1>1, <2>1, AskedBegun
<1>2. QED
  BY <1>1, CreateBegun, UpdateBegun, PatchBegun, ClaimBegun, AnswerBegun, ResolveBegun,
     DeleteBegun DEF Requests

LEMMA NextKept == IInv /\ [Next]_vars => IInv'
<1>1. ASSUME IInv, Next
      PROVE  IInv'
  BY <1>1, TickKept, RequestsKept, JobsBegun, CommitKept, RollbackKept DEF Next
<1>2. ASSUME IInv, UNCHANGED vars
      PROVE  IInv'
  BY <1>2 DEF vars, IInv
<1>3. QED
  BY <1>1, <1>2

LEMMA Agree == IInv => SessionsAgree
<1> SUFFICES ASSUME IInv PROVE SessionsAgree
  OBVIOUS
<1>2. TypeOK
  <2>0. rows \in Table /\ sent \in [Ids -> Nat]
    BY DEF IInv
  <2>1. rows \in [Ids -> Row \cup {NULL}] /\ sent \in [Ids -> Nat]
    BY <2>0 DEF Table
  <2>2. used \subseteq Ids /\ patched \subseteq Ids
    BY DEF IInv
  <2>3. \A s \in Sessions : session[s] # NULL => WorkType(session[s])
    BY DEF IInv, WorkOK
  <2>4. QED
    BY <2>1, <2>2, <2>3 DEF TypeOK
<1>3. ASSUME NEW i \in Present
      PROVE  /\ ClaimAgrees(rows[i]) /\ rows[i].asked <= sent[i]
             /\ i \notin patched =>
                  /\ rows[i].status = "resolved" => rows[i].answered # NULL
                  /\ rows[i].status = "asked" =>
                       rows[i].lastAsked # NULL /\ rows[i].lastChannel # NULL /\ rows[i].asked > 0
  <2>1. i \in Ids /\ rows[i] # NULL
    BY DEF Present, RowsOf
  <2>2. RowOK(i, rows[i], sent[i], patched)
    BY <2>1 DEF IInv
  <2>3. QED
    BY <2>1, <2>2 DEF RowOK
<1>4. ClaimColumnsAgree
  BY <1>3 DEF ClaimColumnsAgree, ClaimAgrees
<1>5. AskedNeverOvercounts /\ ResolvedHasAnswer /\ AskedHasDelivery
  BY <1>3 DEF AskedNeverOvercounts, ResolvedHasAnswer, AskedHasDelivery
<1>6. QED
  BY <1>2, <1>4, <1>5 DEF SessionsAgree

\* Whatever transactions overlap, and whenever they commit or are rolled back, the claim of
\* a row is there as a whole or not at all, its count never exceeds the deliveries on
\* record, and a question that was asked or resolved has the delivery or the answer the
\* sweeps look for, unless a PATCH set its status.
THEOREM SessionsKept == Spec => []SessionsAgree
<1>1. Spec => []IInv
  BY InitKept, NextKept, PTL DEF Spec
<1>2. QED
  BY <1>1, Agree, PTL
=============================================================================
