----------------------------- MODULE SearchIndex -----------------------------
(***************************************************************************)
(* The index of notes, and that of files, in the decision system: a row    *)
(* for a path, the chunks of its text with their embeddings, and a search  *)
(* that adds up how close the chunks are and what the row says.            *)
(*                                                                         *)
(* A call runs in a transaction of its own and calls overlap. The chunks   *)
(* are deleted by a statement that waits for another call's; the row and   *)
(* the new chunks are written when the call commits, of the row only the   *)
(* columns that differ from what the call read. Callers are members of a   *)
(* family that keeps files. Left out: columns that are kept as they come,  *)
(* the event told after the commit, and the proxy to the file service.     *)
(***************************************************************************)
EXTENDS Integers, Sequences, FiniteSets

CONSTANTS
  Paths,
  Texts,      \* what there may be to embed; NoText is one of them
  NoText,
  Owners,
  Sessions,
  Near(_),    \* text -> closeness of its best chunk to the query
  Stray,      \* closeness of a hash
  Words(_),   \* text -> share of the query's words it has
  Weight(_),  \* path -> what its type and date add
  Limit,      \* rows of the semantic query
  NULL

VARIABLES
  rows,    \* path -> NULL or its row
  chunks,  \* path -> NULL or the text its chunks were cut from and whether the provider
           \* embedded them: when it fails a hash stands for the embedding
  tx       \* session -> NULL or its call

vars == <<rows, chunks, tx>>

Row == [text : Texts, owner : Owners]
Chunk == [text : Texts, sound : BOOLEAN]
Call == [path : Paths, text : Texts, owner : Owners, read : Row \cup {NULL},
         step : {"read", "waiting", "emptied", "held"}]

\* What a score is added up from is never below zero (1 / (1 + distance)), and nothing that
\* is there is the absence of it.
SearchIndexAssumption ==
  /\ IsFiniteSet(Paths)
  /\ Limit \in Nat /\ Stray \in Nat
  /\ \A t \in Texts : Near(t) \in Nat /\ Words(t) \in Nat
  /\ \A p \in Paths : Weight(p) \in Nat
  /\ NULL \notin Row \cup Chunk \cup Call

Same(s, t) == tx[t] # NULL /\ t # s /\ tx[t].path = tx[s].path

TypeOK ==
  /\ rows \in [Paths -> Row \cup {NULL}]
  /\ chunks \in [Paths -> Chunk \cup {NULL}]
  /\ tx \in [Sessions -> Call \cup {NULL}]

---------------------------------------------------------------------------
(* Indexing: upsert_note_document, upsert_file_document                    *)

\* The row of the path is looked for.
Begin(s) ==
  /\ tx[s] = NULL
  /\ \E p \in Paths, t \in Texts, o \in Owners :
       tx' = [tx EXCEPT ![s] = [path |-> p, text |-> t, owner |-> o, read |-> rows[p],
                                step |-> "read"]]
  /\ UNCHANGED <<rows, chunks>>

\* A row that was not there is inserted at once, which waits for a call that inserts it too
\* and fails when there is one. Then the chunks are deleted, those another call deletes after
\* waiting for it.
DeleteChunks(s) ==
  /\ tx[s] # NULL /\ tx[s].step = "read"
  /\ tx[s].read = NULL =>
       /\ rows[tx[s].path] = NULL
       /\ \A t \in Sessions : Same(s, t) /\ tx[t].read = NULL => tx[t].step = "read"
  /\ tx' = [tx EXCEPT ![s].step =
              IF chunks[tx[s].path] = NULL THEN "emptied"
              ELSE IF \E t \in Sessions : Same(s, t) /\ tx[t].step = "held" THEN "waiting"
              ELSE "held"]
  /\ UNCHANGED <<rows, chunks>>

\* The calls waiting to delete the chunks that s deletes.
Waiting(s) == {t \in Sessions : Same(s, t) /\ tx[t].step = "waiting" /\ tx[s].step = "held"}

\* s ends. A waiting call finds the chunks gone if s committed; else one of them deletes them.
Woken(s, committed) ==
  LET first == IF committed THEN {} ELSE {CHOOSE t \in Waiting(s) : TRUE}
  IN  [t \in Sessions |->
         IF t = s THEN NULL
         ELSE IF t \notin Waiting(s) THEN tx[t]
         ELSE IF committed THEN [tx[t] EXCEPT !.step = "emptied"]
         ELSE IF t \in first THEN [tx[t] EXCEPT !.step = "held"] ELSE tx[t]]

\* The chunks that are there when s inserts its own.
Remaining(s) == IF tx[s].step = "held" THEN NULL ELSE chunks[tx[s].path]

\* Mutant: a chunk that is there is kept instead of failing the insertion.
NeverClashes(s) == FALSE

\* Both calls number their chunks from 0.
Clashes(s) == tx[s].text # NoText /\ Remaining(s) # NULL

\* The path's chunks when s has inserted its own, embedded by the provider or as hashes.
Inserted(s, sound) ==
  IF Remaining(s) # NULL THEN Remaining(s)
  ELSE IF tx[s].text = NoText THEN NULL ELSE [text |-> tx[s].text, sound |-> sound]

\* A column is written when the call changes it.
Written(new, read, now) == IF new = read THEN now ELSE new

Commit(s) ==
  /\ tx[s] # NULL /\ tx[s].step \in {"emptied", "held"} /\ ~Clashes(s)
  /\ LET p == tx[s].path
         c == tx[s]
     IN  /\ rows' = [rows EXCEPT ![p] =
              IF c.read = NULL THEN [text |-> c.text, owner |-> c.owner]
              ELSE [text  |-> Written(c.text, c.read.text, @.text),
                    owner |-> Written(c.owner, c.read.owner, @.owner)]]
         /\ \E sound \in BOOLEAN : chunks' = [chunks EXCEPT ![p] = Inserted(s, sound)]
  /\ tx' = Woken(s, TRUE)

\* The insertion of the chunks, or anything else of the call, fails.
Fail(s) ==
  /\ tx[s] # NULL /\ tx[s].step # "waiting"
  /\ tx' = Woken(s, FALSE)
  /\ UNCHANGED <<rows, chunks>>

---------------------------------------------------------------------------
(* Searching: search_notes, search_files                                   *)

Closeness(c) == IF c.sound THEN Near(c.text) ELSE Stray

\* Mutant: the semantic query does not order what it limits.
NearestUnordered ==
  LET embedded == {p \in Paths : chunks[p] # NULL}
  IN  {S \in SUBSET embedded : Cardinality(S) = IF Limit < Cardinality(embedded)
                                                THEN Limit ELSE Cardinality(embedded)}

\* The rows the semantic query may answer, of every owner: of rows as close any may be cut.
Nearest ==
  LET embedded == {p \in Paths : chunks[p] # NULL}
  IN  {S \in SUBSET embedded :
         /\ Cardinality(S) = IF Limit < Cardinality(embedded) THEN Limit ELSE Cardinality(embedded)
         /\ \A p \in S, q \in embedded \ S : Closeness(chunks[p]) >= Closeness(chunks[q])}

Close(p, S) == IF p \in S THEN Closeness(chunks[p]) ELSE 0

\* In hundredths, as the code weighs them.
Score(p, S) == 45 * Close(p, S) + 30 * Words(rows[p].text) + Weight(p)

\* The rows of an owner, best first; as many as are asked for are answered.
Answers(owner, S) ==
  LET found == {p \in Paths : rows[p] # NULL /\ rows[p].owner = owner /\ Score(p, S) > 0}
  IN  {r \in [1..Cardinality(found) -> found] :
         /\ \A i, j \in DOMAIN r : i # j => r[i] # r[j]
         /\ \A i, j \in DOMAIN r : i < j => Score(r[i], S) >= Score(r[j], S)}

---------------------------------------------------------------------------
Init ==
  /\ rows = [p \in Paths |-> NULL]
  /\ chunks = [p \in Paths |-> NULL]
  /\ tx = [s \in Sessions |-> NULL]

Next == \E s \in Sessions : Begin(s) \/ DeleteChunks(s) \/ Commit(s) \/ Fail(s)

Spec == Init /\ [][Next]_vars

\* Whatever calls overlap, wait for each other and fail: the call that changes a path's row or
\* chunks over the row it had read leaves a row whose chunks are cut from the row's own text
\* (upsert_note_document: the delete, the numbered chunks and the columns that are written).
ChunksMatchRow ==
  [][\A s \in Sessions : tx[s] # NULL /\ <<rows, chunks>>' # <<rows, chunks>> /\ tx'[s] = NULL =>
       LET p == tx[s].path
       IN  rows[p] = tx[s].read /\ rows'[p].text # NoText
           => chunks'[p] # NULL /\ chunks'[p].text = rows'[p].text]_vars

\* Of two rows of an owner whose chunks the provider embedded, the one closer to the query is
\* answered first unless the other has more of its words, a better type or a better date,
\* whatever rows of other owners the semantic query finds and wherever it is cut
\* (_semantic_scores, search_notes).
CloserComesFirst ==
  \A owner \in Owners, S \in Nearest : \A r \in Answers(owner, S) : \A i, j \in DOMAIN r :
    LET p == r[i]
        q == r[j]
    IN  /\ \A x \in {p, q} : chunks[x] # NULL /\ chunks[x].sound
        /\ Near(chunks[p].text) > Near(chunks[q].text)
        /\ Words(rows[p].text) >= Words(rows[q].text)
        /\ Weight(p) >= Weight(q)
        => i < j \/ Score(p, S) = Score(q, S)
=============================================================================
