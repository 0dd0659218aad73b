---------------------------- MODULE FileJobsProofs ----------------------------
(***************************************************************************)
(* Proofs about FileJobs, for every set of documents, texts, writers and   *)
(* worker processes: a mirror job is completed only if it was done, and    *)
(* chunks match the text of their document. And about SearchIndex, for     *)
(* every set of paths, texts and calls: chunks match the row they are      *)
(* indexed under, and the closer of two rows is found first. And about     *)
(* FileInbox, for every set of notes, names and runs: an undisturbed note  *)
(* is in one place with what people last wrote.                            *)
(*                                                                         *)
(* Both of the first need what the transactions in progress are about to   *)
(* write. Progress: no row they refer to is gone when they commit, and a   *)
(* mirror job whose completion is not committed yet has reached the        *)
(* memory. ChunksInv: a transaction that is not doomed finds the chunks    *)
(* and the text it based its writes on, because whoever changes them       *)
(* inserts under the same keys; what it keeps it does not write.           *)
(*                                                                         *)
(* SearchInv: a row that a call found when it began is still there when it *)
(* commits, whatever calls overlap.                                        *)
(*                                                                         *)
(* InboxInv: an undisturbed note is where the one run that has listed it   *)
(* believes it is, and the text that run is about to write is what the     *)
(* note says.                                                              *)
(***************************************************************************)
EXTENDS MCFileJobs, FiniteSetTheorems, TLAPS

---------------------------------------------------------------------------
(* What is in progress                                                     *)

DocWrite == [from : Doc \cup {NULL}, to : Doc, found : SUBSET Cut,
             inserted : SUBSET Cut, failed : BOOLEAN]
JobWrite == [payload : Texts, how : {"insert", "reset", "payload"}]

\* Writes to rows that are there, over the documents ds and the jobs js.
DocWritesOK(writes, ds) ==
  /\ DOMAIN writes \subseteq Docs
  /\ \A d \in DOMAIN writes : /\ writes[d] \in DocWrite
                              /\ writes[d].from # NULL => ds[d] # NULL

JobWritesOK(writes, js) ==
  /\ DOMAIN writes \subseteq Keys
  /\ \A k \in DOMAIN writes : /\ writes[k] \in JobWrite
                              /\ writes[k].how = "payload" => js[k] # NULL

LookedUpOK(at, ds) ==
  at # NULL => /\ at \in [doc : Docs, row : Doc \cup {NULL}]
               /\ at.row # NULL => ds[at.doc] # NULL

WriterOK(t, ds, js) ==
  /\ DOMAIN t = {"at", "docs", "jobs", "doomed"}
  /\ LookedUpOK(t.at, ds) /\ DocWritesOK(t.docs, ds) /\ JobWritesOK(t.jobs, js)

\* A mirror job a run is about to complete has reached the memory ms.
OutcomesOK(done, js, ms) ==
  /\ DOMAIN done \subseteq Keys
  /\ \A k \in DOMAIN done :
       /\ js[k] # NULL /\ done[k] \in {"completed", "failed"}
       /\ k[1] = "mirror_memory" /\ done[k] = "completed" => ms[k[2]] # {}

BatchOK(todo, js) ==
  /\ todo \in Seq([key : Keys, payload : Texts])
  /\ \A i \in 1..Len(todo) : js[todo[i].key] # NULL

RunOK(t, ds, js, ms) ==
  /\ DOMAIN t = {"todo", "at", "done", "docs", "doomed"}
  /\ BatchOK(t.todo, js) /\ OutcomesOK(t.done, js, ms) /\ DocWritesOK(t.docs, ds)
  /\ LookedUpOK(t.at, ds)
  /\ t.at # NULL => /\ t.at.row # NULL /\ t.todo # <<>>
                    /\ Head(t.todo).key[1] = "reindex_document"

Tables ==
  /\ docs \in [Docs -> Doc \cup {NULL}]
  /\ chunks \in [Docs -> SUBSET Cut]
  /\ jobs \in [Keys -> Job \cup {NULL}]
  /\ mirrored \in [Docs -> SUBSET Texts]
  /\ raced \subseteq Docs
  /\ indexed \in 0..MaxIndexed /\ deaths \in 0..MaxDeaths
  /\ DOMAIN writer = Writers /\ DOMAIN run = Runs

Progress ==
  /\ \A w \in Writers : writer[w] # NULL => WriterOK(writer[w], docs, jobs)
  /\ \A r \in Runs : run[r] # NULL => RunOK(run[r], docs, jobs, mirrored)

\* What the write x of a transaction that is not doomed finds when it
\* commits, if the row of d did not change between the two SELECTs.
Fresh(d, x, ds, cs) ==
  /\ x.inserted # {} =>
       /\ cs[d] = x.found
       /\ \A c \in x.inserted : c.text = x.to.text
       /\ x.from = NULL => ds[d] = NULL
       /\ x.from # NULL => ds[d].text = x.from.text
  /\ x.inserted = {} => x.from # NULL /\ x.from.text = x.to.text

TxFresh(t, ds, cs, rs) ==
  t # NULL /\ ~t.doomed => \A d \in DOMAIN t.docs \ rs : Fresh(d, t.docs[d], ds, cs)

EmptyBefore == \A d \in Docs \ raced : docs[d] = NULL => chunks[d] = {}

ChunksInv ==
  /\ EmptyBefore
  /\ ChunksMatchText
  /\ \A w \in Writers : TxFresh(writer[w], docs, chunks, raced)
  /\ \A r \in Runs : TxFresh(run[r], docs, chunks, raced)

IInv == Tables /\ Progress /\ CompletedWasDone /\ ChunksInv

LEMMA BatchItems ==
  ASSUME NEW todo, NEW js, BatchOK(todo, js)
  PROVE  /\ DOMAIN todo = 1..Len(todo)
         /\ \A i \in 1..Len(todo) :
              /\ todo[i] \in [key : Keys, payload : Texts]
              /\ todo[i].key \in Keys /\ todo[i].payload \in Texts
              /\ js[todo[i].key] # NULL
<1> DEFINE Item == [key : Keys, payload : Texts]
<1>1. todo \in Seq(Item)
  BY DEF BatchOK
<1>2. \A x \in Item : x.key \in Keys /\ x.payload \in Texts
  OBVIOUS
<1> HIDE DEF Item
<1>3. DOMAIN todo = 1..Len(todo) /\ \A i \in 1..Len(todo) : todo[i] \in Item
  BY <1>1
<1>4. \A i \in 1..Len(todo) : js[todo[i].key] # NULL
  BY DEF BatchOK
<1> QED
  BY <1>2, <1>3, <1>4 DEF Item

LEMMA InvTyped == Tables /\ Progress => TypeOK
<1> SUFFICES ASSUME Tables, Progress PROVE TypeOK
  OBVIOUS
<1>1. ASSUME NEW w \in Writers, writer[w] # NULL, NEW d \in DOMAIN writer[w].docs
      PROVE  writer[w].docs[d].to \in Doc
  BY <1>1 DEF Progress, WriterOK, DocWritesOK, DocWrite
<1>2. ASSUME NEW r \in Runs, run[r] # NULL, NEW i \in DOMAIN run[r].todo
      PROVE  run[r].todo[i].payload \in Texts
  <2>1. BatchOK(run[r].todo, jobs)
    BY <1>2 DEF Progress, RunOK
  <2> QED
    BY <1>2, <2>1, BatchItems
<1> QED
  BY <1>1, <1>2 DEF Tables, TypeOK

---------------------------------------------------------------------------
(* Rows and transactions                                                   *)

\* Nothing is deleted: what is there at g is there at h.
Stays(g, h, S) == \A x \in S : g[x] # NULL => h[x] # NULL

LEMMA WriterStays ==
  ASSUME NEW t, NEW ds, NEW js, NEW ds2, NEW js2, WriterOK(t, ds, js),
         Stays(ds, ds2, Docs), Stays(js, js2, Keys)
  PROVE  WriterOK(t, ds2, js2)
<1>1. LookedUpOK(t.at, ds2)
  BY DEF WriterOK, Stays, LookedUpOK
<1>2. DocWritesOK(t.docs, ds2)
  BY DEF WriterOK, Stays, DocWritesOK
<1>3. JobWritesOK(t.jobs, js2)
  BY DEF WriterOK, Stays, JobWritesOK
<1> QED
  BY <1>1, <1>2, <1>3 DEF WriterOK

LEMMA RunStays ==
  ASSUME NEW t, NEW ds, NEW js, NEW ms, NEW ds2, NEW js2, NEW ms2,
         RunOK(t, ds, js, ms), Stays(ds, ds2, Docs), Stays(js, js2, Keys),
         \A d \in Docs : ms[d] # {} => ms2[d] # {}
  PROVE  RunOK(t, ds2, js2, ms2)
<1>1. LookedUpOK(t.at, ds2)
  BY DEF RunOK, Stays, LookedUpOK
<1>2. DocWritesOK(t.docs, ds2)
  BY DEF RunOK, Stays, DocWritesOK
<1>3. BatchOK(t.todo, js2)
  <2>1. BatchOK(t.todo, js)
    BY DEF RunOK
  <2>2. \A i \in 1..Len(t.todo) : t.todo[i].key \in Keys /\ js[t.todo[i].key] # NULL
    BY <2>1, BatchItems
  <2> QED
    BY <2>1, <2>2 DEF Stays, BatchOK
<1>4. OutcomesOK(t.done, js2, ms2)
  BY DEF RunOK, Stays, OutcomesOK, Keys
<1> QED
  BY <1>1, <1>2, <1>3, <1>4 DEF RunOK

LEMMA NoWritesDomain == DOMAIN NoWrites = {}
  BY DEF NoWrites

\* What _sync_document_chunks may make of a row and its chunks, whether it is
\* forced or not.
MaySync(from, d, pieces, x) ==
  \/ /\ CutFrom(pieces, d.text)
     /\ x = [from |-> from, to |-> IF Unembedded(pieces) THEN Lexical(d) ELSE d,
             found |-> pieces, inserted |-> {}, failed |-> FALSE]
  \/ \E answers \in BOOLEAN :
       x = [from |-> from, to |-> IF answers THEN d ELSE Lexical(d), found |-> pieces,
            inserted |-> {[text |-> d.text, embedded |-> answers]},
            failed |-> ~answers]

\* What is inserted says what the row will say, and what is kept does.
SyncedOK(x, from, pieces) ==
  /\ x \in DocWrite /\ x.from = from /\ x.found = pieces
  /\ \A c \in x.inserted : c.text = x.to.text
  /\ x.inserted = {} => pieces # {} /\ \A c \in pieces : c.text = x.to.text

LEMMA MaySyncOK ==
  ASSUME NEW from \in Doc \cup {NULL}, NEW d \in Doc, NEW pieces \in SUBSET Cut,
         NEW x, MaySync(from, d, pieces, x)
  PROVE  SyncedOK(x, from, pieces)
<1> DEFINE lexical == [text |-> d.text, status |-> "indexed_lexical_only"]
<1>1. lexical \in Doc /\ Lexical(d) = lexical /\ lexical.text = d.text
  BY DEF Doc, Lexical
<1> HIDE DEF lexical
<1>2. CASE /\ CutFrom(pieces, d.text)
           /\ x = [from |-> from, to |-> IF Unembedded(pieces) THEN Lexical(d) ELSE d,
                   found |-> pieces, inserted |-> {}, failed |-> FALSE]
  <2>1. pieces # {} /\ \A c \in pieces : c.text = d.text
    BY <1>2, FS_EmptySet DEF CutFrom
  <2> QED
    BY <1>1, <1>2, <2>1 DEF DocWrite, SyncedOK
<1>3. ASSUME NEW answers \in BOOLEAN,
             x = [from |-> from, to |-> IF answers THEN d ELSE Lexical(d),
                  found |-> pieces,
                  inserted |-> {[text |-> d.text, embedded |-> answers]},
                  failed |-> ~answers]
      PROVE  /\ x \in DocWrite /\ x.from = from /\ x.found = pieces
             /\ x.inserted # {} /\ \A c \in x.inserted : c.text = x.to.text
  <2> DEFINE cut == [text |-> d.text, embedded |-> answers]
  <2>1. cut \in Cut /\ cut.text = d.text
    BY DEF Cut, Doc
  <2>2. x = [from |-> from, to |-> IF answers THEN d ELSE lexical, found |-> pieces,
             inserted |-> {cut}, failed |-> ~answers]
    BY <1>1, <1>3
  <2> HIDE DEF cut
  <2> QED
    BY <1>1, <2>1, <2>2 DEF DocWrite
<1> QED
  BY <1>2, <1>3 DEF MaySync, SyncedOK

LEMMA IndexedOK ==
  ASSUME NEW from \in Doc \cup {NULL}, NEW text \in Texts, NEW pieces \in SUBSET Cut,
         NEW answers \in BOOLEAN, NEW x, x = Indexed(from, pieces, text, answers)
  PROVE  SyncedOK(x, from, pieces)
<1> DEFINE new == [text |-> text, status |-> "indexed"]
<1>1. new \in Doc
  BY DEF Doc
<1> HIDE DEF new
<1>2. MaySync(from, new, pieces, x)
  BY DEF Indexed, Sync, MaySync, new
<1> QED
  BY <1>1, <1>2, MaySyncOK

LEMMA ReindexedOK ==
  ASSUME NEW row \in Doc, NEW pieces \in SUBSET Cut, NEW answers \in BOOLEAN,
         NEW x, x = Reindexed(row, pieces, answers)
  PROVE  SyncedOK(x, row, pieces)
<1>1. row \in Doc \cup {NULL} /\ MaySync(row, row, pieces, x)
  BY DEF Reindexed, Sync, MaySync
<1> QED
  BY <1>1, MaySyncOK

\* What a commit leaves of a row.
LEMMA WrittenOK ==
  ASSUME NEW x \in DocWrite, NEW d \in Doc \cup {NULL}, x.from # NULL => d # NULL
  PROVE  /\ Written(d, x) \in Doc /\ Written(d, x) # NULL
         /\ x.from = NULL => Written(d, x).text = x.to.text
         /\ x.from # NULL => Written(d, x).text =
              IF x.from.text = x.to.text THEN d.text ELSE x.to.text
<1>1. x.to \in Doc /\ x.from \in Doc \cup {NULL}
  BY DEF DocWrite
<1>2. CASE x.from = NULL
  BY <1>1, <1>2, NullAssumption DEF Written
<1>3. CASE x.from # NULL
  <2> DEFINE text == IF x.from.text = x.to.text THEN d.text ELSE x.to.text
             status == IF x.from.status = x.to.status THEN d.status ELSE x.to.status
  <2>1. Written(d, x) = [text |-> text, status |-> status]
    BY <1>3 DEF Written
  <2>2. text \in Texts /\ status \in {"indexed", "indexed_lexical_only"}
    BY <1>1, <1>3 DEF Doc
  <2>3. [text |-> text, status |-> status] \in Doc
    BY <2>2 DEF Doc
  <2> QED
    BY <1>3, <2>1, <2>3, NullAssumption
<1> QED
  BY <1>2, <1>3

LEMMA EnqueueOK ==
  ASSUME NEW j \in Job \cup {NULL}, NEW payload \in Texts
  PROVE  /\ Enqueue(j, payload) \in JobWrite
         /\ Enqueue(j, payload).how = "payload" => j # NULL
  BY DEF Enqueue, JobWrite

\* Writing a job completes none.
LEMMA EnqueuedOK ==
  ASSUME NEW j \in Job \cup {NULL}, NEW e \in JobWrite, e.how = "payload" => j # NULL
  PROVE  /\ Enqueued(j, e) \in Job /\ Enqueued(j, e) # NULL
         /\ Enqueued(j, e).status = "completed" => j # NULL /\ j.status = "completed"
<1>1. e.payload \in Texts
  BY DEF JobWrite
<1>2. CASE e.how = "payload"
  <2>1. j \in Job /\ Enqueued(j, e) = [j EXCEPT !.payload = e.payload]
    BY <1>2 DEF Enqueued
  <2>2. Enqueued(j, e) \in Job /\ Enqueued(j, e).status = j.status
    BY <1>1, <2>1 DEF Job
  <2> QED
    BY <1>2, <2>2, NullAssumption
<1>3. CASE e.how # "payload"
  <2>1. Enqueued(j, e) = [status |-> "pending", payload |-> e.payload]
    BY <1>3 DEF Enqueued
  <2> QED
    BY <1>1, <2>1, NullAssumption DEF Job
<1> QED
  BY <1>2, <1>3

---------------------------------------------------------------------------
(* Commits                                                                 *)

LEMMA CommitDocsOK ==
  ASSUME Tables, NEW writes, DocWritesOK(writes, docs), CommitDocs(writes)
  PROVE  /\ docs' \in [Docs -> Doc \cup {NULL}]
         /\ chunks' \in [Docs -> SUBSET Cut]
         /\ Stays(docs, docs', Docs)
<1>1. ASSUME NEW d \in Docs
      PROVE  /\ docs'[d] \in Doc \cup {NULL}
             /\ docs[d] # NULL => docs'[d] # NULL
             /\ chunks'[d] \in SUBSET Cut
  <2>1. docs[d] \in Doc \cup {NULL} /\ chunks[d] \in SUBSET Cut
    BY DEF Tables
  <2>2. CASE d \in DOMAIN writes
    <3>1. /\ writes[d] \in DocWrite
          /\ writes[d].from # NULL => docs[d] # NULL
          /\ writes[d].inserted \in SUBSET Cut
      BY <2>2 DEF DocWritesOK, DocWrite
    <3>2. docs'[d] = Written(docs[d], writes[d])
      BY <2>2 DEF CommitDocs
    <3> QED
      BY <2>1, <2>2, <3>1, <3>2, WrittenOK DEF CommitDocs
  <2>3. CASE d \notin DOMAIN writes
    BY <2>1, <2>3 DEF CommitDocs
  <2> QED
    BY <2>2, <2>3
<1> QED
  BY <1>1 DEF CommitDocs, Stays

\* A transaction that is not doomed leaves chunks that match the text.
LEMMA CommitMatches ==
  ASSUME Tables, ChunksInv, NEW writes, DocWritesOK(writes, docs), CommitDocs(writes),
         \A d \in DOMAIN writes \ raced : Fresh(d, writes[d], docs, chunks),
         raced' = raced
  PROVE  EmptyBefore' /\ ChunksMatchText'
<1>1. ASSUME NEW d \in Docs \ raced
      PROVE  /\ docs'[d] = NULL => chunks'[d] = {}
             /\ docs'[d] # NULL => \A c \in chunks'[d] : c.text = docs'[d].text
  <2>1. /\ docs[d] = NULL => chunks[d] = {}
        /\ docs[d] # NULL => \A c \in chunks[d] : c.text = docs[d].text
    BY DEF ChunksInv, EmptyBefore, ChunksMatchText
  <2>2. CASE d \notin DOMAIN writes
    BY <2>1, <2>2 DEF CommitDocs
  <2>3. CASE d \in DOMAIN writes
    <3> DEFINE x == writes[d]
    <3>1. /\ x \in DocWrite
          /\ x.from # NULL => docs[d] # NULL
          /\ docs[d] \in Doc \cup {NULL}
      BY <2>3 DEF DocWritesOK, Tables
    <3>2. Fresh(d, x, docs, chunks)
      BY <2>3
    <3>3. docs'[d] = Written(docs[d], x)
      BY <2>3 DEF CommitDocs
    <3>4. chunks'[d] = IF x.inserted # {} THEN (chunks[d] \ x.found) \cup x.inserted
                       ELSE chunks[d]
      BY <2>3 DEF CommitDocs
    <3> HIDE DEF x
    <3>5. CASE x.inserted # {}
      <4>1. chunks'[d] = x.inserted
        BY <3>2, <3>4, <3>5 DEF Fresh
      <4>2. Written(docs[d], x).text = x.to.text
        BY <3>1, <3>2, <3>5, WrittenOK DEF Fresh
      <4> QED
        BY <3>1, <3>2, <3>3, <3>5, <4>1, <4>2, WrittenOK DEF Fresh
    <3>6. CASE x.inserted = {}
      <4>1. x.from # NULL /\ Written(docs[d], x).text = docs[d].text
        BY <3>1, <3>2, <3>6, WrittenOK DEF Fresh
      <4> QED
        BY <2>1, <3>1, <3>3, <3>4, <3>6, <4>1, WrittenOK
    <3> QED
      BY <3>5, <3>6
  <2> QED
    BY <2>2, <2>3
<1> QED
  BY <1>1 DEF EmptyBefore, ChunksMatchText

\* What another transaction is to write stays fresh, unless both insert.
LEMMA CommitKeepsFresh ==
  ASSUME Tables, NEW writes, DocWritesOK(writes, docs), CommitDocs(writes),
         NEW d \in Docs, NEW x \in DocWrite, Fresh(d, x, docs, chunks),
         x.from # NULL => docs[d] # NULL,
         d \in DOMAIN writes => Fresh(d, writes[d], docs, chunks),
         d \in DOMAIN writes /\ (writes[d].inserted # {} \/ writes[d].from = NULL)
           => x.inserted = {} /\ x.from # NULL
  PROVE  Fresh(d, x, docs', chunks')
<1>1. CASE d \notin DOMAIN writes
  <2>1. docs'[d] = docs[d] /\ chunks'[d] = chunks[d]
    BY <1>1 DEF CommitDocs
  <2> QED
    BY <2>1 DEF Fresh
<1>2. CASE x.inserted = {}
  BY <1>2 DEF Fresh
<1>3. CASE d \in DOMAIN writes /\ x.inserted # {}
  <2> DEFINE y == writes[d]
  <2>1. y.inserted = {} /\ y.from # NULL
    BY <1>3
  <2>2. /\ y \in DocWrite /\ docs[d] # NULL /\ docs[d] \in Doc \cup {NULL}
    BY <1>3, <2>1 DEF DocWritesOK, Tables
  <2>3. docs'[d] = Written(docs[d], y) /\ chunks'[d] = chunks[d]
    BY <1>3, <2>1 DEF CommitDocs
  <2>4. y.from.text = y.to.text
    BY <1>3, <2>1 DEF Fresh
  <2> HIDE DEF y
  <2>5. docs'[d].text = docs[d].text
    BY <2>1, <2>2, <2>3, <2>4, WrittenOK
  <2> QED
    BY <1>3, <2>2, <2>3, <2>5 DEF Fresh
<1> QED
  BY <1>1, <1>2, <1>3

\* A transaction in progress when another commits: gone, doomed, or without
\* an insert of the same key.
LEMMA DoomedWriters ==
  ASSUME Tables, Progress, NEW keys, NEW w, NEW r, Doomed(keys, w, r), NEW x \in Writers,
         writer'[x] # NULL
  PROVE  /\ writer[x] # NULL /\ x # w
         /\ \/ /\ writer'[x] = writer[x]
               /\ Inserts(writer[x].docs, writer[x].jobs) \cap keys = {}
            \/ /\ DOMAIN writer'[x] = DOMAIN writer[x] /\ writer'[x].doomed
               /\ writer'[x].at = writer[x].at /\ writer'[x].docs = writer[x].docs
               /\ writer'[x].jobs = writer[x].jobs
<1>1. writer'[x] = IF x = w THEN NULL
       ELSE IF writer[x] # NULL
               /\ Inserts(writer[x].docs, writer[x].jobs) \cap keys # {}
            THEN [writer[x] EXCEPT !.doomed = TRUE] ELSE writer[x]
  BY DEF Doomed
<1>2. x # w /\ writer[x] # NULL
  BY <1>1
<1>3. DOMAIN writer[x] = {"at", "docs", "jobs", "doomed"}
  BY <1>2 DEF Progress, WriterOK
<1> QED
  BY <1>1, <1>2, <1>3

LEMMA DoomedRuns ==
  ASSUME Tables, Progress, NEW keys, NEW w, NEW r, Doomed(keys, w, r), NEW x \in Runs,
         run'[x] # NULL
  PROVE  /\ run[x] # NULL /\ x # r
         /\ \/ /\ run'[x] = run[x]
               /\ Inserts(run[x].docs, <<>>) \cap keys = {}
            \/ /\ DOMAIN run'[x] = DOMAIN run[x] /\ run'[x].doomed
               /\ run'[x].todo = run[x].todo /\ run'[x].at = run[x].at
               /\ run'[x].done = run[x].done /\ run'[x].docs = run[x].docs
<1>1. run'[x] = IF x = r THEN NULL
       ELSE IF run[x] # NULL /\ Inserts(run[x].docs, <<>>) \cap keys # {}
            THEN [run[x] EXCEPT !.doomed = TRUE] ELSE run[x]
  BY DEF Doomed
<1>2. x # r /\ run[x] # NULL
  BY <1>1
<1>3. DOMAIN run[x] = {"todo", "at", "done", "docs", "doomed"}
  BY <1>2 DEF Progress, RunOK
<1> QED
  BY <1>1, <1>2, <1>3

---------------------------------------------------------------------------
(* Frames                                                                  *)

Grows == \A d \in Docs : mirrored[d] # {} => mirrored'[d] # {}

\* Nothing is committed to documents: what is in progress stays as it was.
LEMMA Frame ==
  ASSUME Tables, Progress, ChunksInv, UNCHANGED <<docs, chunks>>,
         Stays(jobs, jobs', Keys), Grows, raced \subseteq raced'
  PROVE  /\ \A w \in Writers : writer[w] # NULL => WriterOK(writer[w], docs', jobs')
         /\ \A r \in Runs : run[r] # NULL => RunOK(run[r], docs', jobs', mirrored')
         /\ \A w \in Writers : TxFresh(writer[w], docs', chunks', raced')
         /\ \A r \in Runs : TxFresh(run[r], docs', chunks', raced')
         /\ EmptyBefore' /\ ChunksMatchText'
<1>1. Stays(docs, docs', Docs)
  BY DEF Stays
<1>2. \A w \in Writers : writer[w] # NULL => WriterOK(writer[w], docs', jobs')
  BY <1>1, WriterStays DEF Progress
<1>3. \A r \in Runs : run[r] # NULL => RunOK(run[r], docs', jobs', mirrored')
  BY <1>1, RunStays DEF Progress, Grows
<1>4. /\ \A w \in Writers : TxFresh(writer[w], docs', chunks', raced')
      /\ \A r \in Runs : TxFresh(run[r], docs', chunks', raced')
  BY DEF ChunksInv, TxFresh
<1>5. EmptyBefore' /\ ChunksMatchText'
  BY DEF ChunksInv, EmptyBefore, ChunksMatchText
<1> QED
  BY <1>2, <1>3, <1>4, <1>5

LEMMA SetWriter ==
  ASSUME Tables, Progress, ChunksInv, UNCHANGED <<docs, chunks, run>>,
         Stays(jobs, jobs', Keys), Grows, raced \subseteq raced',
         NEW w \in Writers, NEW v, writer' = [writer EXCEPT ![w] = v],
         v # NULL => WriterOK(v, docs', jobs') /\ TxFresh(v, docs', chunks', raced')
  PROVE  Progress' /\ ChunksInv' /\ DOMAIN writer' = Writers /\ DOMAIN run' = Runs
<1>1. /\ DOMAIN writer' = Writers /\ DOMAIN run' = Runs
      /\ writer'[w] = v /\ \A x \in Writers \ {w} : writer'[x] = writer[x]
  BY DEF Tables
<1>2. TxFresh(v, docs', chunks', raced')
  BY DEF TxFresh
<1>3. Progress'
  BY <1>1, Frame DEF Progress
<1>4. ChunksInv'
  BY <1>1, <1>2, Frame DEF ChunksInv
<1> QED
  BY <1>1, <1>3, <1>4

LEMMA SetRun ==
  ASSUME Tables, Progress, ChunksInv, UNCHANGED <<docs, chunks, writer>>,
         Stays(jobs, jobs', Keys), Grows, raced \subseteq raced',
         NEW r \in Runs, run'[r] # NULL =>
           RunOK(run'[r], docs', jobs', mirrored') /\ TxFresh(run'[r], docs', chunks', raced'),
         \A x \in Runs \ {r} : run'[x] = run[x], DOMAIN run' = Runs
  PROVE  Progress' /\ ChunksInv' /\ DOMAIN writer' = Writers
<1>1. TxFresh(run'[r], docs', chunks', raced')
  BY DEF TxFresh
<1>2. Progress'
  BY Frame DEF Progress
<1>3. ChunksInv'
  BY <1>1, Frame DEF ChunksInv
<1> QED
  BY <1>2, <1>3 DEF Tables

\* No step but a commit of a run completes a job.
LEMMA DoneStays ==
  ASSUME CompletedWasDone, Grows,
         \A k \in Keys : jobs'[k] # NULL /\ jobs'[k].status = "completed" =>
            jobs[k] # NULL /\ jobs[k].status = "completed"
  PROVE  CompletedWasDone'
  BY DEF CompletedWasDone, Grows, Keys, Kinds

\* A transaction that is not doomed commits its documents, and dooms the
\* others that insert what it inserted.
LEMMA CommitProgress ==
  ASSUME Tables, Progress, ChunksInv, NEW writes, NEW keys, NEW w, NEW r,
         DocWritesOK(writes, docs), CommitDocs(writes), Doomed(keys, w, r),
         \A d \in DOMAIN writes \ raced : Fresh(d, writes[d], docs, chunks),
         \A d \in DOMAIN writes :
           writes[d].inserted # {} \/ writes[d].from = NULL => d \in keys,
         Stays(jobs, jobs', Keys), UNCHANGED <<mirrored, raced>>
  PROVE  /\ Progress' /\ ChunksInv'
         /\ DOMAIN writer' = Writers /\ DOMAIN run' = Runs
<1>1. Stays(docs, docs', Docs)
  BY CommitDocsOK
<1>2. ASSUME NEW x \in Writers, writer'[x] # NULL
      PROVE  WriterOK(writer'[x], docs', jobs')
  <2>1. /\ writer[x] # NULL
        /\ DOMAIN writer'[x] = DOMAIN writer[x]
        /\ writer'[x].at = writer[x].at /\ writer'[x].docs = writer[x].docs
        /\ writer'[x].jobs = writer[x].jobs
    BY <1>2, DoomedWriters
  <2>2. WriterOK(writer[x], docs', jobs')
    BY <1>1, <2>1, WriterStays DEF Progress
  <2> QED
    BY <2>1, <2>2 DEF WriterOK
<1>3. ASSUME NEW x \in Runs, run'[x] # NULL
      PROVE  RunOK(run'[x], docs', jobs', mirrored')
  <2>1. /\ run[x] # NULL
        /\ DOMAIN run'[x] = DOMAIN run[x]
        /\ run'[x].todo = run[x].todo /\ run'[x].at = run[x].at
        /\ run'[x].done = run[x].done /\ run'[x].docs = run[x].docs
    BY <1>3, DoomedRuns
  <2>2. RunOK(run[x], docs', jobs', mirrored')
    BY <1>1, <2>1, RunStays DEF Progress
  <2> QED
    BY <2>1, <2>2 DEF RunOK
<1>4. ASSUME NEW d \in Docs \ raced, NEW x \in DocWrite,
             x.from # NULL => docs[d] # NULL, Fresh(d, x, docs, chunks),
             ~ (d \in keys /\ (x.inserted # {} \/ x.from = NULL))
      PROVE  Fresh(d, x, docs', chunks')
  BY <1>4, CommitKeepsFresh
<1>5. ASSUME NEW x \in Writers PROVE TxFresh(writer'[x], docs', chunks', raced')
  <2> SUFFICES ASSUME writer'[x] # NULL, ~writer'[x].doomed,
                      NEW d \in DOMAIN writer'[x].docs \ raced
               PROVE  Fresh(d, writer'[x].docs[d], docs', chunks')
    BY DEF TxFresh
  <2>1. /\ writer[x] # NULL /\ writer'[x] = writer[x]
        /\ Inserts(writer[x].docs, writer[x].jobs) \cap keys = {}
    BY DoomedWriters
  <2>2. DocWritesOK(writer[x].docs, docs)
    BY <2>1 DEF Progress, WriterOK
  <2>3. Fresh(d, writer[x].docs[d], docs, chunks)
    BY <2>1 DEF ChunksInv, TxFresh
  <2>4. d \in keys => writer[x].docs[d].inserted = {} /\ writer[x].docs[d].from # NULL
    BY <2>1 DEF Inserts
  <2>5. /\ d \in Docs /\ writer[x].docs[d] \in DocWrite
        /\ writer[x].docs[d].from # NULL => docs[d] # NULL
    BY <2>1, <2>2 DEF DocWritesOK
  <2> QED
    BY <1>4, <2>1, <2>3, <2>4, <2>5
<1>6. ASSUME NEW x \in Runs PROVE TxFresh(run'[x], docs', chunks', raced')
  <2> SUFFICES ASSUME run'[x] # NULL, ~run'[x].doomed,
                      NEW d \in DOMAIN run'[x].docs \ raced
               PROVE  Fresh(d, run'[x].docs[d], docs', chunks')
    BY DEF TxFresh
  <2>1. /\ run[x] # NULL /\ run'[x] = run[x]
        /\ Inserts(run[x].docs, <<>>) \cap keys = {}
    BY DoomedRuns
  <2>2. DocWritesOK(run[x].docs, docs)
    BY <2>1 DEF Progress, RunOK
  <2>3. Fresh(d, run[x].docs[d], docs, chunks)
    BY <2>1 DEF ChunksInv, TxFresh
  <2>4. d \in keys => run[x].docs[d].inserted = {} /\ run[x].docs[d].from # NULL
    BY <2>1 DEF Inserts
  <2>5. /\ d \in Docs /\ run[x].docs[d] \in DocWrite
        /\ run[x].docs[d].from # NULL => docs[d] # NULL
    BY <2>1, <2>2 DEF DocWritesOK
  <2> QED
    BY <1>4, <2>1, <2>3, <2>4, <2>5
<1>7. EmptyBefore' /\ ChunksMatchText'
  BY CommitMatches
<1> QED
  BY <1>2, <1>3, <1>5, <1>6, <1>7 DEF Progress, ChunksInv, Doomed

\* What is synchronised from the row as it is, with the chunks as they are.
LEMMA SyncFresh ==
  ASSUME Tables, ChunksInv, NEW d \in Docs \ raced, NEW x,
         SyncedOK(x, docs[d], chunks[d])
  PROVE  Fresh(d, x, docs, chunks)
<1>1. /\ docs[d] = NULL => chunks[d] = {}
      /\ docs[d] # NULL => \A c \in chunks[d] : c.text = docs[d].text
  BY DEF ChunksInv, EmptyBefore, ChunksMatchText
<1>2. ASSUME x.inserted = {} PROVE x.from # NULL /\ x.from.text = x.to.text
  <2>1. PICK c \in chunks[d] : c.text = x.to.text
    BY <1>2 DEF SyncedOK
  <2>2. docs[d] # NULL /\ c.text = docs[d].text
    BY <1>1, <2>1
  <2> QED
    BY <2>1, <2>2 DEF SyncedOK
<1> QED
  BY <1>1, <1>2 DEF Fresh, SyncedOK

\* The documents of a transaction that has synchronised one more.
LEMMA PutWrites ==
  ASSUME NEW writes, NEW ds, NEW d \in Docs, NEW x \in DocWrite,
         DocWritesOK(writes, ds), x.from # NULL => ds[d] # NULL
  PROVE  DocWritesOK(Put(writes, d, x), ds)
<1> DEFINE p == Put(writes, d, x)
<1>1. /\ DOMAIN p = DOMAIN writes \cup {d} /\ p[d] = x
      /\ \A e \in DOMAIN writes \ {d} : p[e] = writes[e]
  BY DEF Put
<1> HIDE DEF p
<1>2. DocWritesOK(p, ds)
  BY <1>1 DEF DocWritesOK
<1> QED
  BY <1>2 DEF p

LEMMA PutJob ==
  ASSUME NEW writes, NEW js, NEW k \in Keys, NEW e \in JobWrite,
         JobWritesOK(writes, js), e.how = "payload" => js[k] # NULL
  PROVE  JobWritesOK(Put(writes, k, e), js)
<1> DEFINE p == Put(writes, k, e)
<1>1. /\ DOMAIN p = DOMAIN writes \cup {k} /\ p[k] = e
      /\ \A l \in DOMAIN writes \ {k} : p[l] = writes[l]
  BY DEF Put
<1> HIDE DEF p
<1>2. JobWritesOK(p, js)
  BY <1>1 DEF JobWritesOK
<1> QED
  BY <1>2 DEF p

LEMMA Synced ==
  ASSUME Tables, Progress, ChunksInv, NEW at, LookedUpOK(at, docs), at # NULL,
         NEW x, SyncedOK(x, at.row, chunks[at.doc]),
         NEW t, t # NULL, DocWritesOK(t.docs, docs), TxFresh(t, docs, chunks, raced),
         NEW u, u.docs = Put(t.docs, at.doc, x), ~u.doomed => ~t.doomed,
         Raced(at.doc, at.row), UNCHANGED <<docs, chunks>>
  PROVE  /\ DocWritesOK(u.docs, docs')
         /\ TxFresh(u, docs', chunks', raced')
         /\ raced \subseteq raced' /\ raced' \subseteq Docs
<1> DEFINE d == at.doc
<1>1. d \in Docs /\ (at.row # NULL => docs[d] # NULL)
  BY DEF LookedUpOK
<1>2. /\ raced \subseteq raced' /\ raced' \subseteq Docs
      /\ d \notin raced' => at.row = docs[d]
  BY <1>1 DEF Raced, Tables
<1>3. DocWritesOK(u.docs, docs')
  BY <1>1, PutWrites DEF SyncedOK
<1>4. ASSUME d \notin raced' PROVE Fresh(d, x, docs, chunks)
  BY <1>1, <1>2, <1>4, SyncFresh
<1>5. /\ DOMAIN u.docs = DOMAIN t.docs \cup {d} /\ u.docs[d] = x
      /\ \A e \in DOMAIN t.docs \ {d} : u.docs[e] = t.docs[e]
  BY DEF Put
<1>6. ASSUME ~u.doomed, NEW e \in DOMAIN u.docs \ raced'
      PROVE  Fresh(e, u.docs[e], docs, chunks)
  <2>1. CASE e = d
    BY <1>4, <1>5, <1>6, <2>1
  <2>2. CASE e # d
    <3>1. e \in DOMAIN t.docs \ raced /\ u.docs[e] = t.docs[e]
      BY <1>2, <1>5, <1>6, <2>2
    <3> QED
      BY <1>6, <3>1 DEF TxFresh
  <2> QED
    BY <2>1, <2>2
<1> QED
  BY <1>2, <1>3, <1>6 DEF TxFresh

---------------------------------------------------------------------------
(* Writers                                                                 *)

LEMMA LookUpStep ==
  ASSUME IInv, NEW w \in Writers, NEW d \in Docs, LookUp(w, d)
  PROVE  IInv'
<1> USE DEF IInv
<1> DEFINE t == IF writer[w] = NULL
                THEN [at |-> NULL, docs |-> NoWrites, jobs |-> NoWrites, doomed |-> FALSE]
                ELSE writer[w]
           v == [t EXCEPT !.at = [doc |-> d, row |-> docs[d]]]
<1>1. /\ writer' = [writer EXCEPT ![w] = v] /\ indexed' = indexed + 1
      /\ indexed < MaxIndexed
      /\ UNCHANGED <<docs, chunks, jobs, run, mirrored, raced, deaths>>
  BY DEF LookUp
<1>2. /\ WriterOK(t, docs, jobs)
      /\ ~t.doomed => \A e \in DOMAIN t.docs \ raced : Fresh(e, t.docs[e], docs, chunks)
  <2>1. CASE writer[w] = NULL
    <3> DEFINE n == [at |-> NULL, docs |-> NoWrites, jobs |-> NoWrites, doomed |-> FALSE]
    <3>1. /\ DOMAIN n = {"at", "docs", "jobs", "doomed"}
          /\ n.at = NULL /\ n.docs = NoWrites /\ n.jobs = NoWrites
      OBVIOUS
    <3>2. t = n
      BY <2>1
    <3> HIDE DEF t, n
    <3>3. WriterOK(n, docs, jobs)
      BY <3>1, NoWritesDomain DEF WriterOK, LookedUpOK, DocWritesOK, JobWritesOK
    <3>4. DOMAIN n.docs = {}
      BY <3>1, NoWritesDomain
    <3> QED
      BY <3>2, <3>3, <3>4
  <2>2. CASE writer[w] # NULL
    BY <2>2 DEF Progress, ChunksInv, TxFresh
  <2> QED
    BY <2>1, <2>2
<1>4. /\ DOMAIN v = {"at", "docs", "jobs", "doomed"}
      /\ v.at = [doc |-> d, row |-> docs[d]]
      /\ v.docs = t.docs /\ v.jobs = t.jobs /\ v.doomed = t.doomed
  <2> HIDE DEF t
  <2>1. DOMAIN t = {"at", "docs", "jobs", "doomed"}
    BY <1>2 DEF WriterOK
  <2> QED
    BY <2>1
<1> HIDE DEF t, v
<1>5. LookedUpOK(v.at, docs)
  BY <1>4 DEF LookedUpOK, Tables
<1>6. WriterOK(v, docs, jobs)
  BY <1>2, <1>4, <1>5 DEF WriterOK
<1>7. TxFresh(v, docs, chunks, raced)
  BY <1>2, <1>4 DEF TxFresh
<1>8. Stays(jobs, jobs', Keys) /\ Grows /\ raced \subseteq raced'
  BY <1>1 DEF Stays, Grows
<1>9. Progress' /\ ChunksInv' /\ DOMAIN writer' = Writers /\ DOMAIN run' = Runs
  BY <1>1, <1>6, <1>7, <1>8, SetWriter
<1>10. CompletedWasDone'
  BY <1>1, <1>8, DoneStays
<1>11. indexed' \in 0..MaxIndexed
  BY <1>1, FileJobsAssumption DEF Tables
<1> QED
  BY <1>1, <1>9, <1>10, <1>11 DEF Tables

LEMMA IndexStep ==
  ASSUME IInv, NEW w \in Writers, NEW text \in Texts, NEW answers \in BOOLEAN,
         NEW mirror \in BOOLEAN, IndexDocument(w, text, answers, mirror)
  PROVE  IInv'
<1> USE DEF IInv
<1> DEFINE t == writer[w]
           d == t.at.doc
           s == Indexed(t.at.row, chunks[d], text, answers)
           reindex == <<"reindex_document", d>>
           memory == <<"mirror_memory", d>>
           q == IF s.failed THEN Put(t.jobs, reindex, Enqueue(jobs[reindex], text))
                ELSE t.jobs
           m == IF mirror THEN Put(q, memory, Enqueue(jobs[memory], text)) ELSE q
           doomed == t.doomed \/ (t.at.row = NULL /\ docs[d] # NULL)
           v == [at |-> NULL, docs |-> Put(t.docs, d, s), jobs |-> m, doomed |-> doomed]
<1>1. /\ t # NULL /\ t.at # NULL
      /\ writer' = [writer EXCEPT ![w] = v]
      /\ Raced(d, t.at.row)
      /\ UNCHANGED <<docs, chunks, jobs, run, mirrored, indexed, deaths>>
  BY DEF IndexDocument
<1>2. WriterOK(t, docs, jobs) /\ TxFresh(t, docs, chunks, raced)
  BY <1>1 DEF Progress, ChunksInv
<1>3. LookedUpOK(t.at, docs) /\ DocWritesOK(t.docs, docs) /\ JobWritesOK(t.jobs, jobs)
  BY <1>2 DEF WriterOK
<1>4. d \in Docs /\ t.at.row \in Doc \cup {NULL}
  BY <1>1, <1>3 DEF LookedUpOK
<1>5. SyncedOK(s, t.at.row, chunks[d])
  <2>1. chunks[d] \in SUBSET Cut
    BY <1>4 DEF Tables
  <2> DEFINE from == t.at.row  pieces == chunks[d]
  <2>2. s = Indexed(from, pieces, text, answers)
    OBVIOUS
  <2>3. from \in Doc \cup {NULL} /\ pieces \in SUBSET Cut
    BY <1>4, <2>1
  <2> HIDE DEF t, d, s, from, pieces
  <2>4. SyncedOK(s, from, pieces)
    BY <2>2, <2>3, IndexedOK
  <2> QED
    BY <2>4 DEF from, pieces
<1>6. reindex \in Keys /\ memory \in Keys
  BY <1>4 DEF Keys, Kinds
<1>7. /\ Enqueue(jobs[reindex], text) \in JobWrite
      /\ Enqueue(jobs[reindex], text).how = "payload" => jobs[reindex] # NULL
      /\ Enqueue(jobs[memory], text) \in JobWrite
      /\ Enqueue(jobs[memory], text).how = "payload" => jobs[memory] # NULL
  <2>1. jobs[reindex] \in Job \cup {NULL} /\ jobs[memory] \in Job \cup {NULL}
    BY <1>6 DEF Tables
  <2> HIDE DEF reindex, memory
  <2> QED
    BY <2>1, EnqueueOK
<1> HIDE DEF reindex, memory, s
<1>8. JobWritesOK(q, jobs)
  BY <1>3, <1>6, <1>7, PutJob
<1> HIDE DEF q
<1>9. JobWritesOK(m, jobs)
  BY <1>6, <1>7, <1>8, PutJob
<1>10. /\ DOMAIN v = {"at", "docs", "jobs", "doomed"}
       /\ v.at = NULL /\ v.docs = Put(t.docs, d, s) /\ v.jobs = m
       /\ ~v.doomed => ~t.doomed
  OBVIOUS
<1> HIDE DEF m, v, d
<1>11. /\ DocWritesOK(v.docs, docs') /\ TxFresh(v, docs', chunks', raced')
       /\ raced \subseteq raced' /\ raced' \subseteq Docs
  <2> HIDE DEF t
  <2>1. UNCHANGED <<docs, chunks>> /\ t.at # NULL /\ t # NULL
    BY <1>1
  <2> QED
    BY <1>1, <1>2, <1>3, <1>5, <1>10, <2>1, Synced DEF d
<1>12. WriterOK(v, docs', jobs')
  BY <1>1, <1>9, <1>10, <1>11 DEF WriterOK, LookedUpOK
<1>13. Stays(jobs, jobs', Keys) /\ Grows
  BY <1>1 DEF Stays, Grows
<1>14. Progress' /\ ChunksInv' /\ DOMAIN writer' = Writers /\ DOMAIN run' = Runs
  BY <1>1, <1>11, <1>12, <1>13, SetWriter
<1>15. CompletedWasDone'
  BY <1>1, <1>13, DoneStays
<1> QED
  BY <1>1, <1>11, <1>14, <1>15 DEF Tables

LEMMA CommitIndexStep ==
  ASSUME IInv, NEW w \in Writers, CommitIndex(w)
  PROVE  IInv'
<1> USE DEF IInv
<1> DEFINE t == writer[w]
<1>1. t # NULL /\ UNCHANGED <<mirrored, raced, indexed, deaths>>
  BY DEF CommitIndex
<1>2. WriterOK(t, docs, jobs) /\ TxFresh(t, docs, chunks, raced)
  BY <1>1 DEF Progress, ChunksInv
<1>3. Grows
  BY <1>1 DEF Grows
<1>4. CASE t.doomed
  <2>1. /\ writer' = [writer EXCEPT ![w] = NULL]
        /\ UNCHANGED <<docs, chunks, jobs, run>>
    BY <1>4 DEF CommitIndex
  <2>2. Stays(jobs, jobs', Keys) /\ raced \subseteq raced'
    BY <1>1, <2>1 DEF Stays
  <2>3. Progress' /\ ChunksInv' /\ DOMAIN writer' = Writers /\ DOMAIN run' = Runs
    BY <1>3, <2>1, <2>2, SetWriter
  <2>4. CompletedWasDone'
    BY <1>3, <2>1, DoneStays
  <2> QED
    BY <1>1, <2>1, <2>3, <2>4 DEF Tables
<1>5. CASE ~t.doomed
  <2> DEFINE keys == Inserts(t.docs, t.jobs)
  <2>1. /\ CommitDocs(t.docs)
        /\ jobs' = [k \in Keys |-> IF k \in DOMAIN t.jobs
                                   THEN Enqueued(jobs[k], t.jobs[k]) ELSE jobs[k]]
        /\ Doomed(keys, w, NULL)
    BY <1>5 DEF CommitIndex
  <2>2. DocWritesOK(t.docs, docs) /\ JobWritesOK(t.jobs, jobs)
    BY <1>2 DEF WriterOK
  <2>3. \A d \in DOMAIN t.docs \ raced : Fresh(d, t.docs[d], docs, chunks)
    BY <1>1, <1>2, <1>5 DEF TxFresh
  <2>4. \A d \in DOMAIN t.docs :
          t.docs[d].inserted # {} \/ t.docs[d].from = NULL => d \in keys
    BY DEF Inserts
  <2>5. ASSUME NEW k \in Keys
        PROVE  /\ jobs'[k] \in Job \cup {NULL}
               /\ jobs[k] # NULL => jobs'[k] # NULL
               /\ jobs'[k] # NULL /\ jobs'[k].status = "completed" =>
                    jobs[k] # NULL /\ jobs[k].status = "completed"
    <3>1. jobs[k] \in Job \cup {NULL}
      BY DEF Tables
    <3>2. CASE k \in DOMAIN t.jobs
      <4>1. /\ t.jobs[k] \in JobWrite
            /\ t.jobs[k].how = "payload" => jobs[k] # NULL
        BY <2>2, <3>2 DEF JobWritesOK
      <4>2. jobs'[k] = Enqueued(jobs[k], t.jobs[k])
        BY <2>1, <3>2
      <4> HIDE DEF t
      <4> QED
        BY <3>1, <4>1, <4>2, EnqueuedOK
    <3>3. CASE k \notin DOMAIN t.jobs
      BY <2>1, <3>1, <3>3
    <3> QED
      BY <3>2, <3>3
  <2>6. Stays(jobs, jobs', Keys) /\ jobs' \in [Keys -> Job \cup {NULL}]
    BY <2>1, <2>5 DEF Stays
  <2> HIDE DEF keys
  <2>7. /\ Progress' /\ ChunksInv'
        /\ DOMAIN writer' = Writers /\ DOMAIN run' = Runs
    <3> HIDE DEF t
    <3>1. UNCHANGED <<mirrored, raced>>
      BY <1>1
    <3> QED
      BY <2>1, <2>2, <2>3, <2>4, <2>6, <3>1, CommitProgress
  <2>8. CompletedWasDone'
    BY <1>3, <2>5, DoneStays
  <2>9. docs' \in [Docs -> Doc \cup {NULL}] /\ chunks' \in [Docs -> SUBSET Cut]
    BY <2>1, <2>2, CommitDocsOK
  <2> QED
    BY <1>1, <2>6, <2>7, <2>8, <2>9 DEF Tables
<1> QED
  BY <1>4, <1>5

LEMMA PostStep ==
  ASSUME IInv, NEW k \in Keys, NEW payload \in Texts, PostFollowup(k, payload)
  PROVE  IInv'
<1> USE DEF IInv
<1> DEFINE j == Enqueued(jobs[k], Enqueue(jobs[k], payload))
<1>1. /\ indexed < MaxIndexed /\ indexed' = indexed + 1
      /\ jobs' = [jobs EXCEPT ![k] = j]
      /\ UNCHANGED <<docs, chunks, writer, run, mirrored, raced, deaths>>
  BY DEF PostFollowup
<1>2. /\ j \in Job /\ j # NULL
      /\ j.status = "completed" => jobs[k] # NULL /\ jobs[k].status = "completed"
  <2>1. jobs[k] \in Job \cup {NULL}
    BY DEF Tables
  <2>2. /\ Enqueue(jobs[k], payload) \in JobWrite
        /\ Enqueue(jobs[k], payload).how = "payload" => jobs[k] # NULL
    BY <2>1, EnqueueOK
  <2> QED
    BY <2>1, <2>2, EnqueuedOK
<1> HIDE DEF j
<1>3. /\ jobs' \in [Keys -> Job \cup {NULL}] /\ Stays(jobs, jobs', Keys)
      /\ \A l \in Keys : jobs'[l] # NULL /\ jobs'[l].status = "completed" =>
           jobs[l] # NULL /\ jobs[l].status = "completed"
  BY <1>1, <1>2 DEF Tables, Stays
<1>4. Grows /\ raced \subseteq raced'
  BY <1>1 DEF Grows
<1>5. Progress' /\ ChunksInv'
  BY <1>1, <1>3, <1>4, Frame DEF Progress, ChunksInv
<1>6. CompletedWasDone'
  BY <1>3, <1>4, DoneStays
<1>7. indexed' \in 0..MaxIndexed
  BY <1>1, FileJobsAssumption DEF Tables
<1> QED
  BY <1>1, <1>3, <1>5, <1>6, <1>7 DEF Tables
---------------------------------------------------------------------------
(* Runs                                                                    *)

\* The steps of a run that write nothing but it and the memory.
LEMMA RunKeeps ==
  ASSUME IInv, NEW r \in Runs, Grows,
         UNCHANGED <<docs, chunks, jobs, writer, indexed, deaths>>,
         mirrored' \in [Docs -> SUBSET Texts],
         raced \subseteq raced', raced' \subseteq Docs,
         DOMAIN run' = Runs, \A x \in Runs \ {r} : run'[x] = run[x],
         run'[r] # NULL => /\ RunOK(run'[r], docs', jobs', mirrored')
                           /\ TxFresh(run'[r], docs', chunks', raced')
  PROVE  IInv'
<1> USE DEF IInv
<1>1. Stays(jobs, jobs', Keys)
  BY DEF Stays
<1>2. Progress' /\ ChunksInv' /\ DOMAIN writer' = Writers
  BY <1>1, SetRun
<1>3. CompletedWasDone'
  BY DoneStays
<1> QED
  BY <1>2, <1>3 DEF Tables

LEMMA KeysFinite == IsFiniteSet(Keys)
<1>1. IsFiniteSet(Kinds)
  <2>1. IsFiniteSet({}) /\ Kinds = ({} \cup {"reindex_document"}) \cup {"mirror_memory"}
    BY FS_EmptySet DEF Kinds
  <2>2. IsFiniteSet({} \cup {"reindex_document"})
    BY <2>1, FS_AddElement
  <2> QED
    BY <2>1, <2>2, FS_AddElement
<1>2. IsFiniteSet(Docs)
  BY FileJobsAssumption
<1> QED
  BY <1>1, <1>2, FS_Product DEF Keys

LEMMA ClaimStep ==
  ASSUME IInv, NEW r \in Runs, ClaimJobs(r)
  PROVE  IInv'
<1> USE DEF IInv
<1> DEFINE n == IF Cardinality(Pending) < Limit THEN Cardinality(Pending) ELSE Limit
<1>1. n \in Nat
  <2>1. IsFiniteSet(Pending)
    BY KeysFinite, FS_Subset DEF Pending
  <2> QED
    BY <2>1, FS_CardinalityType, FileJobsAssumption
<1>2. UNCHANGED <<docs, chunks, jobs, writer, mirrored, raced, indexed, deaths>>
  BY DEF ClaimJobs
<1> HIDE DEF n
<1>3. PICK batch \in [1..n -> Pending] :
        run' = [run EXCEPT ![r] =
          [todo |-> [i \in 1..n |-> [key |-> batch[i],
                                     payload |-> jobs[batch[i]].payload]],
           at |-> NULL, done |-> NoWrites, docs |-> NoWrites, doomed |-> FALSE]]
  BY DEF ClaimJobs, n
<1> DEFINE todo == [i \in 1..n |-> [key |-> batch[i],
                                    payload |-> jobs[batch[i]].payload]]
           v == [todo |-> todo, at |-> NULL, done |-> NoWrites, docs |-> NoWrites,
                 doomed |-> FALSE]
<1>4. BatchOK(todo, jobs)
  <2>1. ASSUME NEW i \in 1..n
        PROVE  /\ todo[i] \in [key : Keys, payload : Texts]
               /\ jobs[todo[i].key] # NULL
    <3>1. batch[i] \in Keys /\ jobs[batch[i]] # NULL
      BY DEF Pending
    <3>2. jobs[batch[i]].payload \in Texts
      BY <3>1 DEF Tables, Job
    <3> QED
      BY <3>1, <3>2
  <2> DEFINE Item == [key : Keys, payload : Texts]
  <2>2. \A i \in 1..n : todo[i] \in Item
    BY <2>1
  <2> HIDE DEF Item
  <2>3. todo \in [1..n -> Item]
    BY <2>2
  <2>4. DOMAIN todo = 1..n
    OBVIOUS
  <2> HIDE DEF todo
  <2>5. todo \in Seq(Item) /\ Len(todo) = n
    BY <1>1, <2>3, <2>4
  <2> QED
    BY <2>1, <2>5 DEF BatchOK, Item
<1>5. /\ DOMAIN v = {"todo", "at", "done", "docs", "doomed"}
      /\ v.todo = todo /\ v.at = NULL /\ v.done = NoWrites /\ v.docs = NoWrites
  OBVIOUS
<1> HIDE DEF todo
<1>6. run' = [run EXCEPT ![r] = v]
  BY <1>3 DEF todo
<1> HIDE DEF v
<1>7. RunOK(v, docs, jobs, mirrored)
  BY <1>4, <1>5, NoWritesDomain DEF RunOK, OutcomesOK, DocWritesOK, LookedUpOK
<1>8. TxFresh(v, docs, chunks, raced)
  BY <1>5, NoWritesDomain DEF TxFresh
<1>9. DOMAIN run' = Runs /\ run'[r] = v /\ \A x \in Runs \ {r} : run'[x] = run[x]
  BY <1>6 DEF Tables
<1>10. /\ mirrored' \in [Docs -> SUBSET Texts] /\ Grows
       /\ raced \subseteq raced' /\ raced' \subseteq Docs
  BY <1>2 DEF Tables, Grows
<1> QED
  BY <1>2, <1>7, <1>8, <1>9, <1>10, RunKeeps

\* The rest of a batch, and one more outcome.
LEMMA TailOK ==
  ASSUME NEW todo, NEW js, BatchOK(todo, js), todo # <<>>
  PROVE  /\ BatchOK(Tail(todo), js)
         /\ Head(todo).key \in Keys /\ Head(todo).payload \in Texts
         /\ js[Head(todo).key] # NULL
<1> DEFINE Item == [key : Keys, payload : Texts]
<1>1. todo \in Seq(Item)
  BY DEF BatchOK
<1>2. /\ DOMAIN todo = 1..Len(todo)
      /\ \A i \in 1..Len(todo) :
           /\ todo[i].key \in Keys /\ todo[i].payload \in Texts
           /\ js[todo[i].key] # NULL
  BY BatchItems
<1> HIDE DEF Item
<1>3. Head(todo) = todo[1] /\ 1 \in 1..Len(todo)
  BY <1>1
<1>4. /\ Tail(todo) \in Seq(Item)
      /\ \A i \in 1..Len(Tail(todo)) : Tail(todo)[i] = todo[i + 1] /\ i + 1 \in 1..Len(todo)
  BY <1>1
<1> QED
  BY <1>2, <1>3, <1>4 DEF BatchOK, Item

LEMMA PutOutcome ==
  ASSUME NEW done, NEW js, NEW ms, NEW k \in Keys, NEW status \in {"completed", "failed"},
         OutcomesOK(done, js, ms), js[k] # NULL,
         k[1] = "mirror_memory" /\ status = "completed" => ms[k[2]] # {}
  PROVE  OutcomesOK(Put(done, k, status), js, ms)
<1> DEFINE p == Put(done, k, status)
<1>1. /\ DOMAIN p = DOMAIN done \cup {k} /\ p[k] = status
      /\ \A l \in DOMAIN done \ {k} : p[l] = done[l]
  BY DEF Put
<1> HIDE DEF p
<1>2. OutcomesOK(p, js, ms)
  BY <1>1 DEF OutcomesOK
<1> QED
  BY <1>2 DEF p
\* The step of a run that settles the job at hand; u is what it makes of t.
LEMMA SettleOK ==
  ASSUME NEW t, NEW ds, NEW js, NEW ms, RunOK(t, ds, js, ms), t.todo # <<>>,
         NEW status \in {"completed", "failed"},
         Head(t.todo).key[1] = "mirror_memory" /\ status = "completed" =>
           ms[Head(t.todo).key[2]] # {},
         NEW u, DOMAIN u = {"todo", "at", "done", "docs", "doomed"},
         u.todo = Tail(t.todo), u.done = Put(t.done, Head(t.todo).key, status),
         u.at = NULL, DocWritesOK(u.docs, ds)
  PROVE  RunOK(u, ds, js, ms)
<1>1. BatchOK(t.todo, js) /\ OutcomesOK(t.done, js, ms)
  BY DEF RunOK
<1>2. /\ BatchOK(u.todo, js)
      /\ Head(t.todo).key \in Keys /\ js[Head(t.todo).key] # NULL
  BY <1>1, TailOK
<1>3. OutcomesOK(u.done, js, ms)
  BY <1>1, <1>2, PutOutcome
<1> QED
  BY <1>2, <1>3 DEF RunOK, LookedUpOK

LEMMA MirrorStep ==
  ASSUME IInv, NEW r \in Runs, NEW arrives \in BOOLEAN, NEW answered \in BOOLEAN,
         MirrorMemory(r, arrives, answered)
  PROVE  IInv'
<1> USE DEF IInv
<1> DEFINE t == run[r]
           job == Head(t.todo)
           status == IF answered THEN "completed" ELSE "failed"
           u == run'[r]
<1>1. /\ t # NULL /\ t.todo # <<>> /\ job.key[1] = "mirror_memory"
      /\ answered => arrives
      /\ UNCHANGED <<docs, chunks, jobs, writer, raced, indexed, deaths>>
  BY DEF MirrorMemory, Doing
<1>2. mirrored' = IF arrives
                  THEN [mirrored EXCEPT ![job.key[2]] = @ \cup {job.payload}]
                  ELSE mirrored
  BY DEF MirrorMemory
<1>3. run' = [run EXCEPT ![r].todo = Tail(@), ![r].done = Put(@, job.key, status)]
  BY DEF MirrorMemory, Settle
<1>4. RunOK(t, docs, jobs, mirrored) /\ TxFresh(t, docs, chunks, raced)
  BY <1>1 DEF Progress, ChunksInv
<1>5. job.key \in Keys /\ job.payload \in Texts /\ job.key[2] \in Docs
  <2>1. BatchOK(t.todo, jobs)
    BY <1>4 DEF RunOK
  <2> HIDE DEF t
  <2>2. job.key \in Keys /\ job.payload \in Texts
    BY <1>1, <2>1, TailOK
  <2> HIDE DEF job
  <2> QED
    BY <2>2 DEF Keys
<1>6. DOMAIN t = {"todo", "at", "done", "docs", "doomed"} /\ t.at = NULL
  BY <1>1, <1>4 DEF RunOK, Kinds
<1> HIDE DEF job, status
<1>7. /\ DOMAIN run' = Runs /\ \A x \in Runs \ {r} : run'[x] = run[x]
      /\ DOMAIN u = {"todo", "at", "done", "docs", "doomed"}
      /\ u.todo = Tail(t.todo) /\ u.done = Put(t.done, job.key, status)
      /\ u.at = NULL /\ u.docs = t.docs /\ u.doomed = t.doomed
  BY <1>3, <1>6 DEF Tables
<1>8. mirrored' \in [Docs -> SUBSET Texts] /\ Grows
  BY <1>2, <1>5 DEF Tables, Grows
<1>9. job.key[1] = "mirror_memory" /\ status = "completed" => mirrored'[job.key[2]] # {}
  <2>1. CASE answered
    <3>1. job.payload \in mirrored'[job.key[2]]
      BY <1>1, <1>2, <1>5, <2>1 DEF Tables
    <3> QED
      BY <3>1
  <2>2. CASE ~answered
    BY <2>2 DEF status
  <2> QED
    BY <2>1, <2>2
<1>10. RunOK(t, docs, jobs, mirrored')
  <2>1. Stays(docs, docs, Docs) /\ Stays(jobs, jobs, Keys)
    BY DEF Stays
  <2> HIDE DEF t
  <2> QED
    BY <1>4, <1>8, <2>1, RunStays DEF Grows
<1>11. status \in {"completed", "failed"} /\ DocWritesOK(t.docs, docs)
  BY <1>10 DEF status, RunOK
<1> HIDE DEF t, u
<1>12. RunOK(u, docs, jobs, mirrored')
  BY <1>1, <1>7, <1>9, <1>10, <1>11, SettleOK DEF job
<1>13. TxFresh(u, docs, chunks, raced)
  BY <1>1, <1>4, <1>7 DEF TxFresh
<1>14. raced \subseteq raced' /\ raced' \subseteq Docs
  BY <1>1 DEF Tables
<1> QED
  BY <1>1, <1>7, <1>8, <1>12, <1>13, <1>14, RunKeeps DEF u

LEMMA ReadStep ==
  ASSUME IInv, NEW r \in Runs, ReadDocument(r)
  PROVE  IInv'
<1> USE DEF IInv
<1> DEFINE t == run[r]
           job == Head(t.todo)
           d == job.key[2]
           u == run'[r]
<1>1. /\ t # NULL /\ t.todo # <<>> /\ job.key[1] = "reindex_document" /\ t.at = NULL
      /\ UNCHANGED <<docs, chunks, jobs, writer, mirrored, raced, indexed, deaths>>
  BY DEF ReadDocument, Doing
<1>2. RunOK(t, docs, jobs, mirrored) /\ TxFresh(t, docs, chunks, raced)
  BY <1>1 DEF Progress, ChunksInv
<1>3. /\ DOMAIN t = {"todo", "at", "done", "docs", "doomed"}
      /\ BatchOK(t.todo, jobs) /\ OutcomesOK(t.done, jobs, mirrored)
      /\ DocWritesOK(t.docs, docs)
  BY <1>2 DEF RunOK
<1>4. job.key \in Keys /\ d \in Docs
  <2>1. job.key \in Keys
    BY <1>1, <1>3, TailOK
  <2> QED
    BY <2>1 DEF Keys
<1>5. /\ mirrored' \in [Docs -> SUBSET Texts] /\ Grows
      /\ raced \subseteq raced' /\ raced' \subseteq Docs
  BY <1>1 DEF Tables, Grows
<1>6. /\ DOMAIN run' = Runs /\ \A x \in Runs \ {r} : run'[x] = run[x]
      /\ RunOK(u, docs, jobs, mirrored) /\ TxFresh(u, docs, chunks, raced)
  <2>1. CASE docs[d] = NULL
    <3> DEFINE status == "completed"
    <3>1. run' = [run EXCEPT ![r].todo = Tail(@), ![r].done = Put(@, job.key, status)]
      BY <2>1 DEF ReadDocument, Settle
    <3>2. status \in {"completed", "failed"} /\ job.key[1] # "mirror_memory"
      BY <1>1
    <3> HIDE DEF job, status
    <3>3. /\ DOMAIN run' = Runs /\ \A x \in Runs \ {r} : run'[x] = run[x]
          /\ DOMAIN u = {"todo", "at", "done", "docs", "doomed"}
          /\ u.todo = Tail(t.todo) /\ u.done = Put(t.done, job.key, status)
          /\ u.at = NULL /\ u.docs = t.docs /\ u.doomed = t.doomed
      BY <1>1, <1>3, <3>1 DEF Tables
    <3> HIDE DEF t, u
    <3>4. RunOK(u, docs, jobs, mirrored)
      BY <1>1, <1>2, <1>3, <3>2, <3>3, SettleOK DEF job
    <3>5. TxFresh(u, docs, chunks, raced)
      BY <1>1, <1>2, <3>3 DEF TxFresh
    <3> QED
      BY <3>3, <3>4, <3>5
  <2>2. CASE docs[d] # NULL
    <3> DEFINE at == [doc |-> d, row |-> docs[d]]
    <3>1. run' = [run EXCEPT ![r].at = at]
      BY <2>2 DEF ReadDocument
    <3>2. LookedUpOK(at, docs) /\ at.row # NULL
      BY <1>4, <2>2 DEF LookedUpOK, Tables
    <3> HIDE DEF at
    <3>3. /\ DOMAIN run' = Runs /\ \A x \in Runs \ {r} : run'[x] = run[x]
          /\ DOMAIN u = {"todo", "at", "done", "docs", "doomed"}
          /\ u.todo = t.todo /\ u.done = t.done
          /\ u.at = at /\ u.docs = t.docs /\ u.doomed = t.doomed
      BY <1>3, <3>1 DEF Tables
    <3>4. RunOK(u, docs, jobs, mirrored)
      BY <1>1, <1>3, <3>2, <3>3 DEF RunOK
    <3>5. TxFresh(u, docs, chunks, raced)
      BY <1>1, <1>2, <3>3 DEF TxFresh
    <3> QED
      BY <3>3, <3>4, <3>5
  <2> QED
    BY <2>1, <2>2
<1> HIDE DEF u
<1>7. RunOK(u, docs', jobs', mirrored') /\ TxFresh(u, docs', chunks', raced')
  BY <1>1, <1>6
<1> QED
  BY <1>1, <1>5, <1>6, <1>7, RunKeeps DEF u
LEMMA ReindexStep ==
  ASSUME IInv, NEW r \in Runs, NEW answers \in BOOLEAN, ReindexDocument(r, answers)
  PROVE  IInv'
<1> USE DEF IInv
<1> DEFINE t == run[r]
           at == t.at
           job == Head(t.todo)
           s == Reindexed(at.row, chunks[at.doc], answers)
           status == "completed"
           u == run'[r]
<1>1. /\ t # NULL /\ at # NULL /\ Raced(at.doc, at.row)
      /\ UNCHANGED <<docs, chunks, jobs, writer, mirrored, indexed, deaths>>
  BY DEF ReindexDocument
<1>2. run' = [run EXCEPT ![r].todo = Tail(@), ![r].at = NULL,
                         ![r].done = Put(@, job.key, status),
                         ![r].docs = Put(@, at.doc, s)]
  BY DEF ReindexDocument
<1>3. RunOK(t, docs, jobs, mirrored) /\ TxFresh(t, docs, chunks, raced)
  BY <1>1 DEF Progress, ChunksInv
<1>4. /\ DOMAIN t = {"todo", "at", "done", "docs", "doomed"}
      /\ DocWritesOK(t.docs, docs) /\ LookedUpOK(at, docs)
      /\ at.row # NULL /\ t.todo # <<>> /\ job.key[1] = "reindex_document"
  BY <1>1, <1>3 DEF RunOK
<1>5. at.doc \in Docs /\ at.row \in Doc
  BY <1>1, <1>4 DEF LookedUpOK
<1>6. SyncedOK(s, at.row, chunks[at.doc])
  <2> DEFINE row == at.row  pieces == chunks[at.doc]
  <2>1. s = Reindexed(row, pieces, answers)
    OBVIOUS
  <2>2. row \in Doc /\ pieces \in SUBSET Cut
    BY <1>5 DEF Tables
  <2> HIDE DEF t, at, s, row, pieces
  <2>3. SyncedOK(s, row, pieces)
    BY <2>1, <2>2, ReindexedOK
  <2> QED
    BY <2>3 DEF row, pieces
<1> HIDE DEF s
<1>7. status \in {"completed", "failed"} /\ job.key[1] # "mirror_memory"
  BY <1>4
<1> HIDE DEF job, status
<1>8. /\ DOMAIN run' = Runs /\ \A x \in Runs \ {r} : run'[x] = run[x]
      /\ DOMAIN u = {"todo", "at", "done", "docs", "doomed"}
      /\ u.todo = Tail(t.todo) /\ u.done = Put(t.done, job.key, status)
      /\ u.at = NULL /\ u.docs = Put(t.docs, at.doc, s) /\ u.doomed = t.doomed
  BY <1>2, <1>4 DEF Tables
<1> HIDE DEF t, u, at
<1>9. /\ DocWritesOK(u.docs, docs') /\ TxFresh(u, docs', chunks', raced')
      /\ raced \subseteq raced' /\ raced' \subseteq Docs
  <2>1. UNCHANGED <<docs, chunks>> /\ (~u.doomed => ~t.doomed)
    BY <1>1, <1>8
  <2> QED
    BY <1>1, <1>3, <1>4, <1>6, <1>8, <2>1, Synced
<1>10. RunOK(u, docs, jobs, mirrored)
  <2>1. DocWritesOK(u.docs, docs)
    BY <1>1, <1>9
  <2> QED
    BY <1>3, <1>4, <1>7, <1>8, <2>1, SettleOK DEF job
<1>11. RunOK(u, docs', jobs', mirrored')
  BY <1>1, <1>10
<1>12. mirrored' \in [Docs -> SUBSET Texts] /\ Grows
  BY <1>1 DEF Tables, Grows
<1> QED
  BY <1>1, <1>8, <1>9, <1>11, <1>12, RunKeeps DEF u

LEMMA CommitRunStep ==
  ASSUME IInv, NEW r \in Runs, CommitRun(r)
  PROVE  IInv'
<1> USE DEF IInv
<1> DEFINE t == run[r]
<1>1. t # NULL /\ UNCHANGED <<mirrored, raced, indexed, deaths>>
  BY DEF CommitRun
<1>2. RunOK(t, docs, jobs, mirrored) /\ TxFresh(t, docs, chunks, raced)
  BY <1>1 DEF Progress, ChunksInv
<1>3. Grows
  BY <1>1 DEF Grows
<1>4. CASE t.doomed
  <2>1. run' = [run EXCEPT ![r] = NULL] /\ UNCHANGED <<docs, chunks, jobs, writer>>
    BY <1>4 DEF CommitRun
  <2>2. /\ DOMAIN run' = Runs /\ run'[r] = NULL
        /\ \A x \in Runs \ {r} : run'[x] = run[x]
        /\ mirrored' \in [Docs -> SUBSET Texts]
        /\ raced \subseteq raced' /\ raced' \subseteq Docs
    BY <1>1, <2>1 DEF Tables
  <2> QED
    BY <1>1, <1>3, <2>1, <2>2, RunKeeps
<1>5. CASE ~t.doomed
  <2> DEFINE keys == Inserts(t.docs, <<>>)
  <2>1. /\ CommitDocs(t.docs)
        /\ jobs' = [k \in Keys |-> IF k \in DOMAIN t.done
                                   THEN [jobs[k] EXCEPT !.status = t.done[k]]
                                   ELSE jobs[k]]
        /\ Doomed(keys, NULL, r)
    BY <1>5 DEF CommitRun
  <2>2. DocWritesOK(t.docs, docs) /\ OutcomesOK(t.done, jobs, mirrored)
    BY <1>2 DEF RunOK
  <2>3. \A d \in DOMAIN t.docs \ raced : Fresh(d, t.docs[d], docs, chunks)
    BY <1>1, <1>2, <1>5 DEF TxFresh
  <2>4. \A d \in DOMAIN t.docs :
          t.docs[d].inserted # {} \/ t.docs[d].from = NULL => d \in keys
    BY DEF Inserts
  <2>5. ASSUME NEW k \in Keys
        PROVE  /\ jobs'[k] \in Job \cup {NULL}
               /\ jobs[k] # NULL => jobs'[k] # NULL
               /\ jobs'[k] # NULL /\ jobs'[k].status = "completed" =>
                    \/ jobs[k] # NULL /\ jobs[k].status = "completed"
                    \/ k[1] = "mirror_memory" => mirrored[k[2]] # {}
    <3>1. jobs[k] \in Job \cup {NULL}
      BY DEF Tables
    <3>2. CASE k \in DOMAIN t.done
      <4>1. /\ jobs[k] # NULL /\ t.done[k] \in {"completed", "failed"}
            /\ k[1] = "mirror_memory" /\ t.done[k] = "completed" => mirrored[k[2]] # {}
        BY <2>2, <3>2 DEF OutcomesOK
      <4>2. jobs[k] \in Job /\ jobs'[k] = [jobs[k] EXCEPT !.status = t.done[k]]
        BY <2>1, <3>1, <3>2, <4>1
      <4> HIDE DEF t
      <4>3. jobs'[k] \in Job /\ jobs'[k].status = t.done[k]
        BY <4>1, <4>2 DEF Job
      <4> QED
        BY <4>1, <4>3, NullAssumption
    <3>3. CASE k \notin DOMAIN t.done
      BY <2>1, <3>1, <3>3
    <3> QED
      BY <3>2, <3>3
  <2>6. Stays(jobs, jobs', Keys) /\ jobs' \in [Keys -> Job \cup {NULL}]
    BY <2>1, <2>5 DEF Stays
  <2> HIDE DEF keys
  <2>7. /\ Progress' /\ ChunksInv'
        /\ DOMAIN writer' = Writers /\ DOMAIN run' = Runs
    <3> HIDE DEF t
    <3>1. UNCHANGED <<mirrored, raced>>
      BY <1>1
    <3> QED
      BY <2>1, <2>2, <2>3, <2>4, <2>6, <3>1, CommitProgress
  <2>8. CompletedWasDone'
    <3> SUFFICES ASSUME NEW d \in Docs, jobs'[<<"mirror_memory", d>>] # NULL,
                        jobs'[<<"mirror_memory", d>>].status = "completed"
                 PROVE  mirrored'[d] # {}
      BY DEF CompletedWasDone
    <3> DEFINE k == <<"mirror_memory", d>>
    <3>1. k \in Keys /\ k[1] = "mirror_memory" /\ k[2] = d
      BY DEF Keys, Kinds
    <3>2. jobs'[k] # NULL /\ jobs'[k].status = "completed"
      OBVIOUS
    <3>3. jobs[k] # NULL /\ jobs[k].status = "completed" => mirrored[d] # {}
      BY DEF CompletedWasDone
    <3> HIDE DEF k
    <3> QED
      BY <1>1, <2>5, <3>1, <3>2, <3>3
  <2>9. docs' \in [Docs -> Doc \cup {NULL}] /\ chunks' \in [Docs -> SUBSET Cut]
    BY <2>1, <2>2, CommitDocsOK
  <2> QED
    BY <1>1, <2>6, <2>7, <2>8, <2>9 DEF Tables
<1> QED
  BY <1>4, <1>5

LEMMA DieStep ==
  ASSUME IInv, Die
  PROVE  IInv'
<1> USE DEF IInv
<1>1. /\ deaths < MaxDeaths /\ deaths' = deaths + 1
      /\ UNCHANGED <<docs, chunks, jobs, mirrored, raced, indexed>>
  BY DEF Die
<1>2. Stays(jobs, jobs', Keys) /\ Grows /\ raced \subseteq raced'
  BY <1>1 DEF Stays, Grows
<1>3. Progress' /\ ChunksInv' /\ DOMAIN writer' = Writers /\ DOMAIN run' = Runs
  <2>1. CASE \E w \in Writers : /\ writer[w] # NULL
                                /\ writer' = [writer EXCEPT ![w] = NULL]
                                /\ UNCHANGED run
    BY <1>1, <1>2, <2>1, SetWriter
  <2>2. CASE \E r \in Runs : /\ run[r] # NULL
                             /\ run' = [run EXCEPT ![r] = NULL]
                             /\ UNCHANGED writer
    <3>1. PICK r \in Runs : run' = [run EXCEPT ![r] = NULL]
      BY <2>2
    <3>2. /\ DOMAIN run' = Runs /\ run'[r] = NULL
          /\ \A x \in Runs \ {r} : run'[x] = run[x]
      BY <3>1 DEF Tables
    <3>3. UNCHANGED <<docs, chunks, writer>>
      BY <1>1, <2>2
    <3> QED
      BY <1>2, <3>2, <3>3, SetRun
  <2> QED
    BY <2>1, <2>2 DEF Die
<1>4. CompletedWasDone'
  BY <1>1, <1>2, DoneStays
<1>5. deaths' \in 0..MaxDeaths
  BY <1>1, FileJobsAssumption DEF Tables
<1> QED
  BY <1>1, <1>3, <1>4, <1>5 DEF Tables

---------------------------------------------------------------------------
(* Theorems                                                                *)

LEMMA InitIInv == Init => IInv
<1> SUFFICES ASSUME Init PROVE IInv
  OBVIOUS
<1>1. Tables
  BY FileJobsAssumption DEF Init, Tables
<1>2. Progress
  BY DEF Init, Progress
<1>3. CompletedWasDone
  BY DEF Init, CompletedWasDone, Keys, Kinds
<1>4. ChunksInv
  BY DEF Init, ChunksInv, EmptyBefore, ChunksMatchText, TxFresh
<1> QED
  BY <1>1, <1>2, <1>3, <1>4 DEF IInv

LEMMA NextIInv == IInv /\ [Next]_vars => IInv'
<1> SUFFICES ASSUME IInv, [Next]_vars PROVE IInv'
  OBVIOUS
<1>1. ASSUME NEW w \in Writers, NEW d \in Docs, LookUp(w, d) PROVE IInv'
  BY <1>1, LookUpStep
<1>2. ASSUME NEW w \in Writers, WriterStep(w) PROVE IInv'
  BY <1>2, IndexStep, CommitIndexStep DEF WriterStep
<1>3. ASSUME NEW k \in Keys, NEW payload \in Texts, PostFollowup(k, payload) PROVE IInv'
  BY <1>3, PostStep
<1>4. ASSUME NEW r \in Runs, RunStep(r) PROVE IInv'
  BY <1>4, ClaimStep, MirrorStep, ReadStep, ReindexStep, CommitRunStep DEF RunStep
<1>5. CASE Die
  BY <1>5, DieStep
<1>6. CASE UNCHANGED vars
  BY <1>6 DEF vars, IInv, Tables, Progress, CompletedWasDone, ChunksInv, EmptyBefore,
              ChunksMatchText
<1> QED
  BY <1>1, <1>2, <1>3, <1>4, <1>5, <1>6 DEF Next

\* Rows, transactions, jobs and counters keep their types: what a commit will
\* write is a row, and every payload in a batch is a text.
THEOREM FilesTyped == Spec => []TypeOK
<1>1. IInv => TypeOK
  BY InvTyped DEF IInv
<1> QED
  BY <1>1, InitIInv, NextIInv, PTL DEF Spec

\* A job that mirrors a document is completed only if the family memory got
\* the document, whichever batches overlapped, failed or were lost.
THEOREM MirrorsWereDone == Spec => []CompletedWasDone
<1>1. IInv => CompletedWasDone
  BY DEF IInv
<1> QED
  BY <1>1, InitIInv, NextIInv, PTL DEF Spec

\* The chunks of a document are cut from its text, unless its row changed
\* between the two SELECTs of a transaction that synchronised it.
THEOREM ChunksMatch == Spec => []ChunksMatchText
<1>1. IInv => ChunksMatchText
  BY DEF IInv, ChunksInv
<1> QED
  BY <1>1, InitIInv, NextIInv, PTL DEF Spec

---------------------------------------------------------------------------
(* The index of the decision system                                        *)

\* Every call keeps its type, and a row it read is still there: nothing deletes rows.
CallsOK(calls, found) ==
  /\ calls \in [Calls -> Search!Call \cup {NULL}]
  /\ \A s \in Calls : calls[s] # NULL /\ calls[s].read # NULL => found[calls[s].path] # NULL

SearchInv ==
  /\ rows \in [Paths -> Search!Row \cup {NULL}]
  /\ cuts \in [Paths -> Search!Chunk \cup {NULL}]
  /\ CallsOK(tx, rows)

\* What is there is not the absence of it.
LEMMA SomethingThere ==
  /\ NULL \notin Search!Row /\ NULL \notin Search!Chunk /\ NULL \notin Search!Call
BY SearchAssumption DEF Search!SearchIndexAssumption

\* A call in another step, or gone, of which the row it read is still there.
LEMMA CallMoved ==
  ASSUME NEW c \in Search!Call, NEW step \in {"read", "waiting", "emptied", "held"}
  PROVE  LET d == [c EXCEPT !.step = step]
         IN  /\ d \in Search!Call /\ d # NULL
             /\ d.path = c.path /\ d.text = c.text /\ d.read = c.read
BY SomethingThere DEF Search!Call

\* A call that ends leaves the others what they are but for the step of those that waited.
LEMMA Wakes ==
  ASSUME NEW found, CallsOK(tx, found), NEW s \in Calls, NEW committed \in BOOLEAN
  PROVE  /\ CallsOK(Search!Woken(s, committed), found)
         /\ \A t \in Calls \ {s} : tx[t] # NULL => Search!Woken(s, committed)[t] # NULL
<1> DEFINE woken == Search!Woken(s, committed)
<1>1. /\ woken \in [Calls -> {woken[t] : t \in Calls}]
      /\ woken[s] = NULL
      /\ \A t \in Calls \ {s} :
           \/ woken[t] = tx[t]
           \/ tx[t] # NULL /\ woken[t] = [tx[t] EXCEPT !.step = "emptied"]
           \/ tx[t] # NULL /\ woken[t] = [tx[t] EXCEPT !.step = "held"]
  BY DEF Search!Woken, Search!Waiting, Search!Same
<1> HIDE DEF woken
<1>2. ASSUME NEW t \in Calls, t # s
      PROVE  \/ tx[t] = NULL /\ woken[t] = NULL
             \/ /\ tx[t] # NULL /\ woken[t] # NULL
                /\ woken[t] \in Search!Call
                /\ woken[t].path = tx[t].path /\ woken[t].read = tx[t].read
  <2>1. tx[t] = NULL \/ tx[t] \in Search!Call
    BY DEF CallsOK
  <2>2. CASE woken[t] = tx[t]
    BY <2>1, <2>2, SomethingThere
  <2>3. CASE tx[t] # NULL /\ woken[t] = [tx[t] EXCEPT !.step = "emptied"]
    BY <2>1, <2>3, CallMoved
  <2>4. CASE tx[t] # NULL /\ woken[t] = [tx[t] EXCEPT !.step = "held"]
    BY <2>1, <2>4, CallMoved
  <2> QED
    BY <1>1, <1>2, <2>2, <2>3, <2>4
<1>3. woken \in [Calls -> Search!Call \cup {NULL}]
  BY <1>1, <1>2
<1>4. \A t \in Calls : woken[t] # NULL /\ woken[t].read # NULL => found[woken[t].path] # NULL
  BY <1>1, <1>2 DEF CallsOK
<1>5. CallsOK(woken, found)
  BY <1>3, <1>4 DEF CallsOK
<1> QED
  BY <1>2, <1>5 DEF woken

\* A call of which one step follows another.
LEMMA CallSet ==
  ASSUME CallsOK(tx, rows), NEW s \in Calls, NEW c \in Search!Call,
         c.read # NULL => rows[c.path] # NULL, tx' = [tx EXCEPT ![s] = c]
  PROVE  CallsOK(tx', rows)
BY DEF CallsOK

\* What a commit makes of its path: the row of the call's own text when the row is the one it
\* read, and the chunks that remained or its own.
LEMMA Committed ==
  ASSUME SearchInv, NEW s \in Calls, Search!Commit(s)
  PROVE  /\ tx[s] \in Search!Call /\ tx[s] # NULL
         /\ rows' \in [Paths -> Search!Row \cup {NULL}]
         /\ rows'[tx[s].path] \in Search!Row
         /\ \A p \in Paths : p # tx[s].path => rows'[p] = rows[p]
         /\ rows[tx[s].path] = tx[s].read => rows'[tx[s].path].text = tx[s].text
         /\ cuts' \in [Paths -> Search!Chunk \cup {NULL}]
         /\ tx[s].text # none => cuts'[tx[s].path] # NULL /\ cuts'[tx[s].path].text = tx[s].text
         /\ tx' = Search!Woken(s, TRUE)
<1> DEFINE c == tx[s]
           p == c.path
           new == IF c.read = NULL THEN [text |-> c.text, owner |-> c.owner]
                  ELSE [text  |-> Search!Written(c.text, c.read.text, rows[p].text),
                        owner |-> Search!Written(c.owner, c.read.owner, rows[p].owner)]
<1>1. /\ c # NULL /\ ~Search!Clashes(s)
      /\ rows' = [rows EXCEPT ![p] = new]
      /\ tx' = Search!Woken(s, TRUE)
  BY DEF Search!Commit
<1>2. c \in Search!Call
  BY <1>1 DEF SearchInv, CallsOK
<1>3. p \in Paths /\ c.text \in Contents /\ c.owner \in Owners /\ c.read \in Search!Row \cup {NULL}
  BY <1>2 DEF Search!Call
<1>4. c.read # NULL => rows[p] \in Search!Row
  BY <1>1, <1>3 DEF SearchInv, CallsOK
<1>5. new \in Search!Row /\ (rows[p] = c.read => new.text = c.text)
  BY <1>3, <1>4 DEF Search!Row, Search!Written
<1>6. PICK sound \in BOOLEAN : cuts' = [cuts EXCEPT ![p] = Search!Inserted(s, sound)]
  BY DEF Search!Commit
<1>7. /\ Search!Inserted(s, sound) \in Search!Chunk \cup {NULL}
      /\ c.text # none => /\ Search!Inserted(s, sound) # NULL
                          /\ Search!Inserted(s, sound).text = c.text
  <2>1. Search!Remaining(s) \in Search!Chunk \cup {NULL}
    BY <1>3 DEF Search!Remaining, SearchInv
  <2>2. c.text # none => Search!Remaining(s) = NULL
    BY <1>1 DEF Search!Clashes
  <2>3. [text |-> c.text, sound |-> sound] \in Search!Chunk
    BY <1>3 DEF Search!Chunk
  <2> QED
    BY <2>1, <2>2, <2>3, SomethingThere DEF Search!Inserted
<1> HIDE DEF c, p, new
<1>8. /\ rows' \in [Paths -> Search!Row \cup {NULL}] /\ rows'[p] = new
      /\ \A q \in Paths : q # p => rows'[q] = rows[q]
  BY <1>1, <1>3, <1>5 DEF SearchInv
<1>9. cuts' \in [Paths -> Search!Chunk \cup {NULL}] /\ cuts'[p] = Search!Inserted(s, sound)
  BY <1>3, <1>6, <1>7 DEF SearchInv
<1> QED
  BY <1>1, <1>2, <1>5, <1>7, <1>8, <1>9 DEF c, p

\* Every step of a call keeps the invariant.
LEMMA SearchStep ==
  ASSUME SearchInv, Search!Next
  PROVE  SearchInv'
<1>1. PICK s \in Calls : \/ Search!Begin(s) \/ Search!DeleteChunks(s)
                         \/ Search!Commit(s) \/ Search!Fail(s)
  BY DEF Search!Next
<1>2. CASE Search!Begin(s)
  <2>1. PICK p \in Paths, t \in Contents, o \in Owners :
          tx' = [tx EXCEPT ![s] = [path |-> p, text |-> t, owner |-> o, read |-> rows[p],
                                   step |-> "read"]]
    BY <1>2 DEF Search!Begin
  <2>2. rows[p] \in Search!Row \cup {NULL}
    BY DEF SearchInv
  <2> DEFINE c == [path |-> p, text |-> t, owner |-> o, read |-> rows[p], step |-> "read"]
  <2>3. c \in Search!Call /\ (c.read # NULL => rows[c.path] # NULL)
    BY <2>2 DEF Search!Call
  <2>4. tx' = [tx EXCEPT ![s] = c]
    BY <2>1
  <2> HIDE DEF c
  <2>5. CallsOK(tx', rows)
    BY <2>3, <2>4, CallSet DEF SearchInv
  <2> QED
    BY <1>2, <2>5 DEF SearchInv, Search!Begin
<1>3. CASE Search!DeleteChunks(s)
  <2>1. /\ tx[s] # NULL /\ UNCHANGED <<rows, cuts>>
        /\ \E step \in {"emptied", "waiting", "held"} : tx' = [tx EXCEPT ![s].step = step]
    BY <1>3 DEF Search!DeleteChunks
  <2>2. PICK step \in {"emptied", "waiting", "held"} : tx' = [tx EXCEPT ![s].step = step]
    BY <2>1
  <2>3. tx[s] \in Search!Call
    BY <2>1 DEF SearchInv, CallsOK
  <2> DEFINE c == [tx[s] EXCEPT !.step = step]
  <2>4. c \in Search!Call /\ c.read = tx[s].read /\ c.path = tx[s].path
    BY <2>3, CallMoved
  <2>5. c.read # NULL => rows[c.path] # NULL
    BY <2>1, <2>4 DEF SearchInv, CallsOK
  <2>6. tx' = [tx EXCEPT ![s] = c]
    BY <2>2
  <2> HIDE DEF c
  <2>7. CallsOK(tx', rows)
    BY <2>4, <2>5, <2>6, CallSet DEF SearchInv
  <2> QED
    BY <2>1, <2>7 DEF SearchInv
<1>4. CASE Search!Commit(s)
  <2>1. /\ rows' \in [Paths -> Search!Row \cup {NULL}]
        /\ cuts' \in [Paths -> Search!Chunk \cup {NULL}]
        /\ \A p \in Paths : rows[p] # NULL => rows'[p] # NULL
        /\ tx' = Search!Woken(s, TRUE)
    BY <1>4, Committed, SomethingThere
  <2>2. \A t \in Calls : tx[t] # NULL => tx[t].path \in Paths
    BY DEF SearchInv, CallsOK, Search!Call
  <2>3. CallsOK(tx, rows')
    BY <2>1, <2>2 DEF SearchInv, CallsOK
  <2>4. CallsOK(tx', rows')
    BY <2>1, <2>3, Wakes
  <2> QED
    BY <2>1, <2>4 DEF SearchInv
<1>5. CASE Search!Fail(s)
  <2>1. tx' = Search!Woken(s, FALSE) /\ UNCHANGED <<rows, cuts>>
    BY <1>5 DEF Search!Fail
  <2>2. CallsOK(tx', rows)
    BY <2>1, Wakes DEF SearchInv
  <2> QED
    BY <2>1, <2>2 DEF SearchInv
<1> QED
  BY <1>1, <1>2, <1>3, <1>4, <1>5

\* Jobs and the inbox leave the index as it is.
LEMMA SearchKept ==
  (MCInit => SearchInv) /\ (SearchInv /\ [MCNext]_<<part, vars, searchVars, inboxVars>> => SearchInv')
<1>1. MCInit => SearchInv
  BY DEF MCInit, Search!Init, SearchInv, CallsOK
<1>2. ASSUME SearchInv, UNCHANGED searchVars
      PROVE  SearchInv'
  BY <1>2 DEF searchVars, SearchInv
<1>3. ASSUME SearchInv, MCNext
      PROVE  SearchInv'
  BY <1>2, <1>3, SearchStep DEF MCNext
<1> QED
  BY <1>1, <1>2, <1>3

\* The call that changes a row or its chunks over the row it had read leaves a row whose chunks
\* are cut from the row's own text, for any number of calls and paths (upsert_note_document).
THEOREM ChunksFollowRows == MCSpec => ChunksMatchRow
<1> DEFINE Agree(s) ==
      tx[s] # NULL /\ <<rows, cuts>>' # <<rows, cuts>> /\ tx'[s] = NULL =>
        LET p == tx[s].path
        IN  rows[p] = tx[s].read /\ rows'[p].text # none
            => cuts'[p] # NULL /\ cuts'[p].text = rows'[p].text
<1>1. ASSUME SearchInv, MCNext, NEW s \in Calls
      PROVE  Agree(s)
  <2>1. CASE UNCHANGED <<rows, cuts>>
    BY <2>1
  <2>2. ASSUME NEW t \in Calls, Search!Commit(t)
        PROVE  Agree(s)
    <3>1. tx' = Search!Woken(t, TRUE)
      BY <2>2, <1>1, Committed
    <3>2. CASE s # t
      BY <1>1, <3>1, <3>2, Wakes DEF SearchInv
    <3>3. CASE s = t
      BY <1>1, <2>2, <3>3, Committed
    <3> QED
      BY <3>2, <3>3
  <2>3. ASSUME NEW t \in Calls, Search!Begin(t) \/ Search!DeleteChunks(t) \/ Search!Fail(t)
        PROVE  UNCHANGED <<rows, cuts>>
    BY <2>3 DEF Search!Begin, Search!DeleteChunks, Search!Fail
  <2> HIDE DEF Agree
  <2>4. UNCHANGED <<rows, cuts>> \/ \E t \in Calls : Search!Commit(t)
    BY <1>1, <2>3 DEF MCNext, Search!Next, searchVars
  <2> QED
    BY <2>1, <2>2, <2>4
<1>2. SearchInv /\ [MCNext]_<<part, vars, searchVars, inboxVars>> =>
        [\A s \in Calls : Agree(s)]_searchVars
  BY <1>1 DEF searchVars
<1> QED
  BY <1>2, SearchKept, PTL DEF MCSpec, ChunksMatchRow, Search!ChunksMatchRow, searchVars, Search!vars

\* What the semantic query cuts off is no closer than what it answers.
LEMMA CloserScoresMore ==
  ASSUME SearchInv, NEW S \in Search!Nearest, NEW p \in Paths, NEW q \in Paths,
         rows[p] # NULL, rows[q] # NULL,
         \A x \in {p, q} : cuts[x] # NULL /\ cuts[x].sound,
         Near(cuts[p].text) > Near(cuts[q].text),
         Words(rows[p].text) >= Words(rows[q].text), Weight(p) >= Weight(q)
  PROVE  /\ Search!Score(p, S) \in Nat /\ Search!Score(q, S) \in Nat
         /\ Search!Score(p, S) >= Search!Score(q, S)
<1>1. /\ \A t \in Contents : Near(t) \in Nat /\ Words(t) \in Nat
      /\ \A x \in Paths : Weight(x) \in Nat
  BY SearchAssumption DEF Search!SearchIndexAssumption
<1>2. /\ cuts[p].text \in Contents /\ cuts[q].text \in Contents
      /\ rows[p].text \in Contents /\ rows[q].text \in Contents
  BY DEF SearchInv, Search!Row, Search!Chunk
<1>3. /\ Search!Closeness(cuts[p]) = Near(cuts[p].text)
      /\ Search!Closeness(cuts[q]) = Near(cuts[q].text)
  BY DEF Search!Closeness
<1>4. q \in S => p \in S
  <2>1. ASSUME q \in S, p \notin S
        PROVE  Near(cuts[q].text) >= Near(cuts[p].text)
    BY <1>3, <2>1 DEF Search!Nearest
  <2> QED
    BY <1>1, <1>2, <2>1
<1> DEFINE cp == Search!Close(p, S)  cq == Search!Close(q, S)
           wp == Words(rows[p].text)  wq == Words(rows[q].text)
<1>5. cp \in Nat /\ cq \in Nat /\ cp >= cq
  BY <1>1, <1>2, <1>3, <1>4 DEF Search!Close
<1>6. wp \in Nat /\ wq \in Nat /\ Weight(p) \in Nat /\ Weight(q) \in Nat
  BY <1>1, <1>2
<1>7. /\ Search!Score(p, S) = 45 * cp + 30 * wp + Weight(p)
      /\ Search!Score(q, S) = 45 * cq + 30 * wq + Weight(q)
  BY DEF Search!Score
<1> HIDE DEF cp, cq
<1> QED
  BY <1>5, <1>6, <1>7

\* Of two rows of an owner whose chunks were embedded, the one closer to the query is answered
\* first unless the other has more of its words, a better type or a better date, for any rows
\* and wherever the semantic query is cut (_semantic_scores, search_notes).
THEOREM CloserAnsweredFirst == MCSpec => []CloserComesFirst
<1>1. SearchInv => Search!TypeOK
  BY DEF SearchInv, CallsOK, Search!TypeOK
<1>2. ASSUME SearchInv, NEW owner \in Owners, NEW S \in Search!Nearest,
             NEW r \in Search!Answers(owner, S), NEW i \in DOMAIN r, NEW j \in DOMAIN r,
             \A x \in {r[i], r[j]} : cuts[x] # NULL /\ cuts[x].sound,
             Near(cuts[r[i]].text) > Near(cuts[r[j]].text),
             Words(rows[r[i]].text) >= Words(rows[r[j]].text),
             Weight(r[i]) >= Weight(r[j])
      PROVE  i < j \/ Search!Score(r[i], S) = Search!Score(r[j], S)
  <2> DEFINE found == {p \in Paths : /\ rows[p] # NULL /\ rows[p].owner = owner
                                     /\ Search!Score(p, S) > 0}
  <2>1. /\ r \in [1..Cardinality(found) -> found]
        /\ \A k, l \in DOMAIN r : k < l => Search!Score(r[k], S) >= Search!Score(r[l], S)
    BY DEF Search!Answers, Search!Cardinality, Cardinality
  <2>2. IsFiniteSet(found)
    <3>1. IsFiniteSet(Paths)
      BY SearchAssumption DEF Search!SearchIndexAssumption, Search!IsFiniteSet, IsFiniteSet
    <3> QED
      BY <3>1, FS_Subset
  <2>3. Cardinality(found) \in Nat
    BY <2>2, FS_CardinalityType
  <2>4. i \in Nat /\ j \in Nat /\ r[i] \in found /\ r[j] \in found
    BY <2>1, <2>3
  <2>5. r[i] \in Paths /\ r[j] \in Paths /\ rows[r[i]] # NULL /\ rows[r[j]] # NULL
    BY <2>4
  <2>6. /\ Search!Score(r[i], S) \in Nat /\ Search!Score(r[j], S) \in Nat
        /\ Search!Score(r[i], S) >= Search!Score(r[j], S)
    BY <1>2, <2>5, CloserScoresMore
  <2>7. j < i => Search!Score(r[j], S) >= Search!Score(r[i], S)
    BY <2>1
  <2>8. i < j \/ i = j \/ j < i
    BY <2>4
  <2> QED
    BY <2>6, <2>7, <2>8
<1>3. SearchInv => Search!CloserComesFirst
  BY <1>2 DEF Search!CloserComesFirst
<1>4. SearchInv => CloserComesFirst
  BY <1>1, <1>3 DEF CloserComesFirst
<1> QED
  BY <1>4, SearchKept, PTL DEF MCSpec

---------------------------------------------------------------------------
(* The notes of the inbox                                                  *)
(*                                                                         *)
(* A note that nothing disturbed is where the run that has listed it       *)
(* believes it is, no other run has listed it, and a text that is about to *)
(* be written is current. Whatever could come between disturbs the note.   *)
(* The operators take the state as arguments, so that they can be used of  *)
(* the next one.                                                           *)

Spots == Inbox!Places
Saying == Int
Note == [file : Notes, says : Saying]
Listed == [path : Spots, file : Notes]

Filing == [pc : {"cleanup", "next", "replay", "move", "write", "migrate"},
           todo : SUBSET Listed, item : SUBSET Listed, text : Saying \cup {NULL},
           dest : Spots \cup {NULL}]

InboxTyped(at, ed, runs) ==
  /\ at \in [Spots -> Note \cup {NULL}]
  /\ ed \in [Notes -> Nat \cup {NULL}]
  /\ runs \in [Filers -> Filing \cup {NULL}]

Is(at, p, n) == at[p] # NULL /\ at[p].file = n

\* What k says is what people last wrote to n or, of a dashboard note, what a model made of
\* that.
Means(n, ed, k) == k = ed[n] \/ (n \in Dashboard /\ k = Inbox!Reworded(ed[n]))

\* Note n is nowhere, or in one place and current.
NoteOK(n, at, ed) ==
  IF ed[n] = NULL THEN \A p \in Spots : ~Is(at, p, n)
  ELSE /\ \E p \in Spots : Is(at, p, n) /\ Means(n, ed, at[p].says)
       /\ \A p, q \in Spots : Is(at, p, n) /\ Is(at, q, n) => p = q

HeldFiles(q) == IF q = NULL THEN {} ELSE {c.file : c \in q.todo \cup q.item}

\* Where the run q believes that the note c is.
Where(q, c) == IF q.pc = "write" /\ c \in q.item THEN q.dest ELSE c.path

\* What a run goes by.
StepOK(q) ==
  IF q.pc \in {"move", "write"}
  THEN /\ \E c \in Listed : q.item = {c}
       /\ q.dest \in Spots /\ q.dest[1] \in {"Filed", "Unfiled"}
  ELSE q.item = {}

\* Nothing comes to the legacy folder.
LegacyOK(q, at) ==
  q.pc = "migrate" => \A c \in q.todo : /\ c.path[1] = "Legacy"
                                        /\ at[c.path] # NULL => at[c.path].file = c.file

HeldOK(q, c, at, ed) ==
  /\ Is(at, Where(q, c), c.file)
  /\ q.pc = "cleanup" => at[c.path].says = 0
  /\ c \in q.item => q.text \in {NULL, Inbox!Blank} \/ Means(c.file, ed, q.text)

FilingOK(q, at, ed, dist) ==
  /\ StepOK(q) /\ LegacyOK(q, at)
  /\ \A c \in q.item, d \in q.todo : c.file = d.file => c.file \in dist
  /\ \A c \in q.todo \cup q.item : c.file \notin dist => HeldOK(q, c, at, ed)

Apart(runs, dist) ==
  \A r, s \in Filers : r # s => HeldFiles(runs[r]) \cap HeldFiles(runs[s]) \subseteq dist

InboxOK(at, ed, runs, dist) ==
  /\ InboxTyped(at, ed, runs)
  /\ \A n \in Notes \ dist : NoteOK(n, at, ed)
  /\ \A r \in Filers : runs[r] # NULL => FilingOK(runs[r], at, ed, dist)
  /\ Apart(runs, dist)

InboxInv ==
  /\ InboxOK(fs, edits, filing, disturbed)
  /\ tagged \subseteq Notes /\ disturbed \subseteq Notes

LEMMA InboxFacts ==
  /\ Dashboard \subseteq Notes /\ Older \subseteq Notes /\ Portals \subseteq Filers
  /\ Names \in Nat \ {0} /\ NULL \notin Int /\ NULL \notin Note
  /\ \A n \in Note : n # NULL
<1>1. NULL \notin Int \cup [file : Notes, says : Int]
  BY InboxAssumption DEF Inbox!FileInboxAssumption
<1>2. Note = [file : Notes, says : Int]
  BY DEF Note, Saying
<1> QED
  BY <1>1, <1>2, InboxAssumption DEF Inbox!FileInboxAssumption

LEMMA NoteIs ==
  ASSUME NEW n \in Notes, NEW k \in Int
  PROVE  [file |-> n, says |-> k] \in Note
BY DEF Note, Saying

\* What a model makes of what is current is.
LEMMA RewordedIs ==
  ASSUME NEW n \in Dashboard, NEW ed, ed[n] \in Nat, NEW k, Means(n, ed, k)
  PROVE  Means(n, ed, Inbox!Reworded(k))
BY DEF Means, Inbox!Reworded

LEMMA SpotsAre == Spots = {"Inbox", "Filed", "Unfiled", "Legacy"} \X (1..Names)
BY DEF Spots, Inbox!Places, Inbox!Folders

\* A set of natural numbers has a least member: of the intervals 0..n that its
\* members span, one is strictly inside no other.
LEMMA LeastNatural ==
  ASSUME NEW T, T \subseteq Nat, T # {}
  PROVE  \E n \in T : \A m \in T : n <= m
<1> DEFINE spans == {0..n : n \in T}
<1>1. spans \subseteq FiniteSubsetsOf(Nat) /\ spans # {}
  <2>1. ASSUME NEW n \in T
        PROVE  0..n \in FiniteSubsetsOf(Nat)
    <3>1. n \in Int /\ 0..n \in SUBSET Nat
      OBVIOUS
    <3>2. IsFiniteSet(0..n)
      BY <3>1, FS_Interval
    <3> QED
      BY <3>1, <3>2 DEF FiniteSubsetsOf
  <2> QED
    BY <2>1
<1>2. PICK span \in spans : \A x \in spans : ~ (<<x, span>> \in StrictSubsetOrdering(Nat))
  <2> HIDE DEF spans
  <2> QED
    BY <1>1, WFMin, FS_StrictSubsetOrderingWellFounded
<1>3. PICK n \in T : span = 0..n
  OBVIOUS
<1>4. ASSUME NEW m \in T, m < n
      PROVE  FALSE
  <2>1. 0..m \in SUBSET Nat /\ 0..n \in SUBSET Nat /\ 0..m \subseteq 0..n
    BY <1>4
  <2>2. n \in 0..n /\ n \notin 0..m
    BY <1>4
  <2>3. <<0..m, 0..n>> \in StrictSubsetOrdering(Nat)
    BY <2>1, <2>2, Zenon DEF StrictSubsetOrdering
  <2> QED
    BY <1>2, <1>3, <2>3
<1> QED
  BY <1>4

\* The name that is taken of a folder is one that is free.
LEMMA UniqueIsFree ==
  ASSUME NEW folder, Inbox!Free(folder) # {}
  PROVE  /\ Inbox!Unique(folder) \in Spots /\ fs[Inbox!Unique(folder)] = NULL
         /\ Inbox!Unique(folder)[1] = folder
<1> DEFINE free == {p \in Spots : p[1] = folder /\ fs[p] = NULL}
           ranks == {p[2] : p \in free}
<1>1. Inbox!Free(folder) = free
  BY DEF Inbox!Free, Spots
<1>2. \A p \in free : p[2] \in Nat
  BY SpotsAre, InboxFacts
<1>3. ranks \subseteq Nat /\ ranks # {}
  BY <1>1, <1>2
<1>4. PICK rank \in ranks : \A other \in ranks : rank <= other
  <2> HIDE DEF ranks
  <2> QED
    BY <1>3, LeastNatural
<1>5. PICK p \in free : p[2] = rank
  OBVIOUS
<1>6. \A q \in free : p[2] <= q[2]
  BY <1>4, <1>5
<1>7. Inbox!Unique(folder) = CHOOSE x \in free : \A q \in free : x[2] <= q[2]
  BY <1>1 DEF Inbox!Unique
<1>8. Inbox!Unique(folder) \in free
  <2> HIDE DEF free
  <2> QED
    BY <1>5, <1>6, <1>7
<1> QED
  BY <1>8

---------------------------------------------------------------------------
(* What a step does to the notes                                           *)

\* What q holds of the notes that stay undisturbed is as it was.
Undisturbed(q, at, at2, ed, ed2, dist) ==
  \A p \in Spots, n \in HeldFiles(q) \ dist :
    Is(at, p, n) => /\ Is(at2, p, n)
                    /\ q.pc \in {"cleanup", "move", "write"} =>
                         at2[p] = at[p] /\ ed2[n] = ed[n]

\* Nothing comes to the legacy folder.
LegacyStays(at, at2) ==
  \A p \in Spots : p[1] = "Legacy" /\ at2[p] # NULL => at[p] # NULL /\ at2[p].file = at[p].file

\* A run is where it believes it is.
LEMMA WhereIs ==
  ASSUME NEW q \in Filing, StepOK(q), NEW c \in q.todo \cup q.item
  PROVE  Where(q, c) \in Spots /\ c \in Listed /\ c.path \in Spots /\ c.file \in Notes
         /\ (q.pc # "write" => Where(q, c) = c.path)
<1>1. c \in Listed /\ c.path \in Spots /\ c.file \in Notes
  BY DEF Filing, Listed
<1>2. q.pc = "write" => q.dest \in Spots
  BY DEF Filing, StepOK
<1> QED
  BY <1>1, <1>2 DEF Where

LEMMA FilingStays ==
  ASSUME NEW q \in Filing, q # NULL, NEW at, NEW at2, NEW ed, NEW ed2, NEW dist, NEW dist2,
         FilingOK(q, at, ed, dist), dist \subseteq dist2,
         Undisturbed(q, at, at2, ed, ed2, dist2), LegacyStays(at, at2)
  PROVE  FilingOK(q, at2, ed2, dist2)
<1>1. StepOK(q) /\ LegacyOK(q, at)
  BY DEF FilingOK
<1>2. LegacyOK(q, at2)
  BY <1>1, WhereIs DEF LegacyOK, LegacyStays
<1>3. ASSUME NEW c \in q.todo \cup q.item, c.file \notin dist2
      PROVE  HeldOK(q, c, at2, ed2)
  <2>1. HeldOK(q, c, at, ed) /\ c.file \in HeldFiles(q) \ dist2
    BY <1>3 DEF FilingOK, HeldFiles
  <2>2. PICK p \in Spots : p = Where(q, c) /\ (q.pc # "write" => p = c.path)
    BY <1>1, WhereIs
  <2>3. Is(at, p, c.file)
    BY <2>1, <2>2 DEF HeldOK
  <2>4. Is(at2, p, c.file) /\ (q.pc \in {"cleanup", "move", "write"} =>
                                at2[p] = at[p] /\ ed2[c.file] = ed[c.file])
    BY <2>1, <2>3 DEF Undisturbed
  <2>5. c \in q.item => q.pc \in {"move", "write"}
    BY <1>1 DEF StepOK
  <2> QED
    BY <2>1, <2>2, <2>4, <2>5 DEF HeldOK, Means
<1>4. \A c \in q.item, d \in q.todo : c.file = d.file => c.file \in dist2
  BY DEF FilingOK
<1> QED
  BY <1>1, <1>2, <1>3, <1>4 DEF FilingOK

\* A step of the run r: the others' notes stay, what r has listed now is its own or
\* disturbed.
RunMoves(r, at, at2, ed, ed2, runs, runs2, dist, dist2) ==
  /\ InboxTyped(at2, ed2, runs2) /\ dist \subseteq dist2
  /\ \A s \in Filers \ {r} :
       /\ runs2[s] = runs[s]
       /\ runs[s] # NULL => Undisturbed(runs[s], at, at2, ed, ed2, dist2)
       /\ HeldFiles(runs2[r]) \cap HeldFiles(runs[s]) \subseteq dist2
  /\ LegacyStays(at, at2)
  /\ \A n \in Notes \ dist2 : NoteOK(n, at2, ed2)
  /\ runs2[r] # NULL => FilingOK(runs2[r], at2, ed2, dist2)

LEMMA OthersStay ==
  ASSUME NEW at, NEW at2, NEW ed, NEW ed2, NEW runs, NEW runs2, NEW dist, NEW dist2,
         NEW r \in Filers, InboxOK(at, ed, runs, dist),
         RunMoves(r, at, at2, ed, ed2, runs, runs2, dist, dist2)
  PROVE  InboxOK(at2, ed2, runs2, dist2)
<1> USE DEF RunMoves
<1>1. ASSUME NEW s \in Filers, runs2[s] # NULL
      PROVE  FilingOK(runs2[s], at2, ed2, dist2)
  <2>1. CASE s = r
    BY <1>1, <2>1
  <2>2. CASE s # r
    <3>1. PICK q \in Filing : q = runs[s] /\ q = runs2[s] /\ q # NULL
      BY <1>1, <2>2 DEF InboxTyped
    <3>2. FilingOK(q, at, ed, dist) /\ Undisturbed(q, at, at2, ed, ed2, dist2)
      BY <3>1, <2>2 DEF InboxOK
    <3> QED
      BY <3>1, <3>2, FilingStays
  <2> QED
    BY <2>1, <2>2
<1>2. ASSUME NEW s \in Filers, NEW t \in Filers, s # t
      PROVE  HeldFiles(runs2[s]) \cap HeldFiles(runs2[t]) \subseteq dist2
  <2>1. Apart(runs, dist)
    BY DEF InboxOK
  <2>2. CASE s # r /\ t # r
    BY <2>1, <2>2, <1>2 DEF Apart
  <2>3. CASE s = r
    BY <2>3, <1>2
  <2>4. CASE t = r
    BY <2>4, <1>2
  <2> QED
    BY <2>2, <2>3, <2>4
<1>3. Apart(runs2, dist2)
  BY <1>2 DEF Apart
<1> QED
  BY <1>1, <1>3 DEF InboxOK

\* A step of people: no run moves.
LEMMA RunsStay ==
  ASSUME NEW at, NEW at2, NEW ed, NEW ed2, NEW runs, NEW dist, NEW dist2,
         InboxOK(at, ed, runs, dist), InboxTyped(at2, ed2, runs), dist \subseteq dist2,
         \A s \in Filers : runs[s] # NULL => Undisturbed(runs[s], at, at2, ed, ed2, dist2),
         LegacyStays(at, at2),
         \A n \in Notes \ dist2 : NoteOK(n, at2, ed2)
  PROVE  InboxOK(at2, ed2, runs, dist2)
<1>1. ASSUME NEW s \in Filers, runs[s] # NULL
      PROVE  FilingOK(runs[s], at2, ed2, dist2)
  <2>1. PICK q \in Filing : q = runs[s] /\ q # NULL
    BY <1>1 DEF InboxTyped
  <2>2. FilingOK(q, at, ed, dist) /\ Undisturbed(q, at, at2, ed, ed2, dist2)
    BY <2>1 DEF InboxOK
  <2> QED
    BY <2>1, <2>2, FilingStays
<1>2. Apart(runs, dist2)
  BY DEF Apart, InboxOK
<1> QED
  BY <1>1, <1>2 DEF InboxOK

\* A note that was nowhere is put where there was none.
Puts(at, at2, ed, ed2, p, n) ==
  /\ at[p] = NULL /\ p \in Spots /\ p[1] # "Legacy" /\ n \in Notes
  /\ ed[n] = NULL /\ ed2[n] # NULL
  /\ Is(at2, p, n) /\ at2[p].says = ed2[n]
  /\ \A o \in Spots \ {p} : at2[o] = at[o]
  /\ \A m \in Notes \ {n} : ed2[m] = ed[m]

LEMMA PutNote ==
  ASSUME NEW at, NEW at2, NEW ed, NEW ed2, NEW p, NEW n, NEW dist,
         Puts(at, at2, ed, ed2, p, n), \A m \in Notes \ dist : NoteOK(m, at, ed)
  PROVE  /\ \A m \in Notes \ dist : NoteOK(m, at2, ed2)
         /\ LegacyStays(at, at2)
         /\ \A q : HeldFiles(q) \subseteq Notes => Undisturbed(q, at, at2, ed, ed2, dist)
<1>1. ASSUME NEW m \in Notes \ dist
      PROVE  NoteOK(m, at2, ed2)
  <2>1. NoteOK(m, at, ed)
    OBVIOUS
  <2>2. CASE m = n
    <3>1. \A o \in Spots : ~Is(at, o, n)
      BY <2>1, <2>2 DEF NoteOK, Puts
    <3>2. \A o \in Spots \ {p} : ~Is(at2, o, n)
      BY <3>1 DEF Puts, Is
    <3> QED
      BY <2>2, <3>2 DEF NoteOK, Puts, Means
  <2>3. CASE m # n
    <3>1. \A o \in Spots : Is(at2, o, m) <=> Is(at, o, m)
      BY <2>3 DEF Puts, Is
    <3>2. \A o \in Spots : Is(at, o, m) => at2[o] = at[o]
      BY DEF Puts, Is
    <3>3. ed2[m] = ed[m]
      BY <2>3 DEF Puts
    <3> QED
      BY <2>1, <3>1, <3>2, <3>3 DEF NoteOK, Means
  <2> QED
    BY <2>2, <2>3
<1>2. LegacyStays(at, at2)
  BY DEF LegacyStays, Puts
<1>3. ASSUME NEW q, HeldFiles(q) \subseteq Notes, NEW o \in Spots,
             NEW m \in HeldFiles(q) \ dist, Is(at, o, m)
      PROVE  Is(at2, o, m) /\ at2[o] = at[o] /\ ed2[m] = ed[m]
  <2>1. o # p
    BY <1>3 DEF Puts, Is
  <2>2. NoteOK(m, at, ed)
    BY <1>3
  <2>3. m # n
    BY <1>3, <2>2 DEF NoteOK, Puts
  <2> QED
    BY <1>3, <2>1, <2>3 DEF Puts, Is
<1> QED
  BY <1>1, <1>2, <1>3 DEF Undisturbed

\* What is at one place goes to a free one.
MovesTo(at, at2, from, to) ==
  /\ from \in Spots /\ to \in Spots /\ to[1] # "Legacy"
  /\ at[from] # NULL /\ at[to] = NULL
  /\ at2[to] = at[from] /\ at2[from] = NULL
  /\ \A o \in Spots \ {from, to} : at2[o] = at[o]

LEMMA MoveNote ==
  ASSUME NEW at, NEW at2, NEW ed, NEW from, NEW to, NEW n,
         MovesTo(at, at2, from, to), NoteOK(n, at, ed)
  PROVE  NoteOK(n, at2, ed)
<1>1. \A o \in Spots \ {from, to} : Is(at2, o, n) <=> Is(at, o, n)
  BY DEF MovesTo, Is
<1>2. ~Is(at2, from, n) /\ ~Is(at, to, n) /\ (Is(at2, to, n) <=> Is(at, from, n))
  BY DEF MovesTo, Is
<1>3. CASE ed[n] = NULL
  BY <1>1, <1>2, <1>3 DEF NoteOK, MovesTo
<1>4. CASE ed[n] # NULL
  <2>1. PICK p \in Spots : Is(at, p, n) /\ Means(n, ed, at[p].says)
    BY <1>4 DEF NoteOK
  <2>2. \A o \in Spots : Is(at, o, n) => o = p
    BY <1>4, <2>1 DEF NoteOK
  <2>3. PICK x \in Spots : x = IF p = from THEN to ELSE p
    BY DEF MovesTo
  <2>4. Is(at2, x, n) /\ Means(n, ed, at2[x].says)
    BY <2>1, <2>3, <1>1, <1>2 DEF MovesTo
  <2>5. \A o \in Spots : Is(at2, o, n) => o = x
    BY <2>1, <2>2, <2>3, <1>1, <1>2 DEF MovesTo
  <2> QED
    BY <1>4, <2>4, <2>5 DEF NoteOK
<1> QED
  BY <1>3, <1>4

\* It disturbs nothing of a run that has not listed what is moved.
LEMMA MoveElsewhere ==
  ASSUME NEW at, NEW at2, NEW ed, NEW from, NEW to, NEW q, NEW dist,
         MovesTo(at, at2, from, to), at[from].file \notin HeldFiles(q) \ dist
  PROVE  Undisturbed(q, at, at2, ed, ed, dist)
BY DEF MovesTo, Undisturbed, Is

\* A run that means c touches another note at c's place only when it disturbs both.
Crossing(c, at, dist) ==
  at[c.path] # NULL /\ at[c.path].file # c.file => {at[c.path].file, c.file} \subseteq dist

\* Then what it touches is disturbed or held by no other run.
LEMMA CrossedIs ==
  ASSUME NEW at, NEW ed, NEW runs, NEW dist, NEW dist2, InboxOK(at, ed, runs, dist),
         dist \subseteq dist2, NEW r \in Filers, NEW c \in Listed,
         c.file \in HeldFiles(runs[r]), at[c.path] # NULL, Crossing(c, at, dist2),
         NEW s \in Filers \ {r}
  PROVE  at[c.path].file \notin HeldFiles(runs[s]) \ dist2
<1>1. CASE at[c.path].file # c.file
  BY <1>1 DEF Crossing
<1>2. CASE at[c.path].file = c.file
  BY <1>2 DEF InboxOK, Apart
<1> QED
  BY <1>1, <1>2

\* It touches nothing else.
Touches(c, at, at2, dist) ==
  Crossing(c, at, dist) /\ \A o \in Spots \ {c.path} : at[o] # NULL => at2[o] = at[o]

\* A run knows no notes but those there are.
LEMMA HeldAreNotes ==
  ASSUME NEW q \in Filing \cup {NULL}
  PROVE  HeldFiles(q) \subseteq Notes
BY DEF HeldFiles, Filing, Listed

---------------------------------------------------------------------------
(* What people do                                                          *)

LEMMA PutStep ==
  ASSUME InboxInv, Inbox!Free("Inbox") # {}, NEW n \in Notes, edits[n] = NULL,
         NEW says \in Nat,
         fs' = [fs EXCEPT ![Inbox!Unique("Inbox")] = [file |-> n, says |-> says]],
         edits' = [edits EXCEPT ![n] = says]
  PROVE  /\ \E p : Puts(fs, fs', edits, edits', p, n)
         /\ fs' \in [Spots -> Note \cup {NULL}] /\ edits' \in [Notes -> Nat \cup {NULL}]
<1>1. PICK p \in Spots : p = Inbox!Unique("Inbox") /\ fs[p] = NULL /\ p[1] = "Inbox"
  BY UniqueIsFree
<1>2. PICK x \in Note : x = [file |-> n, says |-> says]
  <2>1. says \in Int
    OBVIOUS
  <2>2. [file |-> n, says |-> says] \in Note
    BY <2>1, NoteIs
  <2> QED
    BY <2>2
<1>3. fs \in [Spots -> Note \cup {NULL}] /\ edits \in [Notes -> Nat \cup {NULL}]
  BY DEF InboxInv, InboxOK, InboxTyped
<1>4. fs' = [fs EXCEPT ![p] = x]
  BY <1>1, <1>2
<1>5. fs'[p] = x /\ edits'[n] = says /\ says # NULL /\ x # NULL
  BY <1>3, <1>4, InboxFacts
<1>6. /\ \A o \in Spots \ {p} : fs'[o] = fs[o]
      /\ \A m \in Notes \ {n} : edits'[m] = edits[m]
  BY <1>3, <1>4
<1>7. Puts(fs, fs', edits, edits', p, n)
  BY <1>1, <1>2, <1>5, <1>6 DEF Puts, Is
<1> QED
  BY <1>3, <1>4, <1>7

LEMMA AddNoteStep ==
  ASSUME InboxInv, Inbox!AddNote
  PROVE  InboxInv'
<1>1. PICK n \in Notes \ Dashboard :
        /\ edits[n] = NULL /\ Inbox!Free("Inbox") # {}
        /\ fs' = [fs EXCEPT ![Inbox!Unique("Inbox")] = [file |-> n, says |-> 1]]
        /\ edits' = [edits EXCEPT ![n] = 1]
        /\ UNCHANGED <<tagged, filing, disturbed>>
  BY DEF Inbox!AddNote
<1>2. PICK p : Puts(fs, fs', edits, edits', p, n)
  BY <1>1, PutStep
<1>3. InboxTyped(fs', edits', filing)
  BY <1>1, PutStep DEF InboxInv, InboxOK, InboxTyped
<1>4. \A s \in Filers : HeldFiles(filing[s]) \subseteq Notes
  BY HeldAreNotes DEF InboxInv, InboxOK, InboxTyped
<1>5. InboxOK(fs, edits, filing, disturbed)
  BY DEF InboxInv
<1>6. /\ \A m \in Notes \ disturbed : NoteOK(m, fs', edits')
      /\ LegacyStays(fs, fs')
      /\ \A q : HeldFiles(q) \subseteq Notes => Undisturbed(q, fs, fs', edits, edits', disturbed)
  <2>1. \A m \in Notes \ disturbed : NoteOK(m, fs, edits)
    BY <1>5 DEF InboxOK
  <2> QED
    BY <2>1, <1>2, PutNote
<1>7. InboxOK(fs', edits', filing, disturbed)
  BY <1>3, <1>4, <1>5, <1>6, RunsStay
<1> QED
  BY <1>1, <1>7 DEF InboxInv

\* Held, for a state that is given.
LEMMA HeldIs == \A r \in Filers : Inbox!Held(r) = HeldFiles(filing[r])
BY DEF Inbox!Held, HeldFiles

LEMMA EditNoteStep ==
  ASSUME InboxInv, Inbox!EditNote
  PROVE  InboxInv'
<1>1. InboxOK(fs, edits, filing, disturbed)
  BY DEF InboxInv
<1>2. /\ fs \in [Spots -> Note \cup {NULL}] /\ edits \in [Notes -> Nat \cup {NULL}]
      /\ filing \in [Filers -> Filing \cup {NULL}]
  BY <1>1 DEF InboxOK, InboxTyped
<1>3. PICK p \in Spots :
        /\ fs[p] # NULL
        /\ edits[fs[p].file] \in 0 .. ([n \in Notes |-> Edits(n)][fs[p].file] - 1)
        /\ edits' = [edits EXCEPT ![fs[p].file] = @ + 1]
        /\ fs' = [fs EXCEPT ![p].says = edits[fs[p].file] + 1]
        /\ disturbed' = IF \E r \in Filers : /\ filing[r] # NULL
                                             /\ filing[r].pc \in {"cleanup", "move", "write"}
                                             /\ fs[p].file \in Inbox!Held(r)
                        THEN disturbed \cup {fs[p].file} ELSE disturbed
        /\ UNCHANGED <<tagged, filing>>
  BY DEF Inbox!EditNote, Spots
<1>4. PICK x \in Note : x = fs[p]
  BY <1>2, <1>3
<1>5. PICK n \in Notes : n = fs[p].file
  BY <1>4 DEF Note
<1>6. PICK k \in Nat : k = edits[n] + 1
  <2>1. [m \in Notes |-> Edits(m)] \in [Notes -> Nat]
    BY InboxAssumption DEF Inbox!FileInboxAssumption
  <2>2. PICK most \in Nat : most = [m \in Notes |-> Edits(m)][n]
    BY <2>1
  <2>3. edits[n] \in 0 .. (most - 1)
    BY <1>3, <1>5, <2>2
  <2> QED
    BY <2>3
<1>7. PICK y \in Note : y = [x EXCEPT !.says = k]
  <2>1. k \in Int
    OBVIOUS
  <2>2. [x EXCEPT !.says = k] = [file |-> x.file, says |-> k] /\ x.file \in Notes
    BY <1>4 DEF Note
  <2> QED
    BY <2>1, <2>2, NoteIs
<1>8. fs' = [fs EXCEPT ![p] = y] /\ y.file = n /\ y.says = k /\ y # NULL
  BY <1>2, <1>3, <1>4, <1>5, <1>6, <1>7, InboxFacts DEF Note
<1>9. edits' = [edits EXCEPT ![n] = k] /\ k # NULL
  BY <1>2, <1>3, <1>5, <1>6, InboxFacts
<1>10. InboxTyped(fs', edits', filing)
  BY <1>2, <1>8, <1>9 DEF InboxTyped
<1>11. disturbed \subseteq disturbed' /\ disturbed' \subseteq Notes
  BY <1>3, <1>5 DEF InboxInv
<1>12. /\ fs'[p] = y /\ Is(fs', p, n) /\ Is(fs, p, n)
       /\ \A o \in Spots \ {p} : fs'[o] = fs[o]
       /\ edits'[n] = k /\ \A m \in Notes \ {n} : edits'[m] = edits[m]
  BY <1>2, <1>3, <1>4, <1>5, <1>8, <1>9 DEF Is
<1>13. \A o \in Spots, m \in Notes : Is(fs', o, m) <=> Is(fs, o, m)
  BY <1>12 DEF Is
<1>14. LegacyStays(fs, fs')
  BY <1>12 DEF LegacyStays, Is
<1>15. ASSUME NEW m \in Notes \ disturbed'
       PROVE  NoteOK(m, fs', edits')
  <2>1. NoteOK(m, fs, edits)
    BY <1>1, <1>11 DEF InboxOK
  <2>2. CASE m = n
    <3>1. \A o, z \in Spots : Is(fs', o, n) /\ Is(fs', z, n) => o = z
      BY <2>1, <2>2, <1>12, <1>13 DEF NoteOK
    <3>2. fs'[p].says = edits'[n]
      BY <1>8, <1>12
    <3> QED
      BY <2>2, <3>1, <3>2, <1>9, <1>12 DEF NoteOK, Means
  <2>3. CASE m # n
    <3>1. \A o \in Spots : Is(fs, o, m) => fs'[o] = fs[o]
      BY <2>3, <1>12 DEF Is
    <3> QED
      BY <2>1, <2>3, <3>1, <1>12, <1>13 DEF NoteOK, Means
  <2> QED
    BY <2>2, <2>3
<1>16. ASSUME NEW s \in Filers, filing[s] # NULL
       PROVE  Undisturbed(filing[s], fs, fs', edits, edits', disturbed')
  <2>1. HeldFiles(filing[s]) \subseteq Notes
    BY <1>2, HeldAreNotes
  <2>2. ASSUME filing[s].pc \in {"cleanup", "move", "write"}, n \in HeldFiles(filing[s])
        PROVE  n \in disturbed'
    BY <2>2, <1>3, <1>5, <1>16, HeldIs
  <2>3. ASSUME NEW o \in Spots, NEW m \in HeldFiles(filing[s]) \ disturbed', Is(fs, o, m),
               filing[s].pc \in {"cleanup", "move", "write"}
        PROVE  fs'[o] = fs[o] /\ edits'[m] = edits[m]
    BY <2>1, <2>2, <2>3, <1>12 DEF Is
  <2> QED
    BY <2>1, <2>3, <1>13 DEF Undisturbed
<1>17. InboxOK(fs', edits', filing, disturbed')
  BY <1>1, <1>10, <1>11, <1>14, <1>15, <1>16, RunsStay
<1> QED
  BY <1>3, <1>11, <1>17 DEF InboxInv

LEMMA TagNoteStep ==
  ASSUME InboxInv, Inbox!TagNote
  PROVE  InboxInv'
BY DEF Inbox!TagNote, InboxInv

---------------------------------------------------------------------------
(* What a run does                                                         *)

LEMMA FilerStep ==
  ASSUME InboxInv, NEW r \in Filers, NEW next \in Filing \cup {NULL},
         filing' = [filing EXCEPT ![r] = next],
         disturbed \subseteq disturbed', disturbed' \subseteq Notes, tagged' \subseteq Notes,
         fs' \in [Spots -> Note \cup {NULL}], edits' \in [Notes -> Nat \cup {NULL}],
         \A s \in Filers \ {r} : filing[s] # NULL =>
           Undisturbed(filing[s], fs, fs', edits, edits', disturbed'),
         LegacyStays(fs, fs'), \A n \in Notes \ disturbed' : NoteOK(n, fs', edits'),
         \A s \in Filers \ {r} : HeldFiles(next) \cap HeldFiles(filing[s]) \subseteq disturbed',
         next # NULL => FilingOK(next, fs', edits', disturbed')
  PROVE  InboxInv'
<1>1. InboxOK(fs, edits, filing, disturbed)
  BY DEF InboxInv
<1>2. filing \in [Filers -> Filing \cup {NULL}]
  BY <1>1 DEF InboxOK, InboxTyped
<1>3. /\ filing' \in [Filers -> Filing \cup {NULL}] /\ filing'[r] = next
      /\ \A s \in Filers \ {r} : filing'[s] = filing[s]
  BY <1>2
<1>4. InboxTyped(fs', edits', filing')
  BY <1>3 DEF InboxTyped
<1>5. \A s \in Filers \ {r} : HeldFiles(filing'[r]) \cap HeldFiles(filing[s]) \subseteq disturbed'
  BY <1>3
<1>6. filing'[r] # NULL => FilingOK(filing'[r], fs', edits', disturbed')
  BY <1>3
<1>7. RunMoves(r, fs, fs', edits, edits', filing, filing', disturbed, disturbed')
  BY <1>3, <1>4, <1>5, <1>6 DEF RunMoves
<1>8. InboxOK(fs', edits', filing', disturbed')
  BY <1>1, <1>7, OthersStay
<1> QED
  BY <1>8 DEF InboxInv

\* A run that holds no more than before holds nothing of another.
LEMMA HoldsLess ==
  ASSUME InboxInv, NEW r \in Filers, NEW next, HeldFiles(next) \subseteq HeldFiles(filing[r]),
         disturbed \subseteq disturbed', NEW s \in Filers \ {r}
  PROVE  HeldFiles(next) \cap HeldFiles(filing[s]) \subseteq disturbed'
BY DEF InboxInv, InboxOK, Apart

\* A step that leaves the notes alone.
LEMMA RunOnly ==
  ASSUME InboxInv, NEW r \in Filers, NEW next \in Filing \cup {NULL},
         filing' = [filing EXCEPT ![r] = next], UNCHANGED <<fs, edits>>,
         disturbed \subseteq disturbed', disturbed' \subseteq Notes, tagged' \subseteq Notes,
         \A s \in Filers \ {r} : HeldFiles(next) \cap HeldFiles(filing[s]) \subseteq disturbed',
         next # NULL => FilingOK(next, fs, edits, disturbed')
  PROVE  InboxInv'
<1>1. /\ fs \in [Spots -> Note \cup {NULL}] /\ edits \in [Notes -> Nat \cup {NULL}]
      /\ \A n \in Notes \ disturbed' : NoteOK(n, fs, edits)
  BY DEF InboxInv, InboxOK, InboxTyped
<1>2. LegacyStays(fs, fs)
  BY DEF LegacyStays
<1>3. \A q : Undisturbed(q, fs, fs, edits, edits, disturbed')
  BY DEF Undisturbed
<1>4. fs' = fs /\ edits' = edits
  OBVIOUS
<1>5. fs' \in [Spots -> Note \cup {NULL}] /\ edits' \in [Notes -> Nat \cup {NULL}]
  BY <1>1, <1>4
<1>6. \A s \in Filers \ {r} : filing[s] # NULL =>
        Undisturbed(filing[s], fs, fs', edits, edits', disturbed')
  BY <1>3, <1>4
<1>7. LegacyStays(fs, fs')
  BY <1>2, <1>4
<1>8. \A n \in Notes \ disturbed' : NoteOK(n, fs', edits')
  BY <1>1, <1>4
<1>9. next # NULL => FilingOK(next, fs', edits', disturbed')
  BY <1>4
<1> QED
  BY <1>5, <1>6, <1>7, <1>8, <1>9, FilerStep

LEMMA RunEnds ==
  ASSUME InboxInv, NEW r \in Filers, filing' = [filing EXCEPT ![r] = NULL],
         UNCHANGED <<fs, edits, tagged, disturbed>>
  PROVE  InboxInv'
<1>1. disturbed \subseteq disturbed' /\ disturbed' \subseteq Notes /\ tagged' \subseteq Notes
  BY DEF InboxInv
<1>2. HeldFiles(NULL) = {}
  BY DEF HeldFiles
<1> QED
  BY <1>1, <1>2, RunOnly

LEMMA EndStep ==
  ASSUME InboxInv, NEW r \in Filers, Inbox!End(r)
  PROVE  InboxInv'
BY RunEnds DEF Inbox!End

\* A listing tells what is there.
LEMMA ListedIs ==
  ASSUME InboxInv, NEW ps, ps \subseteq Spots, \A p \in ps : fs[p] # NULL
  PROVE  /\ Inbox!Listed(ps) \subseteq Listed
         /\ \A c \in Inbox!Listed(ps) : Is(fs, c.path, c.file) /\ c.path \in ps
<1>1. \A p \in ps : fs[p] \in Note
  BY DEF InboxInv, InboxOK, InboxTyped
<1>2. \A p \in ps : [path |-> p, file |-> fs[p].file] \in Listed
  BY <1>1 DEF Listed, Note
<1> QED
  BY <1>2 DEF Inbox!Listed, Is

LEMMA BeginsStep ==
  ASSUME InboxInv, NEW r \in Filers, NEW pc \in {"cleanup", "next", "replay", "migrate"},
         NEW ps, ps \subseteq Spots, \A p \in ps : fs[p] # NULL,
         pc = "cleanup" => \A p \in ps : fs[p].says = 0,
         pc = "migrate" => \A p \in ps : p[1] = "Legacy",
         Inbox!Begins(r, pc, Inbox!Listed(ps)), UNCHANGED <<fs, edits, tagged>>
  PROVE  InboxInv'
<1>1. PICK todo : todo = Inbox!Listed(ps)
  OBVIOUS
<1>2. todo \subseteq Listed /\ \A c \in todo : Is(fs, c.path, c.file) /\ c.path \in ps
  BY <1>1, ListedIs
<1>3. PICK q : q = [pc |-> pc, todo |-> todo, item |-> {}, text |-> NULL, dest |-> NULL]
  OBVIOUS
<1>4. /\ filing' = [filing EXCEPT ![r] = q]
      /\ disturbed' = disturbed \cup ({c.file : c \in todo} \cap Inbox!HeldNow)
  BY <1>1, <1>3 DEF Inbox!Begins
<1>5. q \in Filing
  BY <1>2, <1>3 DEF Filing
<1>6. /\ q.pc = pc /\ q.todo = todo /\ q.item = {}
      /\ HeldFiles(q) \subseteq {c.file : c \in todo}
  BY <1>3 DEF HeldFiles
<1>7. {c.file : c \in todo} \subseteq Notes
  BY <1>2 DEF Listed
<1>8. /\ disturbed \subseteq disturbed' /\ disturbed' \subseteq Notes /\ tagged' \subseteq Notes
  BY <1>4, <1>7 DEF InboxInv
<1>9. ASSUME NEW s \in Filers
      PROVE  HeldFiles(q) \cap HeldFiles(filing[s]) \subseteq disturbed'
  <2>1. HeldFiles(filing[s]) \subseteq Inbox!HeldNow
    BY HeldIs DEF Inbox!HeldNow
  <2> QED
    BY <2>1, <1>4, <1>6
<1>10. FilingOK(q, fs, edits, disturbed')
  <2>1. StepOK(q)
    BY <1>6 DEF StepOK
  <2>2. LegacyOK(q, fs)
    BY <1>2, <1>6 DEF LegacyOK, Is
  <2>3. \A c \in todo : HeldOK(q, c, fs, edits)
    BY <1>2, <1>6 DEF HeldOK, Where, Is
  <2> QED
    BY <2>1, <2>2, <2>3, <1>6 DEF FilingOK
<1> QED
  BY <1>4, <1>5, <1>8, <1>9, <1>10, RunOnly

LEMMA TakenIs ==
  ASSUME NEW folder
  PROVE  Inbox!Taken(folder) = {p \in Spots : p[1] = folder /\ fs[p] # NULL}
BY DEF Inbox!Taken, Spots

LEMMA CreateDocumentStep ==
  ASSUME InboxInv, NEW r \in Filers, Inbox!CreateDocument(r)
  PROVE  InboxInv'
<1>1. PICK ps : ps = {p \in Inbox!Taken("Inbox") : fs[p].file \in Dashboard /\ Inbox!Empty(p)}
  OBVIOUS
<1>2. Inbox!Begins(r, "cleanup", Inbox!Listed(ps)) /\ UNCHANGED <<fs, edits, tagged>>
  BY <1>1 DEF Inbox!CreateDocument
<1>3. ps \subseteq Spots /\ \A p \in ps : fs[p] # NULL /\ fs[p].says = 0
  BY <1>1, TakenIs DEF Inbox!Empty
<1> QED
  BY <1>2, <1>3, BeginsStep

LEMMA ProcessInboxStep ==
  ASSUME InboxInv, NEW r \in Filers, Inbox!ProcessInbox(r)
  PROVE  InboxInv'
<1>1. PICK ps \in SUBSET Inbox!Candidates(r) : Inbox!Begins(r, "next", Inbox!Listed(ps))
  BY DEF Inbox!ProcessInbox
<1>2. ps \subseteq Spots /\ \A p \in ps : fs[p] # NULL
  BY <1>1, TakenIs DEF Inbox!Candidates
<1>3. UNCHANGED <<fs, edits, tagged>>
  BY DEF Inbox!ProcessInbox
<1> QED
  BY <1>1, <1>2, <1>3, BeginsStep

LEMMA ReplayUnfiledStep ==
  ASSUME InboxInv, NEW r \in Filers, Inbox!ReplayUnfiled(r)
  PROVE  InboxInv'
<1>1. PICK ps : ps = Inbox!Taken("Unfiled")
  OBVIOUS
<1>2. Inbox!Begins(r, "replay", Inbox!Listed(ps)) /\ UNCHANGED <<fs, edits, tagged>>
  BY <1>1 DEF Inbox!ReplayUnfiled
<1>3. ps \subseteq Spots /\ \A p \in ps : fs[p] # NULL
  BY <1>1, TakenIs
<1> QED
  BY <1>2, <1>3, BeginsStep

LEMMA MigrateStep ==
  ASSUME InboxInv, NEW r \in Filers, Inbox!MigrateFamilycloud(r)
  PROVE  InboxInv'
<1>1. PICK ps : ps = {p \in Inbox!Taken("Legacy") : fs[Inbox!There(p)] = NULL}
  OBVIOUS
<1>2. Inbox!Begins(r, "migrate", Inbox!Listed(ps)) /\ UNCHANGED <<fs, edits, tagged>>
  BY <1>1 DEF Inbox!MigrateFamilycloud
<1>3. ps \subseteq Spots /\ \A p \in ps : fs[p] # NULL /\ p[1] = "Legacy"
  BY <1>1, TakenIs
<1> QED
  BY <1>2, <1>3, BeginsStep

\* What is known of a run in progress.
LEMMA FilingIs ==
  ASSUME InboxInv, NEW r \in Filers, filing[r] # NULL
  PROVE  /\ filing[r] \in Filing /\ FilingOK(filing[r], fs, edits, disturbed)
         /\ \A c \in filing[r].todo \cup filing[r].item :
              /\ c \in Listed /\ c.path \in Spots /\ c.file \in Notes
              /\ c.file \in HeldFiles(filing[r])
<1>1. filing[r] \in Filing /\ FilingOK(filing[r], fs, edits, disturbed)
  BY DEF InboxInv, InboxOK, InboxTyped
<1> QED
  BY <1>1 DEF Filing, Listed, HeldFiles

LEMMA CrossedDisturbs ==
  ASSUME InboxInv, NEW r \in Filers, NEW c \in Listed, fs[c.path] # NULL,
         disturbed' = disturbed \cup Inbox!Crossed(r, c)
  PROVE  /\ Crossing(c, fs, disturbed') /\ disturbed \subseteq disturbed'
         /\ disturbed' \subseteq Notes
<1>1. fs[c.path].file \in Notes /\ c.file \in Notes
  BY DEF InboxInv, InboxOK, InboxTyped, Note, Listed
<1>2. Inbox!Crossed(r, c) \subseteq Notes
  BY <1>1 DEF Inbox!Crossed
<1>3. fs[c.path].file # c.file => {fs[c.path].file, c.file} \subseteq Inbox!Crossed(r, c)
  BY DEF Inbox!Crossed
<1> QED
  BY <1>2, <1>3 DEF Crossing, InboxInv

\* move_resource to a name that is free.
LEMMA MovedIs ==
  ASSUME InboxInv, NEW from \in Spots, NEW to \in Spots, to[1] # "Legacy",
         fs[from] # NULL, fs[to] = NULL, fs' = Inbox!Moved(from, to)
  PROVE  MovesTo(fs, fs', from, to) /\ fs' \in [Spots -> Note \cup {NULL}]
<1>1. fs \in [Spots -> Note \cup {NULL}]
  BY DEF InboxInv, InboxOK, InboxTyped
<1>2. fs' = [fs EXCEPT ![to] = fs[from], ![from] = NULL]
  BY DEF Inbox!Moved
<1> QED
  BY <1>1, <1>2 DEF MovesTo

LEMMA MovedStep ==
  ASSUME InboxInv, NEW r \in Filers, NEW c \in Listed, NEW to \in Spots, NEW next \in Filing,
         filing[r] # NULL, c \in filing[r].todo \cup filing[r].item,
         filing' = [filing EXCEPT ![r] = next],
         MovesTo(fs, fs', c.path, to), fs' \in [Spots -> Note \cup {NULL}],
         edits' = edits, tagged' = tagged,
         disturbed \subseteq disturbed', disturbed' \subseteq Notes,
         Crossing(c, fs, disturbed'), HeldFiles(next) \subseteq HeldFiles(filing[r]),
         FilingOK(next, fs', edits, disturbed')
  PROVE  InboxInv'
<1>1. InboxOK(fs, edits, filing, disturbed) /\ tagged \subseteq Notes
  BY DEF InboxInv
<1>2. edits \in [Notes -> Nat \cup {NULL}] /\ \A n \in Notes \ disturbed' : NoteOK(n, fs, edits)
  BY <1>1 DEF InboxOK, InboxTyped
<1>3. \A n \in Notes \ disturbed' : NoteOK(n, fs', edits)
  BY <1>2, MoveNote
<1>4. c.file \in HeldFiles(filing[r]) /\ fs[c.path] # NULL
  BY FilingIs DEF MovesTo
<1>5. ASSUME NEW s \in Filers \ {r}
      PROVE  /\ Undisturbed(filing[s], fs, fs', edits, edits, disturbed')
             /\ HeldFiles(next) \cap HeldFiles(filing[s]) \subseteq disturbed'
  <2>1. fs[c.path].file \notin HeldFiles(filing[s]) \ disturbed'
    BY <1>1, <1>4, CrossedIs
  <2> QED
    BY <2>1, MoveElsewhere, HoldsLess
<1>6. LegacyStays(fs, fs')
  BY DEF LegacyStays, MovesTo
<1>7. /\ edits' \in [Notes -> Nat \cup {NULL}] /\ tagged' \subseteq Notes
      /\ \A s \in Filers \ {r} : filing[s] # NULL =>
           Undisturbed(filing[s], fs, fs', edits, edits', disturbed')
      /\ \A n \in Notes \ disturbed' : NoteOK(n, fs', edits')
      /\ FilingOK(next, fs', edits', disturbed')
  BY <1>1, <1>2, <1>3, <1>5
<1> QED
  BY <1>5, <1>6, <1>7, FilerStep

\* And what else the run q has listed stays.
LEMMA RestStay ==
  ASSUME NEW q \in Filing, q # NULL, FilingOK(q, fs, edits, disturbed), q.pc # "write",
         NEW c \in q.todo \cup q.item, Touches(c, fs, fs', disturbed'),
         disturbed \subseteq disturbed', NEW d \in q.todo, d # c, d.file \notin disturbed'
  PROVE  Is(fs, d.path, d.file) /\ fs'[d.path] = fs[d.path]
<1> USE DEF Touches
<1>1. StepOK(q) /\ HeldOK(q, d, fs, edits)
  BY DEF FilingOK
<1>2. d \in Listed /\ c \in Listed /\ d.path \in Spots
  BY <1>1, WhereIs
<1>3. Is(fs, d.path, d.file)
  BY <1>1, WhereIs DEF HeldOK
<1>4. d.path # c.path
  <2>1. SUFFICES ASSUME d.path = c.path
                 PROVE  FALSE
    OBVIOUS
  <2>2. d.file = c.file
    BY <1>3, <2>1 DEF Crossing, Is
  <2>3. d = c
    BY <1>2, <2>1, <2>2 DEF Listed
  <2> QED
    BY <2>3
<1> QED
  BY <1>2, <1>3, <1>4 DEF Is

LEMMA ReplayedStep ==
  ASSUME InboxInv, NEW r \in Filers, Inbox!Replayed(r)
  PROVE  InboxInv'
<1>1. PICK q \in Filing : q = filing[r] /\ q # NULL /\ FilingOK(q, fs, edits, disturbed)
  BY FilingIs DEF Inbox!Replayed
<1>2. q.pc = "replay" /\ filing' = [filing EXCEPT ![r].pc = "next"]
      /\ UNCHANGED <<fs, edits, tagged, disturbed>>
  BY <1>1 DEF Inbox!Replayed
<1>3. PICK next \in Filing : next = [q EXCEPT !.pc = "next"]
  BY <1>1 DEF Filing
<1>4. /\ next.pc = "next" /\ next.todo = q.todo /\ next.item = q.item /\ next.text = q.text
      /\ HeldFiles(next) \subseteq HeldFiles(q)
  BY <1>1, <1>3 DEF Filing, HeldFiles
<1>5. FilingOK(next, fs, edits, disturbed)
  BY <1>1, <1>2, <1>4 DEF FilingOK, StepOK, LegacyOK, HeldOK, Where
<1>6. filing' = [filing EXCEPT ![r] = next]
  BY <1>1, <1>2, <1>3
<1>7. /\ \A s \in Filers \ {r} : HeldFiles(next) \cap HeldFiles(filing[s]) \subseteq disturbed'
      /\ disturbed \subseteq disturbed' /\ disturbed' \subseteq Notes /\ tagged' \subseteq Notes
      /\ FilingOK(next, fs, edits, disturbed')
  BY <1>1, <1>2, <1>4, <1>5, HoldsLess DEF InboxInv
<1> QED
  BY <1>2, <1>6, <1>7, RunOnly

LEMMA ReplayOneStep ==
  ASSUME InboxInv, NEW r \in Filers, Inbox!ReplayOne(r)
  PROVE  InboxInv'
<1>1. PICK q \in Filing : q = filing[r] /\ q # NULL /\ FilingOK(q, fs, edits, disturbed)
  BY FilingIs DEF Inbox!ReplayOne
<1>2. q.pc = "replay" /\ UNCHANGED <<edits, tagged>> /\ Inbox!Free("Inbox") # {}
  BY <1>1 DEF Inbox!ReplayOne
<1>3. PICK u \in Spots : u = Inbox!Unique("Inbox") /\ fs[u] = NULL /\ u[1] # "Legacy"
  BY <1>2, UniqueIsFree
<1>4. PICK c \in q.todo :
        \/ /\ fs' = Inbox!Moved(c.path, u)
           /\ filing' = [filing EXCEPT ![r].todo =
                           (@ \ {c}) \cup {[path |-> u, file |-> c.file]}]
           /\ disturbed' = IF fs[c.path] = NULL THEN disturbed
                           ELSE disturbed \cup Inbox!Crossed(r, c)
        \/ filing' = [filing EXCEPT ![r] = NULL] /\ UNCHANGED <<fs, disturbed>>
  BY <1>1, <1>3 DEF Inbox!ReplayOne
<1>5. CASE filing' = [filing EXCEPT ![r] = NULL] /\ UNCHANGED <<fs, disturbed>>
  BY <1>2, <1>5, RunEnds
<1>6. CASE /\ fs' = Inbox!Moved(c.path, u)
           /\ filing' = [filing EXCEPT ![r].todo =
                           (@ \ {c}) \cup {[path |-> u, file |-> c.file]}]
           /\ disturbed' = IF fs[c.path] = NULL THEN disturbed
                           ELSE disturbed \cup Inbox!Crossed(r, c)
  <2>1. c \in Listed /\ c.path \in Spots /\ c.file \in Notes /\ c.file \in HeldFiles(q)
    BY <1>1, FilingIs
  <2>2. PICK there \in Listed : there.path = u /\ there.file = c.file
                                /\ there = [path |-> u, file |-> c.file]
    BY <1>3, <2>1 DEF Listed
  <2>3. PICK next \in Filing : next = [q EXCEPT !.todo = (q.todo \ {c}) \cup {there}]
    BY <1>1, <2>2 DEF Filing
  <2>4. /\ next.pc = "replay" /\ next.todo = (q.todo \ {c}) \cup {there}
        /\ next.item = q.item
    BY <1>1, <1>2, <2>3 DEF Filing
  <2>5. StepOK(q) /\ q.item = {}
    BY <1>1, <1>2 DEF FilingOK, StepOK
  <2>6. HeldFiles(next) \subseteq HeldFiles(q)
    BY <1>1, <2>1, <2>2, <2>4 DEF HeldFiles
  <2>7. filing' = [filing EXCEPT ![r] = next]
    BY <1>1, <1>6, <2>2, <2>3
  <2>8. StepOK(next) /\ LegacyOK(next, fs')
    BY <2>4, <2>5 DEF StepOK, LegacyOK
  <2>9. CASE fs[c.path] = NULL
    <3>1. fs' = fs
      BY <1>3, <1>6, <2>1, <2>9 DEF Inbox!Moved, InboxInv, InboxOK, InboxTyped
    <3>2. c.file \in disturbed
      BY <1>1, <1>2, <2>9 DEF FilingOK, HeldOK, Where, Is
    <3>3. FilingOK(next, fs, edits, disturbed)
      BY <1>1, <1>2, <2>2, <2>4, <2>5, <2>8, <3>1, <3>2 DEF FilingOK, HeldOK, Where
    <3>4. disturbed' = disturbed
      BY <1>6, <2>9
    <3>5. /\ \A s \in Filers \ {r} : HeldFiles(next) \cap HeldFiles(filing[s]) \subseteq disturbed'
          /\ disturbed \subseteq disturbed' /\ disturbed' \subseteq Notes /\ tagged' \subseteq Notes
          /\ FilingOK(next, fs, edits, disturbed')
      BY <1>1, <1>2, <2>6, <3>3, <3>4, HoldsLess DEF InboxInv
    <3> QED
      BY <1>2, <2>7, <3>1, <3>5, RunOnly
  <2>10. CASE fs[c.path] # NULL
    <3>1. disturbed' = disturbed \cup Inbox!Crossed(r, c)
      BY <1>6, <2>10
    <3>2. Crossing(c, fs, disturbed') /\ disturbed \subseteq disturbed' /\ disturbed' \subseteq Notes
      BY <2>1, <2>10, <3>1, CrossedDisturbs
    <3>3. MovesTo(fs, fs', c.path, u) /\ fs' \in [Spots -> Note \cup {NULL}]
      BY <1>3, <1>6, <2>1, <2>10, MovedIs
    <3>4. ASSUME NEW d \in next.todo, d.file \notin disturbed'
          PROVE  HeldOK(next, d, fs', edits)
      <4>1. CASE d = there
        BY <2>2, <2>4, <2>5, <3>2, <3>3, <3>4, <4>1 DEF HeldOK, Where, Is, Crossing, MovesTo
      <4>2. CASE d # there
        <5>1. d \in q.todo /\ d # c
          BY <2>4, <4>2
        <5>2. Touches(c, fs, fs', disturbed')
          BY <3>2, <3>3 DEF MovesTo, Touches
        <5>3. Is(fs, d.path, d.file) /\ fs'[d.path] = fs[d.path]
          BY <1>1, <1>2, <3>2, <3>4, <5>1, <5>2, RestStay
        <5> QED
          BY <2>4, <2>5, <5>3 DEF HeldOK, Where, Is
      <4> QED
        BY <4>1, <4>2
    <3>5. FilingOK(next, fs', edits, disturbed')
      BY <2>4, <2>5, <2>8, <3>4 DEF FilingOK
    <3> QED
      BY <1>1, <1>2, <2>1, <2>6, <2>7, <3>2, <3>3, <3>5, MovedStep
  <2> QED
    BY <2>9, <2>10
<1> QED
  BY <1>4, <1>5, <1>6

\* A run that has dealt with a note knows of the others what it knew.
LEMMA FewerOK ==
  ASSUME NEW q \in Filing, NEW next \in Filing, FilingOK(q, fs, edits, disturbed),
         next.pc = q.pc, next.item = q.item, next.text = q.text, next.dest = q.dest,
         next.todo \subseteq q.todo
  PROVE  FilingOK(next, fs, edits, disturbed)
<1>1. StepOK(next) /\ LegacyOK(next, fs)
  BY DEF FilingOK, StepOK, LegacyOK
<1>2. \A c : HeldOK(q, c, fs, edits) => HeldOK(next, c, fs, edits)
  BY DEF HeldOK, Where
<1> QED
  BY <1>1, <1>2 DEF FilingOK

LEMMA RemoveOneStep ==
  ASSUME InboxInv, NEW r \in Filers, Inbox!RemoveOne(r)
  PROVE  InboxInv'
<1>1. PICK q \in Filing : q = filing[r] /\ q # NULL /\ FilingOK(q, fs, edits, disturbed)
  BY FilingIs DEF Inbox!RemoveOne
<1>2. q.pc = "cleanup" /\ UNCHANGED tagged
  BY <1>1 DEF Inbox!RemoveOne
<1>3. PICK c \in q.todo :
        /\ fs' = [fs EXCEPT ![c.path] = NULL]
        /\ IF fs[c.path] = NULL THEN UNCHANGED <<edits, disturbed>>
           ELSE /\ disturbed' = disturbed \cup Inbox!Crossed(r, c)
                /\ edits' = IF Inbox!Empty(c.path) THEN [edits EXCEPT ![fs[c.path].file] = NULL]
                            ELSE edits
        /\ filing' = [filing EXCEPT ![r].todo = @ \ {c}]
  BY <1>1 DEF Inbox!RemoveOne
<1>4. c \in Listed /\ c.path \in Spots /\ c.file \in Notes /\ c.file \in HeldFiles(q)
  BY <1>1, FilingIs
<1>5. PICK next \in Filing : next = [q EXCEPT !.todo = q.todo \ {c}]
  BY <1>1 DEF Filing
<1>6. /\ next.pc = q.pc /\ next.todo = q.todo \ {c} /\ next.item = q.item
      /\ next.text = q.text /\ next.dest = q.dest
  BY <1>5 DEF Filing
<1>7. filing' = [filing EXCEPT ![r] = next] /\ HeldFiles(next) \subseteq HeldFiles(filing[r])
  BY <1>1, <1>3, <1>5, <1>6 DEF HeldFiles
<1>8. /\ fs \in [Spots -> Note \cup {NULL}] /\ edits \in [Notes -> Nat \cup {NULL}]
      /\ InboxOK(fs, edits, filing, disturbed) /\ tagged \subseteq Notes /\ disturbed \subseteq Notes
  BY DEF InboxInv, InboxOK, InboxTyped
<1>9. fs' \in [Spots -> Note \cup {NULL}] /\ fs'[c.path] = NULL
      /\ \A o \in Spots \ {c.path} : fs'[o] = fs[o]
  BY <1>3, <1>4, <1>8
<1>10. FilingOK(next, fs, edits, disturbed)
  BY <1>1, <1>6, FewerOK
<1>11. CASE fs[c.path] = NULL
  <2>1. fs' = fs /\ UNCHANGED <<edits, disturbed>>
    BY <1>3, <1>4, <1>8, <1>11
  <2>2. \A s \in Filers \ {r} : HeldFiles(next) \cap HeldFiles(filing[s]) \subseteq disturbed'
    BY <1>7, <2>1, HoldsLess
  <2> QED
    BY <1>2, <1>7, <1>8, <1>10, <2>1, <2>2, RunOnly
<1>12. CASE fs[c.path] # NULL
  <2>1. PICK f \in Notes : f = fs[c.path].file
    BY <1>4, <1>8, <1>12 DEF Note
  <2>2. /\ disturbed' = disturbed \cup Inbox!Crossed(r, c)
        /\ edits' = IF Inbox!Empty(c.path) THEN [edits EXCEPT ![f] = NULL] ELSE edits
    BY <1>3, <1>12, <2>1
  <2>3. Crossing(c, fs, disturbed') /\ disturbed \subseteq disturbed' /\ disturbed' \subseteq Notes
    BY <1>4, <1>12, <2>2, CrossedDisturbs
  <2>4. Touches(c, fs, fs', disturbed')
    BY <1>9, <2>3 DEF Touches
  <2>5. edits' \in [Notes -> Nat \cup {NULL}] /\ \A m \in Notes \ {f} : edits'[m] = edits[m]
    BY <1>8, <2>2
  <2>6. ASSUME NEW n \in Notes \ disturbed'
        PROVE  NoteOK(n, fs', edits')
    <3>1. NoteOK(n, fs, edits)
      BY <1>8, <2>3 DEF InboxOK
    <3>2. CASE n = f
      <4>1. c.file = f
        BY <1>12, <2>1, <2>3, <3>2 DEF Crossing
      <4>2. fs[c.path].says = 0
        BY <1>1, <1>2, <2>3, <3>2, <4>1 DEF FilingOK, HeldOK
      <4>3. edits'[f] = NULL
        BY <1>8, <2>2, <4>2 DEF Inbox!Empty
      <4>4. Is(fs, c.path, f)
        BY <1>12, <2>1 DEF Is
      <4>5. \A o \in Spots : Is(fs, o, f) => o = c.path
        BY <1>4, <3>1, <3>2, <4>4 DEF NoteOK
      <4>6. \A o \in Spots : ~Is(fs', o, f)
        BY <1>9, <4>5 DEF Is
      <4> QED
        BY <3>2, <4>3, <4>6 DEF NoteOK
    <3>3. CASE n # f
      <4>1. \A o \in Spots : Is(fs', o, n) <=> Is(fs, o, n)
        BY <1>9, <2>1, <3>3 DEF Is
      <4>2. \A o \in Spots : Is(fs', o, n) => fs'[o] = fs[o]
        BY <1>9 DEF Is
      <4> QED
        BY <2>5, <3>1, <3>3, <4>1, <4>2 DEF NoteOK, Means
    <3> QED
      BY <3>2, <3>3
  <2>7. ASSUME NEW s \in Filers \ {r}
        PROVE  Undisturbed(filing[s], fs, fs', edits, edits', disturbed')
    <3>1. f \notin HeldFiles(filing[s]) \ disturbed'
      BY <1>1, <1>4, <1>8, <1>12, <2>1, <2>3, CrossedIs
    <3>2. HeldFiles(filing[s]) \subseteq Notes
      BY <1>8, HeldAreNotes DEF InboxOK, InboxTyped
    <3> QED
      BY <1>9, <2>1, <2>5, <3>1, <3>2 DEF Undisturbed, Is
  <2>8. LegacyStays(fs, fs')
    BY <1>9 DEF LegacyStays
  <2>9. FilingOK(next, fs', edits', disturbed')
    <3>1. StepOK(q) /\ q.item = {}
      BY <1>1, <1>2 DEF FilingOK, StepOK
    <3>2. StepOK(next) /\ LegacyOK(next, fs')
      BY <1>2, <1>6, <3>1 DEF StepOK, LegacyOK
    <3>3. ASSUME NEW d \in next.todo, d.file \notin disturbed'
          PROVE  HeldOK(next, d, fs', edits')
      <4>1. Is(fs, d.path, d.file) /\ fs'[d.path] = fs[d.path]
        BY <1>1, <1>2, <1>6, <2>3, <2>4, <3>3, RestStay
      <4>2. HeldOK(q, d, fs, edits)
        BY <1>1, <1>6, <2>3, <3>3 DEF FilingOK
      <4> QED
        BY <1>2, <1>6, <3>1, <4>1, <4>2 DEF HeldOK, Where, Is
    <3> QED
      BY <1>6, <3>1, <3>2, <3>3 DEF FilingOK
  <2>10. \A s \in Filers \ {r} : HeldFiles(next) \cap HeldFiles(filing[s]) \subseteq disturbed'
    BY <1>7, <2>3, HoldsLess
  <2>11. tagged' \subseteq Notes
    BY <1>2, <1>8
  <2> QED
    BY <1>7, <1>9, <2>3, <2>5, <2>6, <2>7, <2>8, <2>9, <2>10, <2>11, FilerStep
<1> QED
  BY <1>11, <1>12

LEMMA CreateEmptyStep ==
  ASSUME InboxInv, NEW r \in Filers, Inbox!CreateEmpty(r)
  PROVE  InboxInv'
<1>1. PICK n \in Dashboard :
        /\ edits[n] = NULL /\ Inbox!Free("Inbox") # {}
        /\ fs' = [fs EXCEPT ![Inbox!Unique("Inbox")] = [file |-> n, says |-> 0]]
        /\ edits' = [edits EXCEPT ![n] = 0]
  BY DEF Inbox!CreateEmpty
<1>2. filing' = [filing EXCEPT ![r] = NULL] /\ UNCHANGED <<tagged, disturbed>>
  BY DEF Inbox!CreateEmpty
<1>3. n \in Notes
  BY InboxFacts
<1>4. fs' \in [Spots -> Note \cup {NULL}] /\ edits' \in [Notes -> Nat \cup {NULL}]
  BY <1>1, <1>3, PutStep
<1>5. PICK p : Puts(fs, fs', edits, edits', p, n)
  BY <1>1, <1>3, PutStep
<1>6. /\ \A m \in Notes \ disturbed : NoteOK(m, fs, edits)
      /\ tagged \subseteq Notes /\ disturbed \subseteq Notes
      /\ \A s \in Filers : HeldFiles(filing[s]) \subseteq Notes
  BY HeldAreNotes DEF InboxInv, InboxOK, InboxTyped
<1>7. /\ \A m \in Notes \ disturbed : NoteOK(m, fs', edits')
      /\ LegacyStays(fs, fs')
      /\ \A q : HeldFiles(q) \subseteq Notes => Undisturbed(q, fs, fs', edits, edits', disturbed)
  BY <1>5, <1>6, PutNote
<1>8. HeldFiles(NULL) = {}
  BY DEF HeldFiles
<1>9. /\ disturbed \subseteq disturbed' /\ disturbed' \subseteq Notes /\ tagged' \subseteq Notes
      /\ \A m \in Notes \ disturbed' : NoteOK(m, fs', edits')
      /\ \A s \in Filers \ {r} : filing[s] # NULL =>
           Undisturbed(filing[s], fs, fs', edits, edits', disturbed')
      /\ \A s \in Filers \ {r} : HeldFiles(NULL) \cap HeldFiles(filing[s]) \subseteq disturbed'
  BY <1>2, <1>6, <1>7, <1>8
<1> QED
  BY <1>2, <1>4, <1>7, <1>9, FilerStep

LEMMA ThereIs ==
  ASSUME NEW p \in Spots
  PROVE  Inbox!There(p) \in Spots /\ Inbox!There(p)[1] = "Filed"
<1>1. PICK i \in 1..Names : i = p[2]
  BY SpotsAre
<1>2. <<"Filed", i>> \in Spots
  BY SpotsAre
<1> QED
  BY <1>1, <1>2 DEF Inbox!There

LEMMA MigrateOneStep ==
  ASSUME InboxInv, NEW r \in Filers, Inbox!MigrateOne(r)
  PROVE  InboxInv'
<1>1. PICK q \in Filing : q = filing[r] /\ q # NULL /\ FilingOK(q, fs, edits, disturbed)
  BY FilingIs DEF Inbox!MigrateOne
<1>2. q.pc = "migrate" /\ UNCHANGED <<edits, tagged, disturbed>>
  BY <1>1 DEF Inbox!MigrateOne
<1>3. PICK c \in q.todo :
        IF fs[Inbox!There(c.path)] = NULL /\ fs[c.path] # NULL
        THEN /\ fs' = Inbox!Moved(c.path, Inbox!There(c.path))
             /\ filing' = [filing EXCEPT ![r].todo = @ \ {c}]
        ELSE filing' = [filing EXCEPT ![r] = NULL] /\ UNCHANGED fs
  BY <1>1 DEF Inbox!MigrateOne
<1>4. c \in Listed /\ c.path \in Spots /\ c.file \in Notes /\ c.file \in HeldFiles(q)
  BY <1>1, FilingIs
<1>5. CASE ~(fs[Inbox!There(c.path)] = NULL /\ fs[c.path] # NULL)
  BY <1>2, <1>3, <1>5, RunEnds
<1>6. CASE fs[Inbox!There(c.path)] = NULL /\ fs[c.path] # NULL
  <2>1. PICK to \in Spots : to = Inbox!There(c.path) /\ to[1] # "Legacy"
    BY <1>4, ThereIs
  <2>2. PICK next \in Filing : next = [q EXCEPT !.todo = q.todo \ {c}]
    BY <1>1 DEF Filing
  <2>3. /\ next.pc = q.pc /\ next.todo = q.todo \ {c} /\ next.item = q.item
        /\ next.text = q.text /\ next.dest = q.dest
    BY <2>2 DEF Filing
  <2>4. filing' = [filing EXCEPT ![r] = next] /\ HeldFiles(next) \subseteq HeldFiles(filing[r])
    BY <1>1, <1>3, <1>6, <2>2, <2>3 DEF HeldFiles
  <2>5. MovesTo(fs, fs', c.path, to) /\ fs' \in [Spots -> Note \cup {NULL}]
    BY <1>3, <1>4, <1>6, <2>1, MovedIs
  <2>6. StepOK(q) /\ LegacyOK(q, fs)
    BY <1>1 DEF FilingOK
  <2>7. Crossing(c, fs, disturbed)
    BY <1>2, <1>6, <2>6 DEF LegacyOK, Crossing
  <2>8. Touches(c, fs, fs', disturbed)
    BY <2>5, <2>7 DEF Touches, MovesTo
  <2>9. disturbed' = disturbed /\ disturbed \subseteq Notes
    BY <1>2 DEF InboxInv
  <2>10. FilingOK(next, fs', edits, disturbed')
    <3>1. q.item = {} /\ StepOK(next)
      BY <1>2, <2>3, <2>6 DEF StepOK
    <3>2. LegacyOK(next, fs')
      <4>1. LegacyStays(fs, fs')
        BY <2>5 DEF LegacyStays, MovesTo
      <4>2. \A d \in next.todo : d.path \in Spots
        BY <1>1, <2>3, FilingIs
      <4> QED
        BY <1>2, <2>3, <2>6, <4>1, <4>2 DEF LegacyOK, LegacyStays
    <3>3. ASSUME NEW d \in next.todo, d.file \notin disturbed'
          PROVE  HeldOK(next, d, fs', edits)
      <4>1. Is(fs, d.path, d.file) /\ fs'[d.path] = fs[d.path]
        BY <1>1, <1>2, <2>3, <2>8, <2>9, <3>3, RestStay
      <4> QED
        BY <1>2, <2>3, <3>1, <4>1 DEF HeldOK, Where, Is
    <3> QED
      BY <2>3, <3>1, <3>2, <3>3 DEF FilingOK
  <2> QED
    BY <1>1, <1>2, <1>4, <2>4, <2>5, <2>7, <2>9, <2>10, MovedStep
<1> QED
  BY <1>5, <1>6

LEMMA DeleteLegacyStep ==
  ASSUME InboxInv, NEW r \in Filers, Inbox!DeleteLegacy(r)
  PROVE  InboxInv'
<1>1. /\ fs' = [p \in Spots |-> IF p[1] = "Legacy" THEN NULL ELSE fs[p]]
      /\ disturbed' = disturbed \cup {fs[p].file : p \in Inbox!Taken("Legacy")}
      /\ filing' = [filing EXCEPT ![r] = NULL]
      /\ UNCHANGED <<edits, tagged>>
  BY DEF Inbox!DeleteLegacy, Spots
<1>2. /\ fs \in [Spots -> Note \cup {NULL}] /\ edits \in [Notes -> Nat \cup {NULL}]
      /\ \A n \in Notes \ disturbed : NoteOK(n, fs, edits)
      /\ tagged \subseteq Notes /\ disturbed \subseteq Notes
  BY DEF InboxInv, InboxOK, InboxTyped
<1>3. fs' \in [Spots -> Note \cup {NULL}]
  BY <1>1, <1>2
<1>4. disturbed \subseteq disturbed' /\ disturbed' \subseteq Notes
  <2>1. \A p \in Inbox!Taken("Legacy") : fs[p].file \in Notes
    BY <1>2, TakenIs DEF Note
  <2> QED
    BY <1>1, <1>2, <2>1
<1>5. \A o \in Spots : \A m : m \notin disturbed' =>
        /\ Is(fs', o, m) <=> Is(fs, o, m)
        /\ Is(fs, o, m) => fs'[o] = fs[o]
  BY <1>1, TakenIs DEF Is
<1>6. \A n \in Notes \ disturbed' : NoteOK(n, fs', edits)
  BY <1>2, <1>4, <1>5 DEF NoteOK
<1>7. \A q : Undisturbed(q, fs, fs', edits, edits, disturbed')
  BY <1>5 DEF Undisturbed
<1>8. LegacyStays(fs, fs')
  BY <1>1 DEF LegacyStays
<1>9. HeldFiles(NULL) = {}
  BY DEF HeldFiles
<1>10. /\ tagged' \subseteq Notes /\ edits' \in [Notes -> Nat \cup {NULL}]
       /\ \A n \in Notes \ disturbed' : NoteOK(n, fs', edits')
       /\ \A s \in Filers \ {r} : filing[s] # NULL =>
            Undisturbed(filing[s], fs, fs', edits, edits', disturbed')
       /\ \A s \in Filers \ {r} : HeldFiles(NULL) \cap HeldFiles(filing[s]) \subseteq disturbed'
  BY <1>1, <1>2, <1>6, <1>7, <1>9
<1> QED
  BY <1>1, <1>3, <1>4, <1>8, <1>10, FilerStep

\* What is decided of a note: a folder, and no text, one of nothing, what was read or, of a
\* dashboard note, what a model made of it.
LEMMA DecidedIs ==
  ASSUME NEW f, NEW p, NEW says \in Inbox!ReadText(p), NEW d \in Inbox!Decisions(f, says)
  PROVE  /\ d.folder \in {"Filed", "Unfiled"}
         /\ \/ d.text \in {NULL, Inbox!Blank}
            \/ fs[p] # NULL /\ d.text = fs[p].says
            \/ fs[p] # NULL /\ f \in Dashboard /\ d.text = Inbox!Reworded(fs[p].says)
<1>1. says = NULL \/ (fs[p] # NULL /\ says = fs[p].says)
  BY DEF Inbox!ReadText
<1>2. CASE d \in Inbox!Answers(f, says)
  <2>1. PICK texts : texts = IF f \notin Dashboard THEN {NULL}
                             ELSE IF says \in {NULL, 0} THEN {Inbox!Blank}
                             ELSE {says, Inbox!Reworded(says)}
    OBVIOUS
  <2>2. d \in [folder : {"Filed", "Unfiled"}, text : texts]
    BY <1>2, <2>1 DEF Inbox!Answers
  <2> QED
    BY <1>1, <2>1, <2>2
<1>3. CASE d = [folder |-> "Unfiled", text |-> NULL]
  BY <1>3
<1> QED
  BY <1>2, <1>3 DEF Inbox!Decisions

\* Two places in which a run believes an undisturbed note are one.
LEMMA OnePlace ==
  ASSUME InboxInv, NEW n \in Notes \ disturbed, NEW o \in Spots, NEW p \in Spots,
         Is(fs, o, n), Is(fs, p, n)
  PROVE  o = p /\ Means(n, edits, fs[o].says) /\ edits[n] \in Nat
<1>1. NoteOK(n, fs, edits)
  BY DEF InboxInv, InboxOK
<1>2. edits[n] \in Nat \cup {NULL}
  BY DEF InboxInv, InboxOK, InboxTyped
<1> QED
  BY <1>1, <1>2 DEF NoteOK

LEMMA DecideStep ==
  ASSUME InboxInv, NEW r \in Filers, Inbox!Decide(r)
  PROVE  InboxInv'
<1>1. PICK q \in Filing : q = filing[r] /\ q # NULL /\ FilingOK(q, fs, edits, disturbed)
  BY FilingIs DEF Inbox!Decide
<1>2. q.pc = "next" /\ UNCHANGED <<fs, edits, tagged, disturbed>>
  BY <1>1 DEF Inbox!Decide
<1>3. PICK c \in q.todo : \E says \in Inbox!ReadText(c.path) :
        \E d \in Inbox!Decisions(c.file, says) :
          /\ Inbox!Free(d.folder) # {}
          /\ filing' = [filing EXCEPT ![r] =
                          [pc |-> "move", todo |-> @.todo \ {c}, item |-> {c},
                           text |-> d.text, dest |-> Inbox!Unique(d.folder)]]
  BY <1>1 DEF Inbox!Decide
<1>4. PICK says \in Inbox!ReadText(c.path) : \E d \in Inbox!Decisions(c.file, says) :
        /\ Inbox!Free(d.folder) # {}
        /\ filing' = [filing EXCEPT ![r] =
                        [pc |-> "move", todo |-> @.todo \ {c}, item |-> {c},
                         text |-> d.text, dest |-> Inbox!Unique(d.folder)]]
  BY <1>3
<1>5. PICK d \in Inbox!Decisions(c.file, says) :
        /\ Inbox!Free(d.folder) # {}
        /\ filing' = [filing EXCEPT ![r] =
                        [pc |-> "move", todo |-> @.todo \ {c}, item |-> {c},
                         text |-> d.text, dest |-> Inbox!Unique(d.folder)]]
  BY <1>4
<1>6. c \in Listed /\ c.path \in Spots /\ c.file \in Notes /\ c.file \in HeldFiles(q)
  BY <1>1, FilingIs
<1>7. PICK text : /\ text = d.text
                  /\ \/ text \in {NULL, Inbox!Blank}
                     \/ fs[c.path] # NULL /\ text = fs[c.path].says
                     \/ /\ fs[c.path] # NULL /\ c.file \in Dashboard
                        /\ text = Inbox!Reworded(fs[c.path].says)
  BY <1>5, DecidedIs
<1>8. PICK dest \in Spots : dest = Inbox!Unique(d.folder) /\ dest[1] \in {"Filed", "Unfiled"}
  <2>1. PICK folder \in {"Filed", "Unfiled"} : folder = d.folder
    BY <1>5, DecidedIs
  <2>2. PICK dest \in Spots : dest = Inbox!Unique(folder) /\ dest[1] = folder /\ fs[dest] = NULL
    BY <1>5, <2>1, UniqueIsFree
  <2> QED
    BY <2>1, <2>2
<1>9. text \in Saying \cup {NULL}
  <2>1. fs[c.path] # NULL => fs[c.path].says \in Int
    BY <1>6 DEF InboxInv, InboxOK, InboxTyped, Note, Saying
  <2>2. Inbox!Blank \in Int /\ \A k \in Int : Inbox!Reworded(k) \in Int
    BY DEF Inbox!Blank, Inbox!Reworded
  <2> QED
    BY <1>7, <2>1, <2>2 DEF Saying
<1>10. PICK next \in Filing : next = [pc |-> "move", todo |-> q.todo \ {c}, item |-> {c},
                                     text |-> text, dest |-> dest]
  BY <1>1, <1>6, <1>8, <1>9 DEF Filing
<1>11. /\ next.pc = "move" /\ next.todo = q.todo \ {c} /\ next.item = {c} /\ next.text = text
      /\ next.dest = dest
  BY <1>10
<1>12. filing' = [filing EXCEPT ![r] = next]
  BY <1>1, <1>5, <1>7, <1>8, <1>10
<1>13. HeldFiles(next) \subseteq HeldFiles(filing[r])
  BY <1>1, <1>6, <1>11 DEF HeldFiles
<1>14. q.item = {}
  BY <1>1, <1>2 DEF FilingOK, StepOK
<1>15. ASSUME NEW e \in q.todo, e.file \notin disturbed
       PROVE  Is(fs, e.path, e.file)
  BY <1>1, <1>2, <1>15 DEF FilingOK, HeldOK, Where
<1>16. ASSUME NEW e \in q.todo \ {c}, e.file = c.file
       PROVE  c.file \in disturbed
  <2>1. SUFFICES ASSUME c.file \notin disturbed
                 PROVE  FALSE
    OBVIOUS
  <2>2. Is(fs, e.path, c.file) /\ Is(fs, c.path, c.file)
    BY <1>15, <1>16, <2>1
  <2>3. e \in Listed /\ e.path \in Spots
    BY <1>1, FilingIs
  <2>4. e.path = c.path
    BY <1>6, <2>1, <2>2, <2>3, OnePlace
  <2> QED
    BY <1>6, <1>16, <2>3, <2>4 DEF Listed
<1>17. ASSUME c.file \notin disturbed
       PROVE  HeldOK(next, c, fs, edits)
  <2>1. Is(fs, c.path, c.file)
    BY <1>15, <1>17
  <2>2. Means(c.file, edits, fs[c.path].says) /\ edits[c.file] \in Nat
    BY <1>6, <1>17, <2>1, OnePlace
  <2>3. text \in {NULL, Inbox!Blank} \/ Means(c.file, edits, text)
    BY <1>7, <2>2, RewordedIs
  <2> QED
    BY <1>11, <2>1, <2>3 DEF HeldOK, Where
<1>18. ASSUME NEW e \in next.todo, e.file \notin disturbed
       PROVE  HeldOK(next, e, fs, edits)
  BY <1>11, <1>15, <1>18 DEF HeldOK, Where
<1>19. StepOK(next) /\ LegacyOK(next, fs)
  BY <1>6, <1>8, <1>11 DEF StepOK, LegacyOK
<1>20. FilingOK(next, fs, edits, disturbed)
  BY <1>11, <1>16, <1>17, <1>18, <1>19 DEF FilingOK
<1>21. /\ \A s \in Filers \ {r} : HeldFiles(next) \cap HeldFiles(filing[s]) \subseteq disturbed'
       /\ disturbed \subseteq disturbed' /\ disturbed' \subseteq Notes /\ tagged' \subseteq Notes
       /\ FilingOK(next, fs, edits, disturbed')
  BY <1>2, <1>13, <1>20, HoldsLess DEF InboxInv
<1> QED
  BY <1>2, <1>12, <1>21, RunOnly

\* A run that is done with a note.
LEMMA RestOK ==
  ASSUME NEW q \in Filing, q # NULL
  PROVE  \E next \in Filing :
           /\ next = [q EXCEPT !.pc = "next", !.item = {}, !.text = NULL, !.dest = NULL]
           /\ next.pc = "next" /\ next.todo = q.todo /\ next.item = {}
           /\ HeldFiles(next) \subseteq HeldFiles(q)
<1>1. PICK next : next = [q EXCEPT !.pc = "next", !.item = {}, !.text = NULL, !.dest = NULL]
  OBVIOUS
<1>2. next \in Filing /\ next.pc = "next" /\ next.todo = q.todo /\ next.item = {}
  BY <1>1 DEF Filing
<1> QED
  BY <1>1, <1>2 DEF HeldFiles

LEMMA MoveStep ==
  ASSUME InboxInv, NEW r \in Filers, Inbox!Move(r)
  PROVE  InboxInv'
<1>1. PICK q \in Filing : q = filing[r] /\ q # NULL /\ FilingOK(q, fs, edits, disturbed)
  BY FilingIs DEF Inbox!Move
<1>2. q.pc = "move" /\ UNCHANGED <<edits, tagged>>
  BY <1>1 DEF Inbox!Move
<1>3. PICK c \in q.item :
        IF fs[c.path] = NULL
        THEN /\ filing' \in {[filing EXCEPT ![r] = NULL], [filing EXCEPT ![r].pc = "write"]}
             /\ UNCHANGED <<fs, disturbed>>
        ELSE IF fs[q.dest] # NULL
        THEN filing' = [filing EXCEPT ![r] = Inbox!Rest(r)] /\ UNCHANGED <<fs, disturbed>>
        ELSE /\ fs' = Inbox!Moved(c.path, q.dest)
             /\ disturbed' = disturbed \cup Inbox!Crossed(r, c)
             /\ filing' = [filing EXCEPT ![r].pc = "write"]
  BY <1>1 DEF Inbox!Move
<1>4. c \in Listed /\ c.path \in Spots /\ c.file \in Notes /\ c.file \in HeldFiles(q)
  BY <1>1, FilingIs
<1>5. /\ q.item = {c} /\ StepOK(q)
      /\ q.dest \in Spots /\ q.dest[1] \in {"Filed", "Unfiled"}
  BY <1>1, <1>2 DEF FilingOK, StepOK
<1>6. \A d \in q.todo : d.file = c.file => c.file \in disturbed
  BY <1>1, <1>5 DEF FilingOK
<1>7. PICK next \in Filing : next = [q EXCEPT !.pc = "write"]
  BY <1>1 DEF Filing
<1>8. /\ next.pc = "write" /\ next.todo = q.todo /\ next.item = {c} /\ next.text = q.text
      /\ next.dest = q.dest
  BY <1>5, <1>7 DEF Filing
<1>9. HeldFiles(next) \subseteq HeldFiles(filing[r])
  BY <1>1, <1>5, <1>8 DEF HeldFiles
<1>10. StepOK(next) /\ \A at : LegacyOK(next, at)
  BY <1>4, <1>5, <1>8 DEF StepOK, LegacyOK
<1>11. ASSUME UNCHANGED <<fs, disturbed>>, NEW after \in Filing,
              filing' = [filing EXCEPT ![r] = after],
              HeldFiles(after) \subseteq HeldFiles(filing[r]),
              FilingOK(after, fs, edits, disturbed)
       PROVE  InboxInv'
  <2>1. /\ \A s \in Filers \ {r} : HeldFiles(after) \cap HeldFiles(filing[s]) \subseteq disturbed'
        /\ disturbed \subseteq disturbed' /\ disturbed' \subseteq Notes /\ tagged' \subseteq Notes
        /\ FilingOK(after, fs, edits, disturbed')
    BY <1>2, <1>11, HoldsLess DEF InboxInv
  <2> QED
    BY <1>2, <1>11, <2>1, RunOnly
<1>12. CASE fs[c.path] = NULL
  <2>1. CASE filing' = [filing EXCEPT ![r] = NULL]
    BY <1>2, <1>3, <1>12, <2>1, RunEnds
  <2>2. CASE filing' = [filing EXCEPT ![r].pc = "write"]
    <3>1. filing' = [filing EXCEPT ![r] = next]
      BY <1>1, <1>7, <2>2
    <3>2. c.file \in disturbed
      BY <1>1, <1>2, <1>12 DEF FilingOK, HeldOK, Where, Is
    <3>3. ASSUME NEW d \in next.todo, d.file \notin disturbed
          PROVE  HeldOK(next, d, fs, edits)
      <4>1. HeldOK(q, d, fs, edits) /\ d # c
        BY <1>1, <1>8, <3>2, <3>3 DEF FilingOK
      <4> QED
        BY <1>2, <1>8, <4>1 DEF HeldOK, Where
    <3>4. FilingOK(next, fs, edits, disturbed)
      BY <1>8, <1>10, <3>2, <3>3 DEF FilingOK
    <3> QED
      BY <1>3, <1>9, <1>11, <1>12, <3>1, <3>4
  <2> QED
    BY <1>3, <1>12, <2>1, <2>2
<1>13. CASE fs[c.path] # NULL /\ fs[q.dest] # NULL
  <2>1. PICK rest \in Filing :
          /\ rest = [q EXCEPT !.pc = "next", !.item = {}, !.text = NULL, !.dest = NULL]
          /\ rest.pc = "next" /\ rest.todo = q.todo /\ rest.item = {}
          /\ HeldFiles(rest) \subseteq HeldFiles(q)
    BY <1>1, RestOK
  <2>2. filing' = [filing EXCEPT ![r] = rest]
    BY <1>1, <1>3, <1>13, <2>1 DEF Inbox!Rest
  <2>3. FilingOK(rest, fs, edits, disturbed)
    BY <1>1, <1>2, <2>1 DEF FilingOK, StepOK, LegacyOK, HeldOK, Where
  <2> QED
    BY <1>1, <1>3, <1>11, <1>13, <2>1, <2>2, <2>3
<1>14. CASE fs[c.path] # NULL /\ fs[q.dest] = NULL
  <2>1. /\ fs' = Inbox!Moved(c.path, q.dest)
        /\ disturbed' = disturbed \cup Inbox!Crossed(r, c)
        /\ filing' = [filing EXCEPT ![r] = next]
    BY <1>1, <1>3, <1>7, <1>14
  <2>2. Crossing(c, fs, disturbed') /\ disturbed \subseteq disturbed' /\ disturbed' \subseteq Notes
    BY <1>4, <1>14, <2>1, CrossedDisturbs
  <2>3. MovesTo(fs, fs', c.path, q.dest) /\ fs' \in [Spots -> Note \cup {NULL}]
    BY <1>4, <1>5, <1>14, <2>1, MovedIs
  <2>4. Touches(c, fs, fs', disturbed')
    BY <2>2, <2>3 DEF MovesTo, Touches
  <2>5. ASSUME NEW d \in next.todo, d.file \notin disturbed'
        PROVE  HeldOK(next, d, fs', edits)
    <3>1. d \in q.todo /\ d # c
      BY <1>6, <1>8, <2>2, <2>5
    <3>2. Is(fs, d.path, d.file) /\ fs'[d.path] = fs[d.path]
      BY <1>1, <1>2, <2>2, <2>4, <2>5, <3>1, RestStay
    <3> QED
      BY <1>8, <3>1, <3>2 DEF HeldOK, Where, Is
  <2>6. ASSUME c.file \notin disturbed'
        PROVE  HeldOK(next, c, fs', edits)
    <3>1. fs[c.path].file = c.file /\ fs'[q.dest] = fs[c.path]
      BY <2>2, <2>3, <2>6 DEF Crossing, MovesTo
    <3>2. HeldOK(q, c, fs, edits)
      BY <1>1, <2>2, <2>6 DEF FilingOK
    <3> QED
      BY <1>5, <1>8, <1>14, <3>1, <3>2 DEF HeldOK, Where, Is
  <2>7. FilingOK(next, fs', edits, disturbed')
    BY <1>6, <1>8, <1>10, <2>2, <2>5, <2>6 DEF FilingOK
  <2> QED
    BY <1>1, <1>2, <1>4, <1>5, <1>9, <2>1, <2>2, <2>3, <2>7, MovedStep
<1> QED
  BY <1>12, <1>13, <1>14

LEMMA WriteStep ==
  ASSUME InboxInv, NEW r \in Filers, Inbox!Write(r)
  PROVE  InboxInv'
<1>1. PICK q \in Filing : q = filing[r] /\ q # NULL /\ FilingOK(q, fs, edits, disturbed)
  BY FilingIs DEF Inbox!Write
<1>2. q.pc = "write" /\ edits' = edits /\ filing' = [filing EXCEPT ![r] = Inbox!Rest(r)]
  BY <1>1 DEF Inbox!Write
<1>3. PICK c \in q.item :
        /\ fs' = IF q.text # NULL
                 THEN [fs EXCEPT ![q.dest] = [file |-> IF fs[q.dest] = NULL THEN c.file
                                                       ELSE fs[q.dest].file,
                                              says |-> q.text]]
                 ELSE fs
        /\ disturbed' = IF q.text = NULL THEN disturbed
                        ELSE disturbed
                             \cup (IF fs[q.dest] = NULL THEN {} ELSE {fs[q.dest].file} \ {c.file})
                             \cup (IF q.text = Inbox!Blank THEN {c.file} ELSE {})
        /\ tagged' = tagged \ {c.file}
  BY <1>1 DEF Inbox!Write
<1>4. c \in Listed /\ c.path \in Spots /\ c.file \in Notes /\ c.file \in HeldFiles(q)
  BY <1>1, FilingIs
<1>5. /\ q.item = {c}
      /\ q.dest \in Spots /\ q.dest[1] \in {"Filed", "Unfiled"}
  BY <1>1, <1>2 DEF FilingOK, StepOK
<1>6. PICK rest \in Filing :
        /\ rest = [q EXCEPT !.pc = "next", !.item = {}, !.text = NULL, !.dest = NULL]
        /\ rest.pc = "next" /\ rest.todo = q.todo /\ rest.item = {}
        /\ HeldFiles(rest) \subseteq HeldFiles(q)
  BY <1>1, RestOK
<1>7. filing' = [filing EXCEPT ![r] = rest]
  BY <1>1, <1>2, <1>6 DEF Inbox!Rest
<1>8. /\ fs \in [Spots -> Note \cup {NULL}] /\ edits \in [Notes -> Nat \cup {NULL}]
      /\ InboxOK(fs, edits, filing, disturbed) /\ tagged \subseteq Notes /\ disturbed \subseteq Notes
  BY DEF InboxInv, InboxOK, InboxTyped
<1>9. ASSUME NEW d \in q.todo, d.file \notin disturbed
       PROVE  Is(fs, d.path, d.file) /\ d.file # c.file /\ d.path \in Spots /\ d.file \in Notes
  <2>1. d.file # c.file
    BY <1>1, <1>5, <1>9 DEF FilingOK
  <2> QED
    BY <1>1, <1>5, <1>9, <2>1, FilingIs DEF FilingOK, HeldOK, Where
<1>10. \A s \in Filers \ {r} : HeldFiles(rest) \cap HeldFiles(filing[s]) \subseteq disturbed
  BY <1>1, <1>6, HoldsLess DEF InboxInv, InboxOK, Apart
<1>11. CASE q.text = NULL
  <2>1. UNCHANGED <<fs, disturbed>>
    BY <1>3, <1>11
  <2>2. FilingOK(rest, fs, edits, disturbed)
    BY <1>1, <1>6, <1>9 DEF FilingOK, StepOK, LegacyOK, HeldOK, Where
  <2>3. /\ disturbed \subseteq disturbed' /\ disturbed' \subseteq Notes /\ tagged' \subseteq Notes
        /\ FilingOK(rest, fs, edits, disturbed')
        /\ \A s \in Filers \ {r} : HeldFiles(rest) \cap HeldFiles(filing[s]) \subseteq disturbed'
    BY <1>3, <1>8, <1>10, <2>1, <2>2
  <2> QED
    BY <1>2, <1>7, <2>1, <2>3, RunOnly
<1>12. CASE q.text # NULL
  <2>1. PICK f \in Notes : f = IF fs[q.dest] = NULL THEN c.file ELSE fs[q.dest].file
    BY <1>4, <1>5, <1>8 DEF Note
  <2>2. PICK y \in Note : y = [file |-> f, says |-> q.text]
    BY <1>1, <1>12, <2>1 DEF Note, Filing
  <2>3. fs' = [fs EXCEPT ![q.dest] = y]
    BY <1>3, <1>12, <2>1, <2>2
  <2>4. /\ fs' \in [Spots -> Note \cup {NULL}] /\ fs'[q.dest] = y /\ y.file = f
        /\ y.says = q.text /\ y # NULL /\ \A o \in Spots \ {q.dest} : fs'[o] = fs[o]
    BY <1>5, <1>8, <2>2, <2>3, InboxFacts
  <2>5. /\ disturbed \subseteq disturbed' /\ disturbed' \subseteq Notes
        /\ f # c.file => f \in disturbed'
        /\ q.text = Inbox!Blank => c.file \in disturbed'
    BY <1>3, <1>4, <1>8, <1>12, <2>1
  \* What is at the destination is the run's note, or both are disturbed.
  <2>6. ASSUME c.file \notin disturbed'
        PROVE  Is(fs, q.dest, c.file) /\ f = c.file /\ Means(c.file, edits, q.text)
    <3>1. HeldOK(q, c, fs, edits)
      BY <1>1, <2>5, <2>6 DEF FilingOK
    <3> QED
      BY <1>2, <1>12, <2>1, <2>5, <2>6, <3>1 DEF HeldOK, Where, Is
  <2>7. \A o \in Spots, m \in Notes : m \notin disturbed' => (Is(fs', o, m) <=> Is(fs, o, m))
    <3>1. ASSUME NEW m \in Notes, m \notin disturbed'
          PROVE  Is(fs', q.dest, m) <=> Is(fs, q.dest, m)
      <4>1. CASE m = c.file
        BY <2>4, <2>6, <3>1, <4>1 DEF Is
      <4>2. CASE m # c.file
        <5>1. m # f
          BY <2>5, <3>1, <4>2
        <5> QED
          BY <2>1, <2>4, <4>2, <5>1 DEF Is
      <4> QED
        BY <4>1, <4>2
    <3> QED
      BY <2>4, <3>1 DEF Is
  <2>8. ASSUME NEW n \in Notes \ disturbed'
        PROVE  NoteOK(n, fs', edits)
    <3>1. NoteOK(n, fs, edits)
      BY <1>8, <2>5 DEF InboxOK
    <3>2. \A o \in Spots :
            Is(fs', o, n) /\ Means(n, edits, fs[o].says) => Means(n, edits, fs'[o].says)
      <4>1. ASSUME Is(fs', q.dest, n)
            PROVE  Means(n, edits, fs'[q.dest].says)
        <5>1. n = c.file
          BY <2>4, <2>5, <4>1 DEF Is
        <5> QED
          BY <2>4, <2>6, <5>1
      <4> QED
        BY <2>4, <4>1
    <3> QED
      BY <2>7, <3>1, <3>2 DEF NoteOK
  <2>9. ASSUME NEW s \in Filers \ {r}
        PROVE  Undisturbed(filing[s], fs, fs', edits, edits, disturbed')
    <3>1. HeldFiles(filing[s]) \subseteq Notes
      BY <1>8, HeldAreNotes DEF InboxOK, InboxTyped
    <3>2. c.file \notin HeldFiles(filing[s]) \ disturbed'
      BY <1>1, <1>4, <1>8, <2>5 DEF InboxOK, Apart
    <3>3. ASSUME NEW o \in Spots, NEW m \in HeldFiles(filing[s]) \ disturbed', Is(fs, o, m)
          PROVE  o # q.dest
      <4>1. m # c.file /\ m # f
        BY <2>5, <3>2, <3>3
      <4> QED
        BY <2>1, <3>3, <4>1 DEF Is
    <3> QED
      BY <2>4, <3>3 DEF Undisturbed, Is
  <2>10. LegacyStays(fs, fs')
    BY <1>5, <2>4 DEF LegacyStays
  <2>11. ASSUME NEW d \in rest.todo, d.file \notin disturbed'
         PROVE  HeldOK(rest, d, fs', edits)
    <3>1. Is(fs, d.path, d.file) /\ d.path \in Spots /\ d.file \in Notes
      BY <1>6, <1>9, <2>5, <2>11
    <3>2. Is(fs', d.path, d.file)
      BY <2>7, <2>11, <3>1
    <3> QED
      BY <1>6, <3>2 DEF HeldOK, Where
  <2>12. FilingOK(rest, fs', edits, disturbed')
    BY <1>6, <2>11 DEF FilingOK, StepOK, LegacyOK
  <2>13. /\ edits' \in [Notes -> Nat \cup {NULL}] /\ tagged' \subseteq Notes
         /\ \A n \in Notes \ disturbed' : NoteOK(n, fs', edits')
         /\ \A s \in Filers \ {r} : filing[s] # NULL =>
              Undisturbed(filing[s], fs, fs', edits, edits', disturbed')
         /\ \A s \in Filers \ {r} : HeldFiles(rest) \cap HeldFiles(filing[s]) \subseteq disturbed'
         /\ FilingOK(rest, fs', edits', disturbed')
    BY <1>2, <1>3, <1>8, <1>10, <2>5, <2>8, <2>9, <2>12
  <2> QED
    BY <1>7, <2>4, <2>5, <2>10, <2>13, FilerStep
<1> QED
  BY <1>11, <1>12

---------------------------------------------------------------------------
(* The theorem                                                             *)

LEMMA InboxBegins == Inbox!Init => InboxInv
<1> SUFFICES ASSUME Inbox!Init
             PROVE  InboxInv
  OBVIOUS
<1>1. PICK there \in SUBSET Older :
        \E at \in [there -> 1..Inbox!Cardinality(there)] :
          /\ \A f, g \in there : f # g => at[f] # at[g]
          /\ fs = [p \in Spots |->
               IF p[1] = "Legacy" /\ \E f \in there : at[f] = p[2]
               THEN [file |-> CHOOSE f \in there : at[f] = p[2], says |-> 1] ELSE NULL]
          /\ edits = [f \in Notes |-> IF f \in there THEN 1 ELSE NULL]
  BY DEF Inbox!Init, Spots
<1>2. PICK at \in [there -> 1..Inbox!Cardinality(there)] :
        /\ \A f, g \in there : f # g => at[f] # at[g]
        /\ fs = [p \in Spots |->
             IF p[1] = "Legacy" /\ \E f \in there : at[f] = p[2]
             THEN [file |-> CHOOSE f \in there : at[f] = p[2], says |-> 1] ELSE NULL]
        /\ edits = [f \in Notes |-> IF f \in there THEN 1 ELSE NULL]
  BY <1>1
<1>3. /\ tagged = {} /\ disturbed = {} /\ filing = [r \in Filers |-> NULL]
  BY DEF Inbox!Init
<1>4. Inbox!Cardinality(there) \in 0..Names
  <2>1. IsFiniteSet(Older) /\ Cardinality(Older) <= Names /\ Names \in Nat
    BY InboxAssumption
    DEF Inbox!FileInboxAssumption, Inbox!IsFiniteSet, IsFiniteSet, Inbox!Cardinality, Cardinality
  <2>2. /\ Cardinality(there) \in Nat /\ Cardinality(Older) \in Nat
        /\ Cardinality(there) <= Cardinality(Older)
    BY <2>1, FS_Subset, FS_CardinalityType
  <2>3. Inbox!Cardinality(there) = Cardinality(there)
    BY DEF Inbox!Cardinality, Cardinality
  <2> QED
    BY <2>1, <2>2, <2>3
<1>5. \A f \in there : f \in Notes /\ at[f] \in 1..Names
  BY <1>2, <1>4, InboxFacts
\* A place holds the note whose name it has.
<1>6. ASSUME NEW p \in Spots, fs[p] # NULL
      PROVE  /\ p[1] = "Legacy" /\ fs[p] \in Note /\ fs[p].says = 1
             /\ fs[p].file \in there /\ at[fs[p].file] = p[2]
  <2>1. p[1] = "Legacy" /\ \E f \in there : at[f] = p[2]
    BY <1>2, <1>6
  <2>2. PICK f \in there : f = (CHOOSE g \in there : at[g] = p[2]) /\ at[f] = p[2]
    BY <2>1
  <2>3. fs[p] = [file |-> f, says |-> 1]
    BY <1>2, <2>1, <2>2
  <2> QED
    BY <1>5, <2>1, <2>2, <2>3 DEF Note, Saying
<1>7. ASSUME NEW n \in there
      PROVE  \E p \in Spots : Is(fs, p, n) /\ fs[p].says = 1
  <2>1. PICK p : p = <<"Legacy", at[n]>>
    OBVIOUS
  <2>2. p \in Spots /\ p[1] = "Legacy" /\ p[2] = at[n]
    BY <1>5, <2>1, SpotsAre
  <2>3. fs[p] = [file |-> CHOOSE g \in there : at[g] = p[2], says |-> 1]
    BY <1>2, <2>2
  <2>4. n = CHOOSE g \in there : at[g] = p[2]
    BY <1>2, <2>2
  <2>5. PICK x \in Note : x = [file |-> n, says |-> 1]
    <3>1. [file |-> n, says |-> 1] \in Note
      BY <1>5, NoteIs
    <3> QED
      BY <3>1
  <2>6. fs[p] = x /\ x # NULL
    BY <2>3, <2>4, <2>5, InboxFacts
  <2> QED
    BY <2>2, <2>5, <2>6 DEF Is
<1>8. ASSUME NEW n \in Notes
      PROVE  NoteOK(n, fs, edits)
  <2>1. CASE n \in there
    <3>1. edits[n] = 1 /\ edits[n] # NULL
      BY <1>2, <2>1, InboxFacts
    <3>2. ASSUME NEW p \in Spots, NEW q \in Spots, Is(fs, p, n), Is(fs, q, n)
          PROVE  p = q
      <4>1. p[1] = "Legacy" /\ p[2] = at[n] /\ q[1] = "Legacy" /\ q[2] = at[n]
        BY <1>6, <3>2 DEF Is
      <4> QED
        BY <4>1, SpotsAre
    <3> QED
      BY <1>7, <2>1, <3>1, <3>2 DEF NoteOK, Means
  <2>2. CASE n \notin there
    BY <1>2, <1>6, <2>2 DEF NoteOK, Is
  <2> QED
    BY <2>1, <2>2
<1>9. InboxTyped(fs, edits, filing)
  <2>1. fs \in [Spots -> Note \cup {NULL}]
    BY <1>2, <1>6
  <2> QED
    BY <1>2, <1>3, <2>1 DEF InboxTyped
<1>10. Apart(filing, disturbed)
  BY <1>3 DEF Apart, HeldFiles
<1> QED
  BY <1>3, <1>8, <1>9, <1>10 DEF InboxInv, InboxOK

LEMMA InboxStep ==
  ASSUME InboxInv, Inbox!Next
  PROVE  InboxInv'
<1>1. CASE Inbox!AddNote \/ Inbox!EditNote \/ Inbox!TagNote
  BY <1>1, AddNoteStep, EditNoteStep, TagNoteStep
<1>2. ASSUME NEW r \in Filers,
             \/ Inbox!CreateDocument(r) \/ Inbox!RemoveOne(r) \/ Inbox!CreateEmpty(r)
             \/ Inbox!ProcessInbox(r) \/ Inbox!ReplayUnfiled(r) \/ Inbox!ReplayOne(r)
             \/ Inbox!Replayed(r) \/ Inbox!Decide(r) \/ Inbox!Move(r) \/ Inbox!Write(r)
             \/ Inbox!End(r) \/ Inbox!MigrateFamilycloud(r) \/ Inbox!MigrateOne(r)
             \/ Inbox!DeleteLegacy(r)
      PROVE  InboxInv'
  BY <1>2, CreateDocumentStep, RemoveOneStep, CreateEmptyStep, ProcessInboxStep,
     ReplayUnfiledStep, ReplayOneStep, ReplayedStep, DecideStep, MoveStep, WriteStep, EndStep,
     MigrateStep, MigrateOneStep, DeleteLegacyStep
<1> QED
  BY <1>1, <1>2 DEF Inbox!Next

LEMMA InboxKept == MCSpec => []InboxInv
<1>1. MCInit => InboxInv
  BY InboxBegins DEF MCInit
<1>2. InboxInv /\ [MCNext]_<<part, vars, searchVars, inboxVars>> => InboxInv'
  <2>1. ASSUME InboxInv, UNCHANGED inboxVars
        PROVE  InboxInv'
    BY <2>1 DEF InboxInv, inboxVars
  <2> QED
    BY <2>1, InboxStep DEF MCNext
<1> QED
  BY <1>1, <1>2, PTL DEF MCSpec

LEMMA JobsTyped == MCSpec => []TypeOK
<1>1. MCInit => IInv
  BY InitIInv DEF MCInit
<1>2. IInv /\ [MCNext]_<<part, vars, searchVars, inboxVars>> => IInv'
  <2>1. [MCNext]_<<part, vars, searchVars, inboxVars>> => [Next]_vars
    BY DEF MCNext
  <2> QED
    BY <2>1, NextIInv
<1>3. IInv => TypeOK
  BY InvTyped DEF IInv
<1> QED
  BY <1>1, <1>2, <1>3, PTL DEF MCSpec

\* A note of the inbox that nobody disturbed is in one place and says what people last wrote
\* or, of a dashboard note, what a model made of just that, for any notes, folders, names and
\* runs: whatever they take, replay, migrate or leave behind when they die (process_ready_notes, nextcloud_para_agent, createTextDocument).
THEOREM NotesAreKept == MCSpec => []NotesKept
<1>1. InboxInv => Inbox!TypeOK
  BY DEF InboxInv, InboxOK, InboxTyped, Inbox!TypeOK, Note, Saying, Spots
<1>2. InboxInv => Inbox!NotesKept
  BY DEF InboxInv, InboxOK, NoteOK, Means, Inbox!NotesKept, Inbox!Kept, Inbox!Current, Is, Spots
<1>3. InboxInv /\ TypeOK => NotesKept
  BY <1>1, <1>2 DEF NotesKept
<1> QED
  BY <1>3, InboxKept, JobsTyped, PTL
=============================================================================
