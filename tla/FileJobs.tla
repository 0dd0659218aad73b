------------------------------ MODULE FileJobs ------------------------------
(***************************************************************************)
(* The follow-up jobs of the file service and the documents they index:    *)
(* app/services/jobs.py, app/services/documents.py and worker/tasks.py.    *)
(*                                                                         *)
(* Writers are requests (POST index, or one discovery scan, which indexes  *)
(* many documents in one transaction) and runs of process_followup_jobs,   *)
(* which Celery beat starts every minute in any of its worker processes.   *)
(* Each is ONE transaction: a run claims, processes and completes its      *)
(* batch and commits once, at the end, while the effects of its jobs on    *)
(* other services are HTTP calls nobody takes back.                        *)
(*                                                                         *)
(* A transaction reads the row of a document, then its chunks (READ        *)
(* COMMITTED: another may commit in between), calls the embedder, and its  *)
(* commit writes the columns whose value changed since they were read.     *)
(* Two transactions that replace the chunks of one document both delete    *)
(* the rows they know and insert the same keys: the second to commit fails *)
(* (`doomed`).                                                             *)
(*                                                                         *)
(* Abstractions: create_question jobs are HTTP calls like mirror_memory    *)
(* ones; every job has a dedupe key; duplicates of a document's content    *)
(* are left out; one path per document; a summary and a body are one       *)
(* `text`; "indexed" stands for every status a caller gives a document;    *)
(* attempts, lease and time columns are written and never read.            *)
(***************************************************************************)
EXTENDS Naturals, Sequences, FiniteSets

CONSTANTS
  Docs,       \* paths
  Texts,      \* what a document may say
  Writers,    \* requests and scans that may be in progress at a time
  Runs,       \* worker processes that may run the job at a time
  Limit,      \* process_pending_jobs(limit=25)
  NULL,
  MaxIndexed, \* bound: documents indexed, and jobs posted, in a behaviour
  MaxDeaths   \* bound: transactions lost to a dying process or connection

Kinds == {"reindex_document", "mirror_memory"}
Keys  == Kinds \X Docs     \* job_type and dedupe_key

ASSUME FileJobsAssumption ==
  /\ NULL \notin Texts
  /\ IsFiniteSet(Docs)
  /\ Limit \in Nat \ {0}
  /\ MaxIndexed \in Nat
  /\ MaxDeaths \in Nat

VARIABLES
  docs,      \* committed rows of documents, or NULL
  chunks,    \* per document the cuts its committed rows of chunks come from
  jobs,      \* committed rows of index_jobs, or NULL
  writer,    \* per writer NULL or its transaction
  run,       \* per worker process NULL or its batch and transaction
  mirrored,  \* per document the texts written to the family memory (external)
  raced,     \* history: documents synchronised from a row changed since read
  indexed,   \* documents indexed and jobs posted so far (bound)
  deaths     \* transactions lost so far (bound)

vars == <<docs, chunks, jobs, writer, run, mirrored, raced, indexed, deaths>>

---------------------------------------------------------------------------
(* Rows                                                                    *)

Doc == [text : Texts, status : {"indexed", "indexed_lexical_only"}]

\* The chunks of one text, all of them with an embedding or all without.
Cut == [text : Texts, embedded : BOOLEAN]

Job == [status : {"pending", "running", "completed", "failed"},
        payload : Texts]

\* A row is not the absence of one.
ASSUME NullAssumption == NULL \notin Doc \cup Job

Lexical(d) == [d EXCEPT !.status = "indexed_lexical_only"]

\* Whether no chunk of the document has an embedding, as it is when it has none.
Unembedded(cuts) == \A c \in cuts : ~c.embedded

\* existing_texts == chunks
CutFrom(cuts, text) == Cardinality(cuts) = 1 /\ \A c \in cuts : c.text = text

(* _sync_document_chunks: what a transaction makes of the row d it will write
   over the row `from` it read, and of the chunks it finds, if the embedding
   provider `answers` or not.                                              *)
Sync(from, d, cuts, force, answers) ==
  IF CutFrom(cuts, d.text) /\ ~(force /\ Unembedded(cuts))
  THEN [from |-> from, to |-> IF Unembedded(cuts) THEN Lexical(d) ELSE d,
        found |-> cuts, inserted |-> {}, failed |-> FALSE]
  ELSE [from |-> from, to |-> IF answers THEN d ELSE Lexical(d), found |-> cuts,
        inserted |-> {[text |-> d.text, embedded |-> answers]},
        failed |-> ~answers]

\* reindex_document of the worker: the status is left as it is when the
\* embeddings come.
Reindexed(row, cuts, answers) == Sync(row, row, cuts, TRUE, answers)

\* _upsert_document_from_payload
Indexed(row, cuts, text, answers) ==
  Sync(row, [text |-> text, status |-> "indexed"], cuts, FALSE, answers)

\* What a commit makes of the committed row d: unchanged columns are not written.
Written(d, x) ==
  IF x.from = NULL THEN x.to
  ELSE [text   |-> IF x.from.text = x.to.text THEN d.text ELSE x.to.text,
        status |-> IF x.from.status = x.to.status THEN d.status ELSE x.to.status]

\* enqueue_job: how a job is written. The row of a pending, running or
\* completed job only gets the new payload.
Enqueue(j, payload) ==
  [payload |-> payload,
   how |-> IF j = NULL THEN "insert"
           ELSE IF j.status = "failed" THEN "reset" ELSE "payload"]

Enqueued(j, e) ==
  IF e.how = "payload" THEN [j EXCEPT !.payload = e.payload]
  ELSE [status |-> "pending", payload |-> e.payload]

---------------------------------------------------------------------------
(* Transactions                                                            *)

\* at: the document looked up and not yet synchronised, and its row, or NULL;
\* docWrites: per touched document what Sync made of it; jobWrites: per job
\* enqueued, [payload, how]; doomed: its COMMIT will violate a unique key.
NoWrites == <<>>

Put(f, k, v) == [x \in DOMAIN f \cup {k} |-> IF x = k THEN v ELSE f[x]]

\* Mutant: Chunks have identities of their own instead of one key per position.
InsertsAnyChunk(docWrites, jobWrites) ==
  {d \in DOMAIN docWrites : docWrites[d].from = NULL}
    \cup {k \in DOMAIN jobWrites : jobWrites[k].how = "insert"}

\* What a transaction inserts under a unique key.
Inserts(docWrites, jobWrites) ==
  {d \in DOMAIN docWrites : docWrites[d].inserted # {} \/ docWrites[d].from = NULL}
    \cup {k \in DOMAIN jobWrites : jobWrites[k].how = "insert"}

\* A commit of `keys` dooms the other open transactions that insert them.
Doomed(keys, w, r) ==
  /\ writer' = [x \in Writers |->
       IF x = w THEN NULL
       ELSE IF writer[x] # NULL
               /\ Inserts(writer[x].docs, writer[x].jobs) \cap keys # {}
            THEN [writer[x] EXCEPT !.doomed = TRUE] ELSE writer[x]]
  /\ run' = [x \in Runs |->
       IF x = r THEN NULL
       ELSE IF run[x] # NULL /\ Inserts(run[x].docs, <<>>) \cap keys # {}
            THEN [run[x] EXCEPT !.doomed = TRUE] ELSE run[x]]

CommitDocs(docWrites) ==
  /\ docs' = [d \in Docs |-> IF d \in DOMAIN docWrites
                             THEN Written(docs[d], docWrites[d]) ELSE docs[d]]
  /\ chunks' = [d \in Docs |->
       IF d \in DOMAIN docWrites /\ docWrites[d].inserted # {}
       THEN (chunks[d] \ docWrites[d].found) \cup docWrites[d].inserted
       ELSE chunks[d]]

\* A document whose row was changed after a transaction looked it up.
Raced(d, row) == raced' = IF row = docs[d] THEN raced ELSE raced \cup {d}

---------------------------------------------------------------------------
Init ==
  /\ docs = [d \in Docs |-> NULL]
  /\ chunks = [d \in Docs |-> {}]
  /\ jobs = [k \in Keys |-> NULL]
  /\ writer = [w \in Writers |-> NULL]
  /\ run = [r \in Runs |-> NULL]
  /\ mirrored = [d \in Docs |-> {}]
  /\ raced = {}
  /\ indexed = 0
  /\ deaths = 0

\* A transaction of more than one document is a discovery scan, and what a
\* scan finds is not mirrored.
Scans(w) == \A k \in DOMAIN writer[w].jobs : k[1] # "mirror_memory"

\* _resolve_existing_document, in a new transaction or for a scan's next file
LookUp(w, d) ==
  /\ indexed < MaxIndexed
  /\ LET t == IF writer[w] = NULL
              THEN [at |-> NULL, docs |-> NoWrites, jobs |-> NoWrites,
                    doomed |-> FALSE]
              ELSE writer[w]
     IN /\ t.at = NULL
        /\ d \notin DOMAIN t.docs
        /\ t.docs # NoWrites => Scans(w)
        /\ writer' = [writer EXCEPT ![w] =
                        [t EXCEPT !.at = [doc |-> d, row |-> docs[d]]]]
  /\ indexed' = indexed + 1
  /\ UNCHANGED <<docs, chunks, jobs, run, mirrored, raced, deaths>>

(* POST /v1/files/index, /v1/notes/index, and one file of a discovery scan:
   the chunks are replaced or kept, a failed embedding queues a reindex, and
   what the file agent sent with a summary is mirrored. The INSERT of a
   document that has got a row since it was looked up fails.               *)
IndexDocument(w, text, answers, mirror) ==
  /\ writer[w] # NULL
  /\ writer[w].at # NULL
  /\ mirror => writer[w].docs = NoWrites
  /\ LET t == writer[w]
         d == t.at.doc
         s == Indexed(t.at.row, chunks[d], text, answers)
         q == IF s.failed
              THEN Put(t.jobs, <<"reindex_document", d>>,
                       Enqueue(jobs[<<"reindex_document", d>>], text))
              ELSE t.jobs
         m == IF mirror
              THEN Put(q, <<"mirror_memory", d>>,
                       Enqueue(jobs[<<"mirror_memory", d>>], text))
              ELSE q
     IN /\ writer' = [writer EXCEPT ![w] =
             [at |-> NULL, docs |-> Put(t.docs, d, s), jobs |-> m,
              doomed |-> t.doomed \/ (t.at.row = NULL /\ docs[d] # NULL)]]
        /\ Raced(d, t.at.row)
  /\ UNCHANGED <<docs, chunks, jobs, run, mirrored, indexed, deaths>>

\* The writer commits, or its COMMIT violates a unique key and rolls back.
CommitIndex(w) ==
  /\ writer[w] # NULL
  /\ writer[w].at = NULL
  /\ LET t == writer[w]
     IN IF t.doomed
        THEN /\ writer' = [writer EXCEPT ![w] = NULL]
             /\ UNCHANGED <<docs, chunks, jobs, run>>
        ELSE /\ CommitDocs(t.docs)
             /\ jobs' = [k \in Keys |-> IF k \in DOMAIN t.jobs
                                        THEN Enqueued(jobs[k], t.jobs[k])
                                        ELSE jobs[k]]
             /\ Doomed(Inserts(t.docs, t.jobs), w, NULL)
  /\ UNCHANGED <<mirrored, raced, indexed, deaths>>

(* POST /v1/families/{id}/jobs/followups: enqueues one job and commits. It
   waits for a writer that is about to insert the same job.                *)
PostFollowup(k, payload) ==
  /\ indexed < MaxIndexed
  /\ \A w \in Writers : writer[w] # NULL =>
       k \notin Inserts(writer[w].docs, writer[w].jobs)
  /\ jobs' = [jobs EXCEPT ![k] = Enqueued(@, Enqueue(@, payload))]
  /\ indexed' = indexed + 1
  /\ UNCHANGED <<docs, chunks, writer, run, mirrored, raced, deaths>>

---------------------------------------------------------------------------
(* worker.tasks.process_followup_jobs                                      *)

Pending == {k \in Keys : jobs[k] # NULL /\ jobs[k].status = "pending"}

(* claim_pending_jobs: up to Limit pending jobs. They are ordered by
   scheduled_for, the start of the transaction that enqueued them, which is
   any order of their commits. That they are "running" is written with the
   rest of the transaction, after which they no longer are.                *)
ClaimJobs(r) ==
  /\ run[r] = NULL
  /\ Pending # {}
  /\ LET n == IF Cardinality(Pending) < Limit THEN Cardinality(Pending)
              ELSE Limit
     IN \E batch \in [1..n -> Pending] :
          /\ Cardinality({batch[i] : i \in 1..n}) = n
          /\ run' = [run EXCEPT ![r] =
               [todo |-> [i \in 1..n |-> [key |-> batch[i],
                                          payload |-> jobs[batch[i]].payload]],
                at |-> NULL, done |-> NoWrites, docs |-> NoWrites,
                doomed |-> FALSE]]
  /\ UNCHANGED <<docs, chunks, jobs, writer, mirrored, raced, indexed, deaths>>

Doing(r, kind) ==
  run[r] # NULL /\ run[r].todo # <<>> /\ Head(run[r].todo).key[1] = kind

\* complete_job or fail_job of the job at hand, still uncommitted
Settle(r, status) ==
  run' = [run EXCEPT ![r].todo = Tail(@),
                     ![r].done = Put(@, Head(run[r].todo).key, status)]

\* Mutant: The outcome of the memory write is not looked at.
MirrorMemoryUnchecked(r, arrives, answered) ==
  /\ Doing(r, "mirror_memory")
  /\ answered => arrives
  /\ LET job == Head(run[r].todo)
     IN mirrored' = IF arrives
                    THEN [mirrored EXCEPT ![job.key[2]] = @ \cup {job.payload}]
                    ELSE mirrored
  /\ run' = [run EXCEPT ![r].todo = Tail(@),
                        ![r].done = Put(@, Head(run[r].todo).key, "completed")]
  /\ UNCHANGED <<docs, chunks, jobs, writer, raced, indexed, deaths>>

(* _process_mirror_memory: the memory is written with the payload that was
   read when the job was claimed. The write may reach the memory and its
   answer get lost.                                                        *)
MirrorMemory(r, arrives, answered) ==
  /\ Doing(r, "mirror_memory")
  /\ answered => arrives
  /\ LET job == Head(run[r].todo)
     IN mirrored' = IF arrives
                    THEN [mirrored EXCEPT ![job.key[2]] = @ \cup {job.payload}]
                    ELSE mirrored
  /\ Settle(r, IF answered THEN "completed" ELSE "failed")
  /\ UNCHANGED <<docs, chunks, jobs, writer, raced, indexed, deaths>>

\* _process_reindex_document reads the document; one that is not there is no
\* error.
ReadDocument(r) ==
  /\ Doing(r, "reindex_document")
  /\ run[r].at = NULL
  /\ LET d == Head(run[r].todo).key[2]
     IN IF docs[d] = NULL THEN Settle(r, "completed")
        ELSE run' = [run EXCEPT ![r].at = [doc |-> d, row |-> docs[d]]]
  /\ UNCHANGED <<docs, chunks, jobs, writer, mirrored, raced, indexed, deaths>>

\* reindex_document; an embedding that fails is no error either.
ReindexDocument(r, answers) ==
  /\ run[r] # NULL
  /\ run[r].at # NULL
  /\ LET d == run[r].at.doc
         s == Reindexed(run[r].at.row, chunks[d], answers)
     IN /\ run' = [run EXCEPT
              ![r].todo = Tail(@),
              ![r].at = NULL,
              ![r].done = Put(@, Head(run[r].todo).key, "completed"),
              ![r].docs = Put(@, d, s)]
        /\ Raced(d, run[r].at.row)
  /\ UNCHANGED <<docs, chunks, jobs, writer, mirrored, indexed, deaths>>

\* Mutant: The claim is committed by itself, before the jobs are processed.
CommitRunEarly(r) ==
  /\ run[r] # NULL
  /\ IF run[r].todo = <<>>
     THEN /\ CommitDocs(run[r].docs)
          /\ jobs' = [k \in Keys |-> IF k \in DOMAIN run[r].done
                                     THEN [jobs[k] EXCEPT !.status = run[r].done[k]]
                                     ELSE jobs[k]]
          /\ Doomed(Inserts(run[r].docs, <<>>), NULL, r)
     ELSE /\ run[r].done = NoWrites
          /\ jobs' = [k \in Keys |->
               IF \E i \in DOMAIN run[r].todo : run[r].todo[i].key = k
               THEN [jobs[k] EXCEPT !.status = "running"] ELSE jobs[k]]
          /\ UNCHANGED <<docs, chunks, writer, run>>
  /\ UNCHANGED <<mirrored, raced, indexed, deaths>>

\* db.commit() of the task: the whole batch, or nothing of it.
CommitRun(r) ==
  /\ run[r] # NULL
  /\ run[r].todo = <<>>
  /\ LET t == run[r]
     IN IF t.doomed
        THEN /\ run' = [run EXCEPT ![r] = NULL]
             /\ UNCHANGED <<docs, chunks, jobs, writer>>
        ELSE /\ CommitDocs(t.docs)
             /\ jobs' = [k \in Keys |-> IF k \in DOMAIN t.done
                                        THEN [jobs[k] EXCEPT !.status = t.done[k]]
                                        ELSE jobs[k]]
             /\ Doomed(Inserts(t.docs, <<>>), NULL, r)
  /\ UNCHANGED <<mirrored, raced, indexed, deaths>>

\* A process or its connection dies: PostgreSQL rolls its transaction back.
Die ==
  /\ deaths < MaxDeaths
  /\ \/ \E w \in Writers : /\ writer[w] # NULL
                           /\ writer' = [writer EXCEPT ![w] = NULL]
                           /\ UNCHANGED run
     \/ \E r \in Runs : /\ run[r] # NULL
                        /\ run' = [run EXCEPT ![r] = NULL]
                        /\ UNCHANGED writer
  /\ deaths' = deaths + 1
  /\ UNCHANGED <<docs, chunks, jobs, mirrored, raced, indexed>>

RunStep(r) ==
  \/ ClaimJobs(r)
  \/ \E arrives, answered \in BOOLEAN : MirrorMemory(r, arrives, answered)
  \/ ReadDocument(r)
  \/ \E answers \in BOOLEAN : ReindexDocument(r, answers)
  \/ CommitRun(r)

WriterStep(w) ==
  \/ \E text \in Texts, answers, mirror \in BOOLEAN :
       IndexDocument(w, text, answers, mirror)
  \/ CommitIndex(w)

Next ==
  \/ \E w \in Writers, d \in Docs : LookUp(w, d)
  \/ \E w \in Writers : WriterStep(w)
  \/ \E k \in Keys, payload \in Texts : PostFollowup(k, payload)
  \/ \E r \in Runs : RunStep(r)
  \/ Die

Spec == Init /\ [][Next]_vars

\* Celery beat starts the task every minute, and a started transaction ends.
Fairness ==
  /\ \A r \in Runs : WF_vars(RunStep(r))
  /\ \A w \in Writers : WF_vars(WriterStep(w))

FairSpec == Spec /\ Fairness

---------------------------------------------------------------------------
(* Properties                                                              *)

TypeOK ==
  /\ docs \in [Docs -> Doc \cup {NULL}]
  /\ chunks \in [Docs -> SUBSET Cut]
  /\ jobs \in [Keys -> Job \cup {NULL}]
  /\ \A w \in Writers : writer[w] # NULL =>
       \A d \in DOMAIN writer[w].docs : writer[w].docs[d].to \in Doc
  /\ \A r \in Runs : run[r] # NULL =>
       \A i \in DOMAIN run[r].todo : run[r].todo[i].payload \in Texts
  /\ mirrored \in [Docs -> SUBSET Texts]
  /\ raced \subseteq Docs
  /\ indexed \in 0..MaxIndexed
  /\ deaths \in 0..MaxDeaths

\* A mirror job is completed only if the family memory has some text of the
\* document, whatever runs overlapped, failed or were lost.
CompletedWasDone ==
  \A d \in Docs :
    LET j == jobs[<<"mirror_memory", d>>]
    IN j # NULL /\ j.status = "completed" => mirrored[d] # {}

\* They are cut from its text, however long the embedder took and whoever
\* committed meanwhile, unless its row changed between the two SELECTs of a
\* transaction.
ChunksMatchText ==
  \A d \in Docs \ raced : docs[d] # NULL =>
    \A c \in chunks[d] : c.text = docs[d].text

\* Every pending job is completed or failed some day: a process that dies
\* leaves no job behind that nobody will ever take, because a claim is
\* committed only together with its outcome (nothing reads a job's lease).
JobsEnd ==
  \A k \in Keys :
    (k \in Pending) ~>
      (jobs[k] # NULL /\ jobs[k].status \in {"completed", "failed"})

=============================================================================
