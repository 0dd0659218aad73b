---------------------------- MODULE FamilyEvents ----------------------------
(***************************************************************************)
(* The ingest of canonical family events by family-event-service.          *)
(*                                                                         *)
(* Producers publish to one subject of a JetStream stream; workers pull    *)
(* batches from its durable consumer, and store each event or write a dead *)
(* letter (worker/family_events_worker.py).  POST /v1/events and the       *)
(* Vikunja webhook store events through the same ingest function, as       *)
(* concurrent requests.  The service starts by setting the id sequence of  *)
(* the table to its largest committed id.                                  *)
(*                                                                         *)
(* An ingest is taken apart where another process can come between: the    *)
(* lookup by event_id, drawing the row's id from the sequence, the INSERT  *)
(* (which waits for an open transaction with the same event_id or id, and  *)
(* fails once that has committed), and the COMMIT.                         *)
(***************************************************************************)
EXTENDS Integers, FiniteSets

CONSTANTS
  Events,        \* canonical events, one event_id each
  Invalid,       \* those the envelope or the domain validation refuses
  Published,     \* those producers publish, once or several times
  Posted,        \* those clients post to the API, once or several times
  Workers,
  Callers,       \* concurrent API requests
  StreamMax,     \* bound: messages published
  BatchMax,      \* messages of one fetch
  MaxRestarts,   \* bound: processes that die and start again
  MaxFailures,   \* bound: database operations that fail
  NULL

ASSUME FamilyEventsAssumption ==
  /\ Invalid \subseteq Events /\ Published \subseteq Events /\ Posted \subseteq Events
  /\ Workers \cap Callers = {}
  /\ StreamMax \in Nat /\ MaxRestarts \in Nat /\ MaxFailures \in Nat
  /\ BatchMax \in Nat \ {0}
  /\ NULL \notin Events /\ NULL \notin Nat
  /\ NULL \notin {"invalid", "unique", "database"}

Messages == 1 .. StreamMax
Ingesters == Workers \cup Callers

VARIABLES
  stream,     \* the event of each message, NULL where nothing is published yet
  delivery,   \* per message: "queued", "pending" (delivered), "acked"
  batch,      \* per worker, the messages fetched and not yet acknowledged by it
  session,    \* per ingester NULL or the ingest it is in
  log,        \* family_events: the id of each event's row, or NULL
  sequence,   \* family_events_id_seq
  dead,       \* family_event_dead_letters: [message, cause]
  failed,     \* messages given up with "failed": no row and no dead letter (history)
  created,    \* events a caller was told are stored (history)
  offered,    \* events published or posted so far (history)
  restarts, failures

vars == <<stream, delivery, batch, session, log, sequence, dead, failed, created,
          offered, restarts, failures>>

Init ==
  /\ stream = [m \in Messages |-> NULL]
  /\ delivery = [m \in Messages |-> "queued"]
  /\ batch = [w \in Workers |-> {}]
  /\ session = [a \in Ingesters |-> NULL]
  /\ log = [e \in Events |-> NULL]
  /\ sequence = 0
  /\ dead = {} /\ failed = {} /\ created = {} /\ offered = {}
  /\ restarts = 0 /\ failures = 0

---------------------------------------------------------------------------
(* The stream and its durable consumer                                     *)

Queued == {m \in Messages : stream[m] # NULL /\ delivery[m] = "queued"}

PublishEvent(e) ==
  \E m \in Messages :
    /\ stream[m] = NULL
    /\ \A n \in 1 .. (m - 1) : stream[n] # NULL
    /\ stream' = [stream EXCEPT ![m] = e]
    /\ offered' = offered \cup {e}
    /\ UNCHANGED <<delivery, batch, session, log, sequence, dead, failed, created,
                   restarts, failures>>

\* A delivered message that is not acknowledged in time is delivered again,
\* also while its first receiver is still working on it.
AckTimeout(m) ==
  /\ delivery[m] = "pending"
  /\ delivery' = [delivery EXCEPT ![m] = "queued"]
  /\ UNCHANGED <<stream, batch, session, log, sequence, dead, failed, created,
                 offered, restarts, failures>>

\* Mutant: the batch is acknowledged when it is fetched.
FetchAcks(w) ==
  /\ batch[w] = {}
  /\ \E chosen \in SUBSET Queued :
       /\ chosen # {} /\ Cardinality(chosen) <= BatchMax
       /\ batch' = [batch EXCEPT ![w] = chosen]
       /\ delivery' = [m \in Messages |->
                         IF m \in chosen THEN "acked" ELSE delivery[m]]
  /\ UNCHANGED <<stream, session, log, sequence, dead, failed, created,
                 offered, restarts, failures>>

\* fetch(20): the oldest messages that wait for delivery.
Fetch(w) ==
  /\ batch[w] = {}
  /\ \E chosen \in SUBSET Queued :
       /\ chosen # {} /\ Cardinality(chosen) <= BatchMax
       /\ \A m \in chosen, n \in Queued \ chosen : m < n
       /\ batch' = [batch EXCEPT ![w] = chosen]
       /\ delivery' = [m \in Messages |->
                         IF m \in chosen THEN "pending" ELSE delivery[m]]
  /\ UNCHANGED <<stream, session, log, sequence, dead, failed, created,
                 offered, restarts, failures>>

---------------------------------------------------------------------------
(* ingest_family_event: validate and look up, draw an id, INSERT, COMMIT   *)

Ingest(e, m) ==
  [pc |-> "draw", event |-> e, message |-> m, id |-> 0, cause |-> NULL]
At(a, pc) == session[a] # NULL /\ session[a].pc = pc
Ingesting(a) == At(a, "draw") \/ At(a, "insert") \/ At(a, "commit")
Go(a, pc) == session' = [session EXCEPT ![a].pc = pc]

\* The end of an ingest that did not store its event: a worker goes on to the
\* dead letter, a caller is answered 500.
Refuse(a, cause) ==
  session' = [session EXCEPT ![a] =
                IF a \in Workers THEN [@ EXCEPT !.pc = "reject", !.cause = cause]
                ELSE NULL]

\* The end of one that did, or found it stored: a worker acknowledges, a
\* caller is answered 201.
Accept(a) ==
  IF a \in Workers THEN Go(a, "ack") /\ UNCHANGED created
  ELSE /\ session' = [session EXCEPT ![a] = NULL]
       /\ created' = created \cup {session[a].event}

\* The worker takes up the next message of its batch.
Process(w) ==
  /\ session[w] = NULL /\ batch[w] # {}
  /\ \E m \in batch[w] :
       /\ \A n \in batch[w] : m <= n
       /\ LET e == stream[m]
          IN session' = [session EXCEPT ![w] =
               IF e \in Invalid
               THEN [Ingest(e, m) EXCEPT !.pc = "reject", !.cause = "invalid"]
               ELSE IF log[e] # NULL THEN [Ingest(e, m) EXCEPT !.pc = "ack"]
               ELSE Ingest(e, m)]
  /\ UNCHANGED <<stream, delivery, batch, log, sequence, dead, failed, created,
                 offered, restarts, failures>>

\* POST /v1/events: 400 for an invalid event, 201 for one that is stored.
PostEvent(c, e) ==
  /\ session[c] = NULL /\ e \notin Invalid
  /\ IF log[e] # NULL
     THEN created' = created \cup {e} /\ UNCHANGED session
     ELSE session' = [session EXCEPT ![c] = Ingest(e, NULL)] /\ UNCHANGED created
  /\ offered' = offered \cup {e}
  /\ UNCHANGED <<stream, delivery, batch, log, sequence, dead, failed,
                 restarts, failures>>

\* Mutant: the caller is answered before the row is committed.
DrawIdAnswers(a) ==
  /\ At(a, "draw")
  /\ sequence' = sequence + 1
  /\ session' = [session EXCEPT ![a].id = sequence + 1, ![a].pc = "insert"]
  /\ created' = IF a \in Callers THEN created \cup {session[a].event} ELSE created
  /\ UNCHANGED <<stream, delivery, batch, log, dead, failed, offered,
                 restarts, failures>>

\* nextval: never rolled back.
DrawId(a) ==
  /\ At(a, "draw")
  /\ sequence' = sequence + 1
  /\ session' = [session EXCEPT ![a].id = sequence + 1, ![a].pc = "insert"]
  /\ UNCHANGED <<stream, delivery, batch, log, dead, failed, created,
                 offered, restarts, failures>>

\* Mutant: the INSERT does not notice that the event has a row.
InsertAgain(a) ==
  /\ At(a, "insert")
  /\ Go(a, "commit")
  /\ UNCHANGED <<stream, delivery, batch, log, sequence, dead, failed, created,
                 offered, restarts, failures>>

\* The unique constraints on event_id and id.
Insert(a) ==
  /\ At(a, "insert")
  /\ \A b \in Ingesters :
       At(b, "commit") => /\ session[b].event # session[a].event
                          /\ session[b].id # session[a].id
  /\ IF log[session[a].event] # NULL \/ \E e \in Events : log[e] = session[a].id
     THEN Refuse(a, "unique") ELSE Go(a, "commit")
  /\ UNCHANGED <<stream, delivery, batch, log, sequence, dead, failed, created,
                 offered, restarts, failures>>

Commit(a) ==
  /\ At(a, "commit")
  /\ log' = [log EXCEPT ![session[a].event] = session[a].id]
  /\ Accept(a)
  /\ UNCHANGED <<stream, delivery, batch, sequence, dead, failed, offered,
                 restarts, failures>>

\* The database refuses a statement, or the connection is lost; when that
\* happens at the COMMIT, the row may or may not be there.
IngestFails(a) ==
  /\ failures < MaxFailures /\ failures' = failures + 1
  /\ Ingesting(a)
  /\ Refuse(a, "database")
  /\ \/ UNCHANGED log
     \/ At(a, "commit") /\ log' = [log EXCEPT ![session[a].event] = session[a].id]
  /\ UNCHANGED <<stream, delivery, batch, sequence, dead, failed, created, offered,
                 restarts>>

---------------------------------------------------------------------------
(* ingest_or_dead_letter_family_event and _process_message                 *)

DeadLetter(w) ==
  /\ At(w, "reject")
  /\ dead' = dead \cup {[message |-> session[w].message, cause |-> session[w].cause]}
  /\ Go(w, "ack")
  /\ UNCHANGED <<stream, delivery, batch, log, sequence, failed, created,
                 offered, restarts, failures>>

\* process_raw_event returns "failed" when the dead letter fails as well.
DeadLetterFails(w) ==
  /\ failures < MaxFailures /\ failures' = failures + 1
  /\ At(w, "reject")
  /\ failed' = failed \cup {session[w].message}
  /\ Go(w, "ack")
  /\ UNCHANGED <<stream, delivery, batch, log, sequence, dead, created, offered,
                 restarts>>

\* Mutant: the message is never acknowledged.
AckForgotten(w) ==
  /\ At(w, "ack")
  /\ batch' = [batch EXCEPT ![w] = @ \ {session[w].message}]
  /\ session' = [session EXCEPT ![w] = NULL]
  /\ UNCHANGED <<stream, delivery, log, sequence, dead, failed, created, offered,
                 restarts, failures>>

\* _process_message acknowledges whatever process_raw_event returned.
Ack(w) ==
  /\ At(w, "ack")
  /\ delivery' = [delivery EXCEPT ![session[w].message] = "acked"]
  /\ batch' = [batch EXCEPT ![w] = @ \ {session[w].message}]
  /\ session' = [session EXCEPT ![w] = NULL]
  /\ UNCHANGED <<stream, log, sequence, dead, failed, created, offered,
                 restarts, failures>>

---------------------------------------------------------------------------
(* A process dies and starts again: repair_event_store_sequences           *)

Stored == {e \in Events : log[e] # NULL}

\* setval to COALESCE(MAX(id), 1): the open inserts are not counted.
RepairSequence ==
  IF Stored = {} THEN sequence' = 1
  ELSE \E e \in Stored : /\ \A d \in Stored : log[d] <= log[e]
                         /\ sequence' = log[e]

Restart(P) ==
  /\ restarts < MaxRestarts /\ restarts' = restarts + 1
  /\ session' = [a \in Ingesters |-> IF a \in P THEN NULL ELSE session[a]]
  /\ batch' = [w \in Workers |-> IF w \in P THEN {} ELSE batch[w]]
  /\ RepairSequence
  /\ UNCHANGED <<stream, delivery, log, dead, failed, created, offered, failures>>

---------------------------------------------------------------------------
IngestStep(a) == DrawId(a) \/ Insert(a) \/ Commit(a)
WorkerStep(w) == Fetch(w) \/ Process(w) \/ IngestStep(w) \/ DeadLetter(w) \/ Ack(w)

Next ==
  \/ \E e \in Published : PublishEvent(e)
  \/ \E m \in Messages : AckTimeout(m)
  \/ \E w \in Workers : WorkerStep(w) \/ DeadLetterFails(w) \/ Restart({w})
  \/ \E c \in Callers, e \in Posted : PostEvent(c, e)
  \/ \E c \in Callers : IngestStep(c)
  \/ \E a \in Ingesters : IngestFails(a)
  \/ Restart(Callers)

Spec == Init /\ [][Next]_vars

\* Workers and requests run on, and the consumer's ack wait is 30 seconds.
FairSpec ==
  /\ Spec
  /\ \A m \in Messages : WF_vars(AckTimeout(m))
  /\ \A w \in Workers : WF_vars(WorkerStep(w))
  /\ \A c \in Callers : WF_vars(IngestStep(c))

---------------------------------------------------------------------------
Session ==
  [ pc : {"draw", "insert", "commit", "reject", "ack"}, event : Events,
    message : Messages \cup {NULL}, id : Nat,
    cause : {NULL, "invalid", "unique", "database"} ]

TypeOK ==
  /\ stream \in [Messages -> Events \cup {NULL}]
  /\ delivery \in [Messages -> {"queued", "pending", "acked"}]
  /\ batch \in [Workers -> SUBSET Messages]
  /\ session \in [Ingesters -> Session \cup {NULL}]
  /\ log \in [Events -> Nat \cup {NULL}]
  /\ sequence \in Nat
  /\ dead \subseteq [message : Messages, cause : {"invalid", "unique", "database"}]
  /\ failed \subseteq Messages
  /\ created \subseteq Events /\ offered \subseteq Events
  /\ restarts \in 0 .. MaxRestarts /\ failures \in 0 .. MaxFailures

DeadLettered == {d.message : d \in dead}
Settled(m) == stream[m] \in Stored \/ m \in DeadLettered \/ m \in failed

\* A message leaves the stream only when its event has a row or it has a
\* dead letter, or the worker logged family_event_worker_failure for it:
\* deaths, redeliveries and two workers with the same message lose nothing.
AckedSettled ==
  \A m \in Messages : delivery[m] = "acked" => Settled(m)

\* A client that was answered 201 finds its event in the store.
CreatedIsStored == created \subseteq Stored

\* What the ingests under way know, and a COMMIT or an acknowledgement relies
\* on, whatever was redelivered, restarted, or set back in between.
StreamOffered == \A m \in Messages : stream[m] # NULL => stream[m] \in offered
BatchPublished == \A w \in Workers : \A m \in batch[w] : stream[m] # NULL

\* The message of a worker's session is the one its event came in, and is
\* settled before it is acknowledged.
WorkerKnows(w) ==
  session[w] # NULL =>
    /\ session[w].message \in Messages
    /\ stream[session[w].message] = session[w].event
    /\ session[w].pc = "reject" => session[w].cause # NULL
    /\ session[w].pc = "ack" => Settled(session[w].message)

IngestingOffered(a) == Ingesting(a) => session[a].event \in offered \ Invalid

\* An open INSERT has the event_id and the id of no row and of no other.
OpenDistinct(a) ==
  At(a, "commit") =>
    /\ log[session[a].event] = NULL
    /\ \A e \in Events : log[e] # session[a].id
    /\ \A b \in Ingesters \ {a} : At(b, "commit") =>
         session[a].event # session[b].event /\ session[a].id # session[b].id

IngestInv ==
  /\ StreamOffered /\ BatchPublished
  /\ \A w \in Workers : WorkerKnows(w)
  /\ \A a \in Ingesters : IngestingOffered(a) /\ OpenDistinct(a)

\* Every published event is settled and acknowledged in the end, so that redelivery ends.
PublishedAcked == \A m \in Messages : stream[m] # NULL ~> delivery[m] = "acked"

---------------------------------------------------------------------------
(* The store, as its readers see it                                        *)

Log == INSTANCE EventLog WITH NoRow <- NULL

\* Workers, requests, restarts and redeliveries implement the event log.
StoreImplementsLog == Log!Spec
=============================================================================
