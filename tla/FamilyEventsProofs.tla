------------------------- MODULE FamilyEventsProofs -------------------------
(***************************************************************************)
(* Proofs about FamilyEvents, for every number of events, messages,        *)
(* workers and callers, and every number of deaths and failures: nothing   *)
(* leaves the stream unsettled, a 201 is kept, and the table is the        *)
(* abstract event log; and that the sweeps of its task events miss nothing *)
(* and a registration leaves one webhook.                                  *)
(***************************************************************************)
EXTENDS MCFamilyEvents, TLAPS

LEMMA NullFacts ==
  /\ \A n \in Nat : n # NULL
  /\ \A e \in Events : e # NULL
  BY FamilyEventsAssumption

LEMMA MessagesNat == Messages \subseteq Nat
  BY FamilyEventsAssumption DEF Messages

---------------------------------------------------------------------------
(* Types                                                                   *)

LEMMA IngestType ==
  ASSUME NEW e \in Events, NEW m \in Messages \cup {NULL}
  PROVE  /\ Ingest(e, m) \in Session
         /\ [Ingest(e, m) EXCEPT !.pc = "reject", !.cause = "invalid"] \in Session
         /\ [Ingest(e, m) EXCEPT !.pc = "ack"] \in Session
  BY DEF Ingest, Session

LEMMA InitType == Init => TypeOK
  BY FamilyEventsAssumption DEF Init, TypeOK

LEMMA RefuseType ==
  ASSUME TypeOK, NEW a \in Ingesters, session[a] # NULL,
         NEW cause \in {"unique", "database"}, Refuse(a, cause)
  PROVE  session' \in [Ingesters -> Session \cup {NULL}]
<1>1. session[a] \in Session
  BY DEF TypeOK
<1>2. [session[a] EXCEPT !.pc = "reject", !.cause = cause] \in Session
  BY <1>1 DEF Session
<1> QED
  BY <1>2 DEF Refuse, TypeOK

LEMMA GoType ==
  ASSUME TypeOK, NEW a \in Ingesters, session[a] # NULL,
         NEW pc \in {"draw", "insert", "commit", "reject", "ack"}, Go(a, pc)
  PROVE  session' \in [Ingesters -> Session \cup {NULL}]
<1>1. session[a] \in Session
  BY DEF TypeOK
<1>2. [session[a] EXCEPT !.pc = pc] \in Session
  BY <1>1 DEF Session
<1> QED
  BY <1>2 DEF Go, TypeOK

LEMMA IngestStepType ==
  ASSUME TypeOK, NEW a \in Ingesters, IngestStep(a) \/ IngestFails(a)
  PROVE  TypeOK'
<1>0. session[a] # NULL /\ session[a] \in Session
  BY DEF IngestStep, IngestFails, Ingesting, DrawId, Insert, Commit, At, TypeOK
<1>1. CASE DrawId(a)
  <2>1. sequence + 1 \in Nat
    BY DEF TypeOK
  <2>2. [session[a] EXCEPT !.id = sequence + 1, !.pc = "insert"] \in Session
    BY <1>0, <2>1 DEF Session
  <2>3. session' = [session EXCEPT ![a] =
                      [session[a] EXCEPT !.id = sequence + 1, !.pc = "insert"]]
    BY <1>1 DEF DrawId
  <2> QED
    BY <1>1, <2>1, <2>2, <2>3 DEF DrawId, TypeOK
<1>2. CASE Insert(a)
  <2>1. session' \in [Ingesters -> Session \cup {NULL}]
    BY <1>0, <1>2, RefuseType, GoType DEF Insert
  <2> QED
    BY <1>2, <2>1 DEF Insert, TypeOK
<1>3. log' = [log EXCEPT ![session[a].event] = session[a].id]
        => log' \in [Events -> Nat \cup {NULL}]
  BY <1>0 DEF TypeOK, Session
<1>4. CASE Commit(a)
  <2>1. log' \in [Events -> Nat \cup {NULL}]
    BY <1>3, <1>4 DEF Commit
  <2>2. CASE a \in Workers
    <3>1. session' \in [Ingesters -> Session \cup {NULL}]
      BY <1>0, <1>4, <2>2, GoType DEF Commit, Accept
    <3> QED
      BY <1>4, <2>1, <2>2, <3>1 DEF Commit, Accept, TypeOK
  <2>3. CASE a \notin Workers
    <3>1. session' = [session EXCEPT ![a] = NULL]
      BY <1>4, <2>3 DEF Commit, Accept
    <3>2. created' \subseteq Events
      BY <1>0, <1>4, <2>3 DEF Commit, Accept, TypeOK, Session
    <3> QED
      BY <1>4, <2>1, <3>1, <3>2 DEF Commit, TypeOK
  <2> QED
    BY <2>2, <2>3
<1>5. CASE IngestFails(a)
  <2>1. session' \in [Ingesters -> Session \cup {NULL}]
    BY <1>0, <1>5, RefuseType DEF IngestFails
  <2>2. log' \in [Events -> Nat \cup {NULL}]
    BY <1>3, <1>5 DEF IngestFails, TypeOK
  <2>3. failures' \in 0 .. MaxFailures
    BY <1>5, FamilyEventsAssumption DEF IngestFails, TypeOK
  <2> QED
    BY <1>5, <2>1, <2>2, <2>3 DEF IngestFails, TypeOK
<1> QED
  BY <1>1, <1>2, <1>4, <1>5 DEF IngestStep

LEMMA RepairType ==
  ASSUME TypeOK, RepairSequence
  PROVE  sequence' \in Nat
  BY DEF RepairSequence, Stored, TypeOK

LEMMA RestartType ==
  ASSUME TypeOK, NEW P, Restart(P)
  PROVE  TypeOK'
<1>1. sequence' \in Nat
  BY RepairType DEF Restart
<1>2. restarts' \in 0 .. MaxRestarts
  BY FamilyEventsAssumption DEF Restart, TypeOK
<1> QED
  BY <1>1, <1>2 DEF Restart, TypeOK

\* The part of IngestInv the types of a worker's step rest on.
WorkerMessages ==
  /\ \A w \in Workers : \A m \in batch[w] : stream[m] # NULL
  /\ \A w \in Workers : session[w] # NULL =>
       /\ session[w].message \in Messages
       /\ session[w].pc = "reject" => session[w].cause # NULL

LEMMA WorkerType ==
  ASSUME TypeOK, WorkerMessages, NEW w \in Workers,
         Fetch(w) \/ Process(w) \/ DeadLetter(w) \/ DeadLetterFails(w) \/ Ack(w)
  PROVE  TypeOK'
<1>0. w \in Ingesters
  BY DEF Ingesters
<1>1. CASE Fetch(w)
  <2>1. PICK chosen \in SUBSET Queued :
          /\ batch' = [batch EXCEPT ![w] = chosen]
          /\ delivery' = [m \in Messages |->
                            IF m \in chosen THEN "pending" ELSE delivery[m]]
    BY <1>1 DEF Fetch
  <2>2. chosen \subseteq Messages
    BY <2>1 DEF Queued
  <2>3. batch' \in [Workers -> SUBSET Messages]
    BY <2>1, <2>2 DEF TypeOK
  <2>4. delivery' \in [Messages -> {"queued", "pending", "acked"}]
    BY <2>1 DEF TypeOK
  <2> QED
    BY <1>1, <2>3, <2>4 DEF Fetch, TypeOK
<1>2. CASE Process(w)
  <2>1. PICK m \in batch[w] :
          session' = [session EXCEPT ![w] =
               IF stream[m] \in Invalid
               THEN [Ingest(stream[m], m) EXCEPT !.pc = "reject", !.cause = "invalid"]
               ELSE IF log[stream[m]] # NULL
               THEN [Ingest(stream[m], m) EXCEPT !.pc = "ack"]
               ELSE Ingest(stream[m], m)]
    BY <1>2 DEF Process
  <2>2. m \in Messages
    BY <2>1 DEF TypeOK
  <2>3. CASE stream[m] \in Events
    <3>1. session' \in [Ingesters -> Session \cup {NULL}]
      BY <1>0, <2>1, <2>2, <2>3, IngestType DEF TypeOK
    <3> QED
      BY <1>2, <3>1 DEF Process, TypeOK
  <2>4. stream[m] \in Events
    BY <2>1, <2>2 DEF WorkerMessages, TypeOK
  <2> QED
    BY <2>3, <2>4
<1>3. CASE DeadLetter(w)
  <2>1. session[w] # NULL /\ session[w] \in Session
    BY <1>0, <1>3 DEF DeadLetter, At, TypeOK
  <2>2. session' \in [Ingesters -> Session \cup {NULL}]
    BY <1>0, <1>3, <2>1, GoType DEF DeadLetter
  <2>3. session[w].message \in Messages
    BY <2>1 DEF WorkerMessages
  <2>4. session[w].cause \in {"invalid", "unique", "database"}
    BY <1>3, <2>1 DEF DeadLetter, At, WorkerMessages, Session
  <2>5. dead' \subseteq [message : Messages, cause : {"invalid", "unique", "database"}]
    BY <1>3, <2>3, <2>4 DEF DeadLetter, TypeOK
  <2> QED
    BY <1>3, <2>2, <2>5 DEF DeadLetter, TypeOK
<1>4. CASE DeadLetterFails(w)
  <2>1. session[w] # NULL
    BY <1>4 DEF DeadLetterFails, At
  <2>2. session' \in [Ingesters -> Session \cup {NULL}]
    BY <1>0, <1>4, <2>1, GoType DEF DeadLetterFails
  <2>3. failed' \subseteq Messages
    BY <1>4, <2>1 DEF DeadLetterFails, WorkerMessages, TypeOK
  <2>4. failures' \in 0 .. MaxFailures
    BY <1>4, FamilyEventsAssumption DEF DeadLetterFails, TypeOK
  <2> QED
    BY <1>4, <2>2, <2>3, <2>4 DEF DeadLetterFails, TypeOK
<1>5. CASE Ack(w)
  BY <1>0, <1>5 DEF Ack, TypeOK
<1> QED
  BY <1>1, <1>2, <1>3, <1>4, <1>5

LEMMA ProducerType ==
  ASSUME TypeOK
  PROVE  /\ \A e \in Published : PublishEvent(e) => TypeOK'
         /\ \A m \in Messages : AckTimeout(m) => TypeOK'
         /\ \A c \in Callers, e \in Posted : PostEvent(c, e) => TypeOK'
<1>1. ASSUME NEW e \in Published, PublishEvent(e)
      PROVE  TypeOK'
  <2>1. e \in Events
    BY FamilyEventsAssumption
  <2> QED
    BY <1>1, <2>1 DEF PublishEvent, TypeOK
<1>2. ASSUME NEW m \in Messages, AckTimeout(m)
      PROVE  TypeOK'
  BY <1>2 DEF AckTimeout, TypeOK
<1>3. ASSUME NEW c \in Callers, NEW e \in Posted, PostEvent(c, e)
      PROVE  TypeOK'
  <2>1. e \in Events /\ c \in Ingesters
    BY FamilyEventsAssumption DEF Ingesters
  <2>2. Ingest(e, NULL) \in Session
    BY <2>1, IngestType
  <2>3. session' \in [Ingesters -> Session \cup {NULL}] /\ created' \subseteq Events
    BY <1>3, <2>1, <2>2 DEF PostEvent, TypeOK
  <2> QED
    BY <1>3, <2>1, <2>3 DEF PostEvent, TypeOK
<1> QED
  BY <1>1, <1>2, <1>3

LEMMA NextType == TypeOK /\ IngestInv /\ [Next]_vars => TypeOK'
<1> SUFFICES ASSUME TypeOK, IngestInv, [Next]_vars PROVE TypeOK'
  OBVIOUS
<1>1. WorkerMessages
  BY DEF IngestInv, BatchPublished, WorkerKnows, WorkerMessages
<1>2. CASE Next
  <2>1. Workers \subseteq Ingesters /\ Callers \subseteq Ingesters
    BY DEF Ingesters
  <2> QED
    BY <1>1, <1>2, <2>1, ProducerType, WorkerType, IngestStepType, RestartType
    DEF Next, WorkerStep
<1>3. CASE UNCHANGED vars
  BY <1>3 DEF vars, TypeOK
<1> QED
  BY <1>2, <1>3

---------------------------------------------------------------------------
(* What only grows                                                         *)

Grows ==
  /\ \A m \in Messages : stream[m] # NULL => stream'[m] = stream[m]
  /\ Stored \subseteq Stored'
  /\ dead \subseteq dead' /\ failed \subseteq failed'
  /\ offered \subseteq offered'

LEMMA StoredGrows ==
  ASSUME TypeOK, NEW a \in Ingesters, session[a] # NULL,
         log' = [log EXCEPT ![session[a].event] = session[a].id]
  PROVE  Stored \subseteq Stored' /\ session[a].event \in Stored'
<1>1. session[a].event \in Events /\ session[a].id \in Nat
  BY DEF TypeOK, Session
<1> QED
  BY <1>1, NullFacts DEF Stored, TypeOK

LEMMA NextGrows == TypeOK /\ [Next]_vars => Grows
<1> SUFFICES ASSUME TypeOK, [Next]_vars PROVE Grows
  OBVIOUS
<1> USE DEF Grows
<1>1. ASSUME NEW a \in Ingesters, IngestStep(a) \/ IngestFails(a)
      PROVE  Grows
  <2>1. session[a] # NULL
    BY <1>1 DEF IngestStep, IngestFails, Ingesting, DrawId, Insert, Commit, At
  <2>2. CASE log' = log
    BY <1>1, <2>2 DEF IngestStep, IngestFails, DrawId, Insert, Commit, Stored
  <2>3. CASE log' = [log EXCEPT ![session[a].event] = session[a].id]
    BY <1>1, <2>1, <2>3, StoredGrows
    DEF IngestStep, IngestFails, DrawId, Insert, Commit
  <2> QED
    BY <1>1, <2>2, <2>3 DEF IngestStep, IngestFails, DrawId, Insert, Commit
<1>2. ASSUME NEW w \in Workers,
             \/ Fetch(w) \/ Process(w) \/ DeadLetter(w) \/ DeadLetterFails(w)
             \/ Ack(w)
      PROVE  Grows
  BY <1>2 DEF Fetch, Process, DeadLetter, DeadLetterFails, Ack, Stored
<1>3. ASSUME NEW e, PublishEvent(e)
      PROVE  Grows
  BY <1>3 DEF PublishEvent, Stored, TypeOK
<1>4. ASSUME NEW P, Restart(P)
      PROVE  Grows
  BY <1>4 DEF Restart, Stored
<1>5. ASSUME NEW m \in Messages, AckTimeout(m)
      PROVE  Grows
  BY <1>5 DEF AckTimeout, Stored
<1>6. ASSUME NEW c, NEW e, PostEvent(c, e)
      PROVE  Grows
  BY <1>6 DEF PostEvent, Stored
<1>7. CASE UNCHANGED vars
  BY <1>7 DEF vars, Stored
<1> QED
  BY <1>1, <1>2, <1>3, <1>4, <1>5, <1>6, <1>7 DEF Next, WorkerStep, Ingesters

\* A settled message stays settled.
LEMMA SettledStays ==
  ASSUME Grows, NEW m \in Messages, stream[m] # NULL, Settled(m)
  PROVE  Settled(m)'
  BY DEF Grows, Settled, DeadLettered

---------------------------------------------------------------------------
(* IngestInv, part by part                                                 *)

LEMMA StreamStays ==
  ASSUME TypeOK, IngestInv, [Next]_vars
  PROVE  StreamOffered' /\ BatchPublished'
<1>1. Grows
  BY NextGrows
<1>2. StreamOffered'
  <2>1. CASE stream' = stream
    BY <1>1, <2>1 DEF IngestInv, StreamOffered, Grows
  <2>2. ASSUME NEW e \in Published, PublishEvent(e)
        PROVE  StreamOffered'
    BY <1>1, <2>2 DEF PublishEvent, IngestInv, StreamOffered, Grows, TypeOK
  <2> QED
    BY <2>1, <2>2
    DEF Next, vars, WorkerStep, IngestStep, AckTimeout, Fetch, Process, DrawId, Insert,
        Commit, DeadLetter, Ack, DeadLetterFails, Restart, PostEvent, IngestFails
<1>3. BatchPublished'
  <2> SUFFICES ASSUME NEW w \in Workers, NEW m \in batch'[w]
               PROVE  stream'[m] # NULL
    BY DEF BatchPublished
  <2>1. CASE m \in batch[w]
    BY <1>1, <2>1 DEF IngestInv, BatchPublished, Grows, TypeOK
  <2>2. CASE m \notin batch[w]
    <3>1. \/ batch' = batch
          \/ \E v \in Workers : Fetch(v) \/ Ack(v) \/ Restart({v})
          \/ Restart(Callers)
      BY DEF Next, vars, WorkerStep, IngestStep, AckTimeout, Process, DrawId, Insert,
             Commit, DeadLetter, DeadLetterFails, PostEvent, IngestFails, PublishEvent
    <3>2. ASSUME NEW P, Restart(P)
          PROVE  FALSE
      BY <2>2, <3>2 DEF Restart
    <3>3. ASSUME NEW v \in Workers, Ack(v)
          PROVE  FALSE
      BY <2>2, <3>3 DEF Ack, TypeOK
    <3>4. ASSUME NEW v \in Workers, Fetch(v)
          PROVE  m \in Queued
      BY <2>2, <3>4 DEF Fetch, TypeOK
    <3>5. m \in Queued
      BY <2>2, <3>1, <3>2, <3>3, <3>4
    <3> QED
      BY <1>1, <3>5 DEF Queued, Grows
  <2> QED
    BY <2>1, <2>2
<1> QED
  BY <1>2, <1>3

\* A session nobody touches still knows what it knew.
LEMMA WorkerKept ==
  ASSUME TypeOK, Grows, NEW w \in Workers, WorkerKnows(w), session'[w] = session[w]
  PROVE  WorkerKnows(w)'
<1> SUFFICES ASSUME session[w] # NULL
             PROVE  WorkerKnows(w)'
  BY DEF WorkerKnows
<1>1. session[w] \in Session
  BY DEF TypeOK, Ingesters
<1>2. session[w].message \in Messages /\ stream[session[w].message] # NULL
  BY <1>1, NullFacts DEF WorkerKnows, Session
<1>3. stream'[session[w].message] = session[w].event
  BY <1>2 DEF WorkerKnows, Grows
<1>4. session[w].pc = "ack" => Settled(session[w].message)'
  BY <1>2, SettledStays DEF WorkerKnows
<1> QED
  BY <1>2, <1>3, <1>4 DEF WorkerKnows

\* So does one that goes on with the same message: to a rejection with a
\* cause, or to the acknowledgement of a settled message.
LEMMA WorkerGoesOn ==
  ASSUME TypeOK, Grows, NEW w \in Workers, WorkerKnows(w),
         session[w] # NULL,
         session'[w].message = session[w].message,
         session'[w].event = session[w].event,
         session'[w].pc = "reject" => session'[w].cause # NULL,
         session'[w].pc = "ack" => Settled(session[w].message)'
  PROVE  WorkerKnows(w)'
<1>1. session[w] \in Session
  BY DEF TypeOK, Ingesters
<1>2. session[w].message \in Messages /\ stream[session[w].message] # NULL
  BY <1>1, NullFacts DEF WorkerKnows, Session
<1>3. stream'[session[w].message] = session[w].event
  BY <1>2 DEF WorkerKnows, Grows
<1> QED
  BY <1>2, <1>3 DEF WorkerKnows

\* What Go and Refuse leave alone.
LEMMA GoFields ==
  ASSUME TypeOK, NEW a \in Ingesters, session[a] # NULL, NEW pc, Go(a, pc)
  PROVE  /\ session'[a].pc = pc
         /\ session'[a].message = session[a].message
         /\ session'[a].event = session[a].event
         /\ session'[a].cause = session[a].cause
         /\ session'[a].id = session[a].id
         /\ \A b \in Ingesters \ {a} : session'[b] = session[b]
<1>1. session[a] \in Session
  BY DEF TypeOK
<1>2. session'[a] = [session[a] EXCEPT !.pc = pc]
  BY DEF Go, TypeOK
<1>3. \A b \in Ingesters \ {a} : session'[b] = session[b]
  BY DEF Go, TypeOK
<1> QED
  BY <1>1, <1>2, <1>3 DEF Session

LEMMA RefuseFields ==
  ASSUME TypeOK, NEW w \in Workers, session[w] # NULL, NEW cause, Refuse(w, cause)
  PROVE  /\ session'[w].pc = "reject"
         /\ session'[w].message = session[w].message
         /\ session'[w].event = session[w].event
         /\ session'[w].cause = cause
<1>1. w \in Ingesters /\ session[w] \in Session
  BY DEF TypeOK, Ingesters
<1>2. session'[w] = [session[w] EXCEPT !.pc = "reject", !.cause = cause]
  BY <1>1 DEF Refuse, TypeOK
<1> QED
  BY <1>1, <1>2 DEF Session

\* The session of a worker in its own step.
LEMMA OwnStepKnows ==
  ASSUME TypeOK, IngestInv, Grows, NEW w \in Workers,
         WorkerStep(w) \/ DeadLetterFails(w) \/ IngestFails(w)
  PROVE  WorkerKnows(w)'
<1>0. /\ w \in Ingesters /\ WorkerKnows(w)
      /\ session[w] # NULL => session[w] \in Session
  BY DEF Ingesters, IngestInv, TypeOK
<1>1. CASE Fetch(w)
  BY <1>0, <1>1, WorkerKept DEF Fetch
<1>2. CASE Process(w)
  <2>1. PICK m \in batch[w] :
          session' = [session EXCEPT ![w] =
               IF stream[m] \in Invalid
               THEN [Ingest(stream[m], m) EXCEPT !.pc = "reject", !.cause = "invalid"]
               ELSE IF log[stream[m]] # NULL
               THEN [Ingest(stream[m], m) EXCEPT !.pc = "ack"]
               ELSE Ingest(stream[m], m)]
    BY <1>2 DEF Process
  <2>2. m \in Messages /\ stream[m] \in Events /\ stream' = stream
    BY <1>2, <2>1 DEF Process, IngestInv, BatchPublished, TypeOK
  <2>3. stream' = stream /\ log' = log /\ dead' = dead /\ failed' = failed
    BY <1>2 DEF Process
  <2>4. CASE stream[m] \in Invalid
    <3>1. session'[w] =
            [Ingest(stream[m], m) EXCEPT !.pc = "reject", !.cause = "invalid"]
      BY <1>0, <2>1, <2>4 DEF TypeOK
    <3>2. /\ session'[w].message = m /\ session'[w].event = stream[m]
          /\ session'[w].pc = "reject" /\ session'[w].cause = "invalid"
      BY <3>1 DEF Ingest
    <3> QED
      BY <2>2, <3>2, FamilyEventsAssumption DEF WorkerKnows
  <2>5. CASE stream[m] \notin Invalid /\ log[stream[m]] # NULL
    <3>1. session'[w] = [Ingest(stream[m], m) EXCEPT !.pc = "ack"]
      BY <1>0, <2>1, <2>5 DEF TypeOK
    <3>2. /\ session'[w].message = m /\ session'[w].event = stream[m]
          /\ session'[w].pc = "ack"
      BY <3>1 DEF Ingest
    <3>3. Settled(m)'
      BY <2>2, <2>3, <2>5 DEF Settled, Stored
    <3> QED
      BY <2>2, <3>2, <3>3 DEF WorkerKnows
  <2>6. CASE stream[m] \notin Invalid /\ log[stream[m]] = NULL
    <3>1. session'[w] = Ingest(stream[m], m)
      BY <1>0, <2>1, <2>6 DEF TypeOK
    <3>2. /\ session'[w].message = m /\ session'[w].event = stream[m]
          /\ session'[w].pc = "draw"
      BY <3>1 DEF Ingest
    <3> QED
      BY <2>2, <3>2 DEF WorkerKnows
  <2> QED
    BY <2>4, <2>5, <2>6
<1>3. CASE DrawId(w)
  <2>1. session[w] # NULL
    BY <1>3 DEF DrawId, At
  <2>2. session'[w] = [session[w] EXCEPT !.id = sequence + 1, !.pc = "insert"]
    BY <1>0, <1>3 DEF DrawId, TypeOK
  <2>3. /\ session'[w].message = session[w].message
        /\ session'[w].event = session[w].event
        /\ session'[w].pc = "insert"
    BY <1>0, <2>1, <2>2 DEF Session
  <2> QED
    BY <1>0, <2>1, <2>3, WorkerGoesOn
<1>4. CASE Insert(w)
  <2>1. session[w] # NULL /\ (Refuse(w, "unique") \/ Go(w, "commit"))
    BY <1>4 DEF Insert, At
  <2> QED
    BY <1>0, <2>1, GoFields, RefuseFields, WorkerGoesOn, FamilyEventsAssumption
<1>5. CASE Commit(w)
  <2>1. session[w] # NULL /\ Go(w, "ack") /\ session[w].event \in Stored'
    BY <1>0, <1>5, StoredGrows DEF Commit, Accept, At
  <2>2. stream[session[w].message] = session[w].event /\ stream' = stream
    BY <1>0, <1>5, <2>1 DEF WorkerKnows, Commit
  <2>3. Settled(session[w].message)'
    BY <1>0, <2>1, <2>2, GoFields DEF Settled
  <2> QED
    BY <1>0, <2>1, <2>3, GoFields, WorkerGoesOn
<1>6. CASE DeadLetter(w)
  <2>1. session[w] # NULL /\ Go(w, "ack")
    BY <1>6 DEF DeadLetter, At
  <2>2. [message |-> session[w].message, cause |-> session[w].cause] \in dead'
    BY <1>6 DEF DeadLetter
  <2>3. Settled(session[w].message)'
    BY <1>0, <2>1, <2>2, GoFields DEF Settled, DeadLettered
  <2> QED
    BY <1>0, <2>1, <2>3, GoFields, WorkerGoesOn
<1>7. CASE DeadLetterFails(w)
  <2>1. session[w] # NULL /\ Go(w, "ack")
    BY <1>7 DEF DeadLetterFails, At
  <2>2. Settled(session[w].message)'
    BY <1>0, <1>7, <2>1, GoFields DEF DeadLetterFails, Settled
  <2> QED
    BY <1>0, <2>1, <2>2, GoFields, WorkerGoesOn
<1>8. CASE Ack(w)
  BY <1>0, <1>8 DEF Ack, WorkerKnows, TypeOK
<1>9. CASE IngestFails(w)
  <2>1. session[w] # NULL /\ Refuse(w, "database")
    BY <1>9 DEF IngestFails, Ingesting, At
  <2> QED
    BY <1>0, <2>1, RefuseFields, WorkerGoesOn, FamilyEventsAssumption
<1> QED
  BY <1>1, <1>2, <1>3, <1>4, <1>5, <1>6, <1>7, <1>8, <1>9 DEF WorkerStep, IngestStep

\* The steps an ingester takes itself.
OwnStep(a) ==
  \/ IngestStep(a) \/ IngestFails(a)
  \/ a \in Workers /\ (WorkerStep(a) \/ DeadLetterFails(a))
  \/ a \in Callers /\ \E e \in Posted : PostEvent(a, e)

\* Nobody else touches its session, but for the death of its process.
LEMMA OthersKeep ==
  ASSUME TypeOK, [Next]_vars, NEW a \in Ingesters, ~ OwnStep(a)
  PROVE  session'[a] = session[a] \/ session'[a] = NULL
<1>1. ASSUME NEW b \in Ingesters, IngestStep(b) \/ IngestFails(b)
      PROVE  session'[a] = session[a]
  BY <1>1
  DEF OwnStep, IngestStep, IngestFails, DrawId, Insert, Commit, Accept, Refuse, Go, TypeOK
<1>2. ASSUME NEW w \in Workers,
             \/ Fetch(w) \/ Process(w) \/ DeadLetter(w) \/ DeadLetterFails(w)
             \/ Ack(w)
      PROVE  session'[a] = session[a]
  BY <1>2
  DEF OwnStep, WorkerStep, Fetch, Process, DeadLetter, DeadLetterFails, Ack, Go, TypeOK
<1>3. ASSUME NEW c \in Callers, NEW e \in Posted, PostEvent(c, e)
      PROVE  session'[a] = session[a]
  BY <1>3 DEF OwnStep, PostEvent, TypeOK
<1>4. ASSUME NEW P, Restart(P)
      PROVE  session'[a] = session[a] \/ session'[a] = NULL
  BY <1>4 DEF Restart
<1>5. ASSUME NEW e, PublishEvent(e)
      PROVE  session'[a] = session[a]
  BY <1>5 DEF PublishEvent
<1>6. ASSUME NEW m, AckTimeout(m)
      PROVE  session'[a] = session[a]
  BY <1>6 DEF AckTimeout
<1>7. CASE UNCHANGED vars
  BY <1>7 DEF vars
<1> QED
  BY <1>1, <1>2, <1>3, <1>4, <1>5, <1>6, <1>7 DEF Next, WorkerStep, Ingesters

LEMMA WorkersKnow ==
  ASSUME TypeOK, IngestInv, [Next]_vars, NEW w \in Workers
  PROVE  WorkerKnows(w)'
<1>1. Grows /\ w \in Ingesters /\ w \notin Callers /\ WorkerKnows(w)
  BY NextGrows, FamilyEventsAssumption DEF Ingesters, IngestInv
<1>2. CASE OwnStep(w)
  BY <1>1, <1>2, OwnStepKnows DEF OwnStep, WorkerStep
<1>3. CASE ~ OwnStep(w)
  <2>1. CASE session'[w] = session[w]
    BY <1>1, <2>1, WorkerKept
  <2>2. CASE session'[w] = NULL
    BY <2>2 DEF WorkerKnows
  <2> QED
    BY <1>1, <1>3, <2>1, <2>2, OthersKeep
<1> QED
  BY <1>2, <1>3

---------------------------------------------------------------------------
(* What an ingest stores was offered and is valid.                         *)

LEMMA OwnStepOffered ==
  ASSUME TypeOK, IngestInv, Grows, NEW a \in Ingesters, OwnStep(a)
  PROVE  IngestingOffered(a)'
<1>0. /\ IngestingOffered(a)
      /\ session[a] # NULL => session[a] \in Session
  BY DEF IngestInv, TypeOK
<1>1. CASE IngestStep(a) \/ IngestFails(a)
  <2>1. session[a] # NULL /\ Ingesting(a)
    BY <1>1 DEF IngestStep, IngestFails, Ingesting, DrawId, Insert, Commit, At
  <2>2. session[a].event \in offered \ Invalid
    BY <1>0, <2>1 DEF IngestingOffered
  <2>3. session'[a] # NULL => session'[a].event = session[a].event
    <3>1. CASE DrawId(a)
      <4>1. session'[a] = [session[a] EXCEPT !.id = sequence + 1, !.pc = "insert"]
        BY <3>1 DEF DrawId, TypeOK
      <4> QED
        BY <1>0, <2>1, <4>1 DEF Session
    <3>2. ASSUME NEW pc, Go(a, pc)
          PROVE  session'[a].event = session[a].event
      BY <2>1, <3>2, GoFields
    <3>3. ASSUME session' = [session EXCEPT ![a] = NULL]
          PROVE  session'[a] = NULL
      BY <3>3 DEF TypeOK
    <3>4. ASSUME NEW cause, Refuse(a, cause)
          PROVE  session'[a] # NULL => session'[a].event = session[a].event
      <4>1. CASE a \in Workers
        BY <2>1, <3>4, <4>1, RefuseFields
      <4>2. CASE a \notin Workers
        BY <3>3, <3>4, <4>2 DEF Refuse
      <4> QED
        BY <4>1, <4>2
    <3> QED
      BY <1>1, <3>1, <3>2, <3>3, <3>4
      DEF IngestStep, IngestFails, Insert, Commit, Accept
  <2> QED
    BY <2>2, <2>3 DEF Grows, IngestingOffered, Ingesting, At
<1>2. CASE a \in Workers /\ Process(a)
  <2>1. PICK m \in batch[a] :
          session' = [session EXCEPT ![a] =
               IF stream[m] \in Invalid
               THEN [Ingest(stream[m], m) EXCEPT !.pc = "reject", !.cause = "invalid"]
               ELSE IF log[stream[m]] # NULL
               THEN [Ingest(stream[m], m) EXCEPT !.pc = "ack"]
               ELSE Ingest(stream[m], m)]
    BY <1>2 DEF Process
  <2>2. stream[m] \in offered
    BY <1>2, <2>1 DEF IngestInv, BatchPublished, StreamOffered, TypeOK
  <2>3. CASE stream[m] \in Invalid
    <3>1. session'[a] =
            [Ingest(stream[m], m) EXCEPT !.pc = "reject", !.cause = "invalid"]
      BY <2>1, <2>3 DEF TypeOK
    <3> QED
      BY <3>1 DEF IngestingOffered, Ingesting, At, Ingest
  <2>4. CASE stream[m] \notin Invalid
    <3>1. session'[a].event = stream[m]
      BY <2>1, <2>4 DEF TypeOK, Ingest
    <3> QED
      BY <2>2, <2>4, <3>1 DEF IngestingOffered, Grows
  <2> QED
    BY <2>3, <2>4
<1>3. CASE a \in Workers /\ Fetch(a)
  BY <1>0, <1>3 DEF Fetch, IngestingOffered, Ingesting, At
<1>4. CASE a \in Workers /\ (DeadLetter(a) \/ DeadLetterFails(a))
  <2>1. session[a] # NULL /\ Go(a, "ack")
    BY <1>4 DEF DeadLetter, DeadLetterFails, At
  <2>2. session'[a].pc = "ack"
    BY <2>1, GoFields
  <2> QED
    BY <2>2 DEF IngestingOffered, Ingesting, At
<1>5. CASE a \in Workers /\ Ack(a)
  BY <1>5 DEF Ack, IngestingOffered, Ingesting, At, TypeOK
<1>6. CASE a \in Callers /\ \E e \in Posted : PostEvent(a, e)
  <2>1. PICK e \in Posted : PostEvent(a, e)
    BY <1>6
  <2>2. CASE session' = session
    BY <1>0, <2>1, <2>2 DEF PostEvent, IngestingOffered, Ingesting, At
  <2>3. CASE session' = [session EXCEPT ![a] = Ingest(e, NULL)]
    BY <2>1, <2>3 DEF PostEvent, IngestingOffered, Ingest, TypeOK
  <2> QED
    BY <2>1, <2>2, <2>3 DEF PostEvent
<1> QED
  BY <1>1, <1>2, <1>3, <1>4, <1>5, <1>6 DEF OwnStep, WorkerStep, IngestStep

LEMMA IngestingsOffered ==
  ASSUME TypeOK, IngestInv, [Next]_vars, NEW a \in Ingesters
  PROVE  IngestingOffered(a)'
<1>1. Grows /\ IngestingOffered(a)
  BY NextGrows DEF IngestInv
<1>2. CASE OwnStep(a)
  BY <1>1, <1>2, OwnStepOffered
<1>3. CASE ~ OwnStep(a)
  BY <1>1, <1>3, OthersKeep DEF Grows, IngestingOffered, Ingesting, At
<1> QED
  BY <1>2, <1>3

---------------------------------------------------------------------------
(* No two open inserts clash.                                              *)

\* A step that opens no insert and writes no row.
LEMMA OpenFrame ==
  ASSUME IngestInv, log' = log,
         \A b \in Ingesters : At(b, "commit")' => session'[b] = session[b]
  PROVE  \A a \in Ingesters : OpenDistinct(a)'
  BY DEF IngestInv, OpenDistinct, At

LEMMA RefuseOpens ==
  ASSUME TypeOK, IngestInv, NEW c \in Ingesters, session[c] # NULL, NEW cause,
         Refuse(c, cause), log' = log
  PROVE  \A a \in Ingesters : OpenDistinct(a)'
<1>1. ~ At(c, "commit")'
  <2>1. CASE c \in Workers
    BY <2>1, RefuseFields DEF At
  <2>2. CASE c \notin Workers
    BY <2>2 DEF Refuse, At, TypeOK
  <2> QED
    BY <2>1, <2>2
<1>2. \A b \in Ingesters \ {c} : session'[b] = session[b]
  BY DEF Refuse, TypeOK
<1> QED
  BY <1>1, <1>2, OpenFrame

LEMMA InsertOpens ==
  ASSUME TypeOK, IngestInv, NEW c \in Ingesters, Insert(c)
  PROVE  \A a \in Ingesters : OpenDistinct(a)'
<1>1. session[c] # NULL /\ log' = log
  BY DEF Insert, At
<1>2. CASE log[session[c].event] # NULL \/ \E e \in Events : log[e] = session[c].id
  BY <1>1, <1>2, RefuseOpens DEF Insert
<1>3. CASE ~ (log[session[c].event] # NULL \/ \E e \in Events : log[e] = session[c].id)
  <2>1. /\ session'[c].event = session[c].event /\ session'[c].id = session[c].id
        /\ \A b \in Ingesters \ {c} : session'[b] = session[b]
    BY <1>1, <1>3, GoFields DEF Insert
  <2>2. \A b \in Ingesters :
          At(b, "commit") => /\ session[b].event # session[c].event
                             /\ session[b].id # session[c].id
    BY DEF Insert
  <2> SUFFICES ASSUME NEW a \in Ingesters, At(a, "commit")'
               PROVE  /\ log[session'[a].event] = NULL
                      /\ \A e \in Events : log[e] # session'[a].id
                      /\ \A b \in Ingesters \ {a} : At(b, "commit")' =>
                           /\ session'[a].event # session'[b].event
                           /\ session'[a].id # session'[b].id
    BY <1>1 DEF OpenDistinct
  <2>3. CASE a = c
    BY <1>3, <2>1, <2>2, <2>3 DEF At
  <2>4. CASE a # c
    <3>1. OpenDistinct(a) /\ At(a, "commit")
      BY <2>1, <2>4 DEF IngestInv, At
    <3> QED
      BY <2>1, <2>2, <2>4, <3>1 DEF OpenDistinct, At
  <2> QED
    BY <2>3, <2>4
<1> QED
  BY <1>2, <1>3

\* The row of one is written: it is no row of the others.
LEMMA WriteOpens ==
  ASSUME TypeOK, IngestInv, NEW c \in Ingesters, At(c, "commit"),
         log' = [log EXCEPT ![session[c].event] = session[c].id],
         ~ At(c, "commit")',
         \A b \in Ingesters \ {c} : session'[b] = session[b]
  PROVE  \A a \in Ingesters : OpenDistinct(a)'
<1> SUFFICES ASSUME NEW a \in Ingesters, At(a, "commit")'
             PROVE  /\ log'[session'[a].event] = NULL
                    /\ \A e \in Events : log'[e] # session'[a].id
                    /\ \A b \in Ingesters \ {a} : At(b, "commit")' =>
                         /\ session'[a].event # session'[b].event
                         /\ session'[a].id # session'[b].id
  BY DEF OpenDistinct
<1>1. a # c /\ session'[a] = session[a] /\ At(a, "commit") /\ OpenDistinct(a)
  BY DEF At, IngestInv
<1>2. session[a].event # session[c].event /\ session[a].id # session[c].id
  BY <1>1 DEF OpenDistinct
<1>3. log'[session'[a].event] = NULL
  BY <1>1, <1>2 DEF OpenDistinct, TypeOK, Session, At
<1>4. \A e \in Events : log'[e] # session'[a].id
  BY <1>1, <1>2 DEF OpenDistinct, TypeOK
<1> QED
  BY <1>1, <1>3, <1>4 DEF OpenDistinct, At

LEMMA OpensDistinct ==
  ASSUME TypeOK, IngestInv, [Next]_vars
  PROVE  \A a \in Ingesters : OpenDistinct(a)'
<1>1. ASSUME NEW c \in Ingesters, DrawId(c)
      PROVE  \A a \in Ingesters : OpenDistinct(a)'
  <2>1. session'[c] = [session[c] EXCEPT !.id = sequence + 1, !.pc = "insert"]
    BY <1>1 DEF DrawId, TypeOK
  <2>2. session[c] \in Session
    BY <1>1 DEF DrawId, At, TypeOK
  <2>3. ~ At(c, "commit")'
    BY <2>1, <2>2 DEF At, Session
  <2>4. log' = log /\ \A b \in Ingesters \ {c} : session'[b] = session[b]
    BY <1>1 DEF DrawId, TypeOK
  <2> QED
    BY <2>3, <2>4, OpenFrame
<1>2. ASSUME NEW c \in Ingesters, Commit(c)
      PROVE  \A a \in Ingesters : OpenDistinct(a)'
  <2>1. session[c] # NULL
    BY <1>2 DEF Commit, At
  <2>2. /\ ~ At(c, "commit")'
        /\ \A b \in Ingesters \ {c} : session'[b] = session[b]
    <3>1. CASE c \in Workers
      BY <1>2, <2>1, <3>1, GoFields DEF Commit, Accept, At
    <3>2. CASE c \notin Workers
      BY <1>2, <3>2 DEF Commit, Accept, At, TypeOK
    <3> QED
      BY <3>1, <3>2
  <2> QED
    BY <1>2, <2>2, WriteOpens DEF Commit
<1>3. ASSUME NEW c \in Ingesters, IngestFails(c)
      PROVE  \A a \in Ingesters : OpenDistinct(a)'
  <2>1. session[c] # NULL /\ Refuse(c, "database")
    BY <1>3 DEF IngestFails, Ingesting, At
  <2>2. CASE log' = log
    BY <2>1, <2>2, RefuseOpens
  <2>3. CASE /\ At(c, "commit")
             /\ log' = [log EXCEPT ![session[c].event] = session[c].id]
    <3>1. ~ At(c, "commit")'
      <4>1. CASE c \in Workers
        BY <2>1, <4>1, RefuseFields DEF At
      <4>2. CASE c \notin Workers
        BY <2>1, <4>2 DEF Refuse, At, TypeOK
      <4> QED
        BY <4>1, <4>2
    <3>2. \A b \in Ingesters \ {c} : session'[b] = session[b]
      BY <2>1 DEF Refuse, TypeOK
    <3> QED
      BY <2>3, <3>1, <3>2, WriteOpens
  <2> QED
    BY <1>3, <2>2, <2>3 DEF IngestFails
<1>4. ASSUME NEW w \in Workers, Process(w)
      PROVE  \A a \in Ingesters : OpenDistinct(a)'
  <2>1. session[w] = NULL /\ log' = log /\ w \in Ingesters
    BY <1>4 DEF Process, Ingesters
  <2>2. PICK m \in batch[w] :
          session' = [session EXCEPT ![w] =
               IF stream[m] \in Invalid
               THEN [Ingest(stream[m], m) EXCEPT !.pc = "reject", !.cause = "invalid"]
               ELSE IF log[stream[m]] # NULL
               THEN [Ingest(stream[m], m) EXCEPT !.pc = "ack"]
               ELSE Ingest(stream[m], m)]
    BY <1>4 DEF Process
  <2>3. session'[w].pc \in {"reject", "ack", "draw"}
    BY <2>1, <2>2 DEF Ingest, TypeOK
  <2>4. \A b \in Ingesters \ {w} : session'[b] = session[b]
    BY <2>2 DEF TypeOK
  <2> QED
    BY <2>1, <2>3, <2>4, OpenFrame DEF At
<1>5. ASSUME NEW w \in Workers, DeadLetter(w) \/ DeadLetterFails(w)
      PROVE  \A a \in Ingesters : OpenDistinct(a)'
  <2>1. session[w] # NULL /\ Go(w, "ack") /\ log' = log /\ w \in Ingesters
    BY <1>5 DEF DeadLetter, DeadLetterFails, At, Ingesters
  <2>2. /\ session'[w].pc = "ack"
        /\ \A b \in Ingesters \ {w} : session'[b] = session[b]
    BY <2>1, GoFields
  <2> QED
    BY <2>1, <2>2, OpenFrame DEF At
<1>6. ASSUME NEW w \in Workers, Ack(w)
      PROVE  \A a \in Ingesters : OpenDistinct(a)'
  BY <1>6, OpenFrame DEF Ack, At, TypeOK, Ingesters
<1>7. ASSUME NEW c \in Callers, NEW e \in Posted, PostEvent(c, e)
      PROVE  \A a \in Ingesters : OpenDistinct(a)'
  <2>1. CASE session' = session
    BY <1>7, <2>1, OpenFrame DEF PostEvent
  <2>2. CASE session' = [session EXCEPT ![c] = Ingest(e, NULL)]
    BY <1>7, <2>2, OpenFrame DEF PostEvent, At, Ingest, TypeOK, Ingesters
  <2> QED
    BY <1>7, <2>1, <2>2 DEF PostEvent
<1>8. ASSUME NEW P, Restart(P)
      PROVE  \A a \in Ingesters : OpenDistinct(a)'
  BY <1>8, OpenFrame DEF Restart, At
<1>9. CASE log' = log /\ session' = session
  BY <1>9, OpenFrame
<1> QED
  BY <1>1, <1>2, <1>3, <1>4, <1>5, <1>6, <1>7, <1>8, <1>9, InsertOpens
  DEF Next, WorkerStep, IngestStep, Ingesters, Fetch, PublishEvent, AckTimeout, vars

---------------------------------------------------------------------------
(* The theorems                                                            *)

LEMMA InitInv == Init => IngestInv
  BY FamilyEventsAssumption
  DEF Init, IngestInv, StreamOffered, BatchPublished, WorkerKnows, IngestingOffered,
      Ingesting, OpenDistinct, At, Ingesters

LEMMA NextInv == TypeOK /\ IngestInv /\ [Next]_vars => IngestInv'
<1> SUFFICES ASSUME TypeOK, IngestInv, [Next]_vars PROVE IngestInv'
  OBVIOUS
<1> QED
  BY StreamStays, WorkersKnow, IngestingsOffered, OpensDistinct DEF IngestInv

\* Types, and what the ingests under way rely on: the message in hand is the
\* one that was fetched and is settled before it is acknowledged, an event
\* that is being stored was offered and is valid, and an open INSERT clashes
\* with no row and no other open INSERT, after any deaths and redeliveries.
THEOREM IngestsAreSound == Spec => [](TypeOK /\ IngestInv)
<1>1. Init => TypeOK /\ IngestInv
  BY InitType, InitInv
<1>2. TypeOK /\ IngestInv /\ [Next]_vars => (TypeOK /\ IngestInv)'
  BY NextType, NextInv
<1> QED
  BY <1>1, <1>2, PTL DEF Spec

LEMMA NextSettled == TypeOK /\ IngestInv /\ AckedSettled /\ [Next]_vars => AckedSettled'
<1> SUFFICES ASSUME TypeOK, IngestInv, AckedSettled, [Next]_vars,
                    NEW m \in Messages, delivery'[m] = "acked"
             PROVE  Settled(m)'
  BY DEF AckedSettled
<1>1. Grows
  BY NextGrows
<1>2. CASE delivery[m] = "acked"
  <2>1. Settled(m)
    BY <1>2 DEF AckedSettled
  <2>2. CASE stream[m] # NULL
    BY <1>1, <2>1, <2>2, SettledStays
  <2>3. CASE stream[m] = NULL
    <3>1. m \in DeadLettered \/ m \in failed
      BY <2>1, <2>3, NullFacts DEF Settled, Stored
    <3> QED
      BY <1>1, <3>1 DEF Grows, Settled, DeadLettered
  <2> QED
    BY <2>2, <2>3
<1>3. CASE delivery[m] # "acked"
  <2>1. delivery' # delivery
    BY <1>3
  <2>2. PICK w \in Workers : Ack(w)
    <3>1. ASSUME NEW n \in Messages, AckTimeout(n)
          PROVE  FALSE
      BY <1>3, <3>1 DEF AckTimeout, TypeOK
    <3>2. ASSUME NEW w \in Workers, Fetch(w)
          PROVE  FALSE
      BY <1>3, <3>2 DEF Fetch, TypeOK
    <3> QED
      BY <2>1, <3>1, <3>2
      DEF Next, vars, WorkerStep, IngestStep, PublishEvent, Process, DrawId, Insert,
          Commit, DeadLetter, DeadLetterFails, Restart, PostEvent, IngestFails
  <2>3. m = session[w].message
    BY <1>3, <2>2 DEF Ack, TypeOK
  <2>4. Settled(m) /\ stream[m] # NULL
    <3>1. WorkerKnows(w) /\ At(w, "ack") /\ session[w] \in Session
      BY <2>2 DEF IngestInv, Ack, At, TypeOK, Ingesters
    <3> QED
      BY <2>3, <3>1, NullFacts DEF WorkerKnows, At, Session
  <2> QED
    BY <1>1, <2>4, SettledStays
<1> QED
  BY <1>2, <1>3

\* A message leaves the stream only after its event has a row or it has a
\* dead letter or was logged as a failure: two workers with the same message,
\* deaths, redeliveries and refused statements lose nothing silently.
THEOREM NothingUnsettledLeaves == Spec => []AckedSettled
<1>1. Init => AckedSettled
  BY DEF Init, AckedSettled
<1> QED
  BY <1>1, NextSettled, IngestsAreSound, PTL DEF Spec

LEMMA NextCreated == TypeOK /\ CreatedIsStored /\ [Next]_vars => CreatedIsStored'
<1> SUFFICES ASSUME TypeOK, CreatedIsStored, [Next]_vars PROVE CreatedIsStored'
  OBVIOUS
<1>1. Grows
  BY NextGrows
<1>2. CASE created' = created
  BY <1>1, <1>2 DEF Grows, CreatedIsStored
<1>3. ASSUME NEW c \in Callers, NEW e \in Posted, PostEvent(c, e)
      PROVE  CreatedIsStored'
  <2>1. e \in Events
    BY FamilyEventsAssumption
  <2>2. created' \subseteq created \cup {e} /\ (created' # created => log[e] # NULL)
    BY <1>3 DEF PostEvent
  <2>3. created' \subseteq Stored
    BY <2>1, <2>2 DEF CreatedIsStored, Stored
  <2> QED
    BY <1>1, <2>3 DEF Grows, CreatedIsStored
<1>4. ASSUME NEW a \in Ingesters, Commit(a)
      PROVE  CreatedIsStored'
  <2>1. session[a].event \in Stored'
    BY <1>4, StoredGrows DEF Commit, At
  <2>2. created' \subseteq created \cup {session[a].event}
    BY <1>4 DEF Commit, Accept
  <2> QED
    BY <1>1, <2>1, <2>2 DEF Grows, CreatedIsStored
<1> QED
  BY <1>2, <1>3, <1>4
  DEF Next, vars, WorkerStep, IngestStep, PublishEvent, AckTimeout, Fetch, Process,
      DrawId, Insert, DeadLetter, DeadLetterFails, Ack, Restart, IngestFails, Ingesters

\* Whoever was answered 201 finds the event in the store from then on.
THEOREM CreatedKept == Spec => []CreatedIsStored
<1>1. Init => CreatedIsStored
  BY DEF Init, CreatedIsStored
<1> QED
  BY <1>1, NextCreated, IngestsAreSound, PTL DEF Spec

LEMMA WriteRecords ==
  ASSUME TypeOK, IngestInv, NEW a \in Ingesters, At(a, "commit"),
         log' = [log EXCEPT ![session[a].event] = session[a].id], offered' = offered
  PROVE  Log!Next
<1>1. session[a].event \in Events /\ session[a].id \in Nat
  BY DEF At, TypeOK, Session
<1>2. session[a].event \in offered \ Invalid
  BY DEF IngestInv, IngestingOffered, Ingesting
<1>3. log[session[a].event] = NULL /\ \A d \in Events : log[d] # session[a].id
  BY DEF IngestInv, OpenDistinct
<1>4. log'[session[a].event] = session[a].id
  BY <1>1 DEF TypeOK
<1>5. Log!Record(session[a].event)
  BY <1>1, <1>2, <1>3, <1>4 DEF Log!Record
<1> QED
  BY <1>1, <1>5 DEF Log!Next

LEMMA NextLog == TypeOK /\ IngestInv /\ [Next]_vars => [Log!Next]_(Log!logVars)
<1> SUFFICES ASSUME TypeOK, IngestInv, [Next]_vars PROVE [Log!Next]_(Log!logVars)
  OBVIOUS
<1>1. ASSUME NEW e \in Published, PublishEvent(e)
      PROVE  Log!Next
  BY <1>1, FamilyEventsAssumption DEF PublishEvent, Log!Next, Log!Offer
<1>2. ASSUME NEW c \in Callers, NEW e \in Posted, PostEvent(c, e)
      PROVE  Log!Next
  BY <1>2, FamilyEventsAssumption DEF PostEvent, Log!Next, Log!Offer
<1>3. ASSUME NEW a \in Ingesters, Commit(a)
      PROVE  Log!Next
  BY <1>3, WriteRecords DEF Commit
<1>4. ASSUME NEW a \in Ingesters, IngestFails(a)
      PROVE  [Log!Next]_(Log!logVars)
  BY <1>4, WriteRecords DEF IngestFails, Log!logVars
<1>5. CASE log' = log /\ offered' = offered
  BY <1>5 DEF Log!logVars
<1> QED
  BY <1>1, <1>2, <1>3, <1>4, <1>5
  DEF Next, vars, WorkerStep, IngestStep, AckTimeout, Fetch, Process, DrawId, Insert,
      DeadLetter, DeadLetterFails, Ack, Restart, Ingesters

\* Whatever the workers and requests do, a reader sees the abstract log: each
\* offered valid event at most once, under an identity of its own, for good.
THEOREM StoreIsLog == Spec => StoreImplementsLog
<1>1. Init => Log!Init
  BY DEF Init, Log!Init
<1> QED
  BY <1>1, NextLog, IngestsAreSound, PTL DEF Spec, StoreImplementsLog, Log!Spec

---------------------------------------------------------------------------
(* Where the events of tasks come from, beside the ingest (MCFamilyEvents) *)

\* A Vikunja task that is there.
Present(tasks) == {t \in Tasks : tasks[t] \notin {NULL, GONE}}

\* What a sweep publishes of the last change of a task.
LastChange(t, row) == TaskLog!Build("vikunja-sweep-updated", "task.updated", t, row)

\* The last changes before a time are in a set of events.
Told(tasks, until, events) ==
  \A t \in Present(tasks) : tasks[t].updated < until => LastChange(t, tasks[t]) \in events

TasksOK(tasks, time) ==
  /\ time \in 0..MaxTime
  /\ DOMAIN tasks = Tasks
  /\ \A t \in Tasks : tasks[t] \in TaskLog!Row \cup {NULL, GONE}

CallsOK(calls) ==
  \A c \in calls : c.name \in TaskLog!Names /\ c.task \in Tasks /\ c.row \in TaskLog!Row

\* A sweep began after the last one that published everything; unless it failed to, what
\* was changed before it began is told, or among what it is to publish.
SweepOK(sw, tasks, time, told, swt) ==
  /\ DOMAIN sw = {"began", "events", "failed"}
  /\ sw.began \in Nat /\ swt <= sw.began /\ sw.began <= time
  /\ sw.events \subseteq TaskLog!Event /\ sw.failed \in BOOLEAN
  /\ ~sw.failed => Told(tasks, sw.began, told \cup sw.events)

\* A registration that nothing overtook is to delete every webhook there is, and no other
\* run is in progress.
EnsureOK(runs, hooks) ==
  /\ DOMAIN runs = Runs /\ DOMAIN hooks = HookIds
  /\ \A r \in Runs : runs[r] # NULL =>
       /\ DOMAIN runs[r] = {"left", "alone"} /\ runs[r].left \subseteq HookIds
       /\ runs[r].alone => /\ \A q \in Runs \ {r} : runs[q] = NULL
                           /\ \A h \in HookIds : hooks[h] # NULL => h \in runs[r].left

SweepsInv ==
  /\ TasksOK(task, now) /\ CallsOK(webhooks)
  /\ table \cup bus \subseteq TaskLog!Event
  /\ swept \in Nat /\ swept <= now /\ now <= swept + Lookback
  /\ Told(task, swept, table \cup bus)
  /\ sweep # NULL => SweepOK(sweep, task, now, table \cup bus, swept)

TaskInv == SweepsInv /\ EnsureOK(ensure, hook)

\* The bounds of the clock and of the window.
LEMMA TaskConstants == MaxTime \in Nat /\ Lookback \in Nat \ {0}
BY TasksAssumption DEF TaskLog!TaskEventsAssumption

\* Every event that is built is one the log may hold.
LEMMA BuildTyped ==
  ASSUME NEW src \in {"vikunja-webhook", "vikunja-sweep-created", "vikunja-sweep-updated"},
         NEW name \in TaskLog!Names, NEW t \in Tasks, NEW r \in TaskLog!Row
  PROVE  TaskLog!Build(src, name, t, r) \in TaskLog!Event
<1>1. TaskLog!CanonicalType(name, r) \in {"task.created", "task.updated", "task.completed",
                                        "task.deleted", "task.assigned"}
  BY DEF TaskLog!CanonicalType, TaskLog!Names
<1>2. r.created \in 0..MaxTime /\ r.updated \in 0..MaxTime
  BY DEF TaskLog!Row
<1> QED
  BY <1>1, <1>2 DEF TaskLog!Build, TaskLog!Event

\* What was told stays told when events are only added and a change is of now.
LEMMA ToldMore ==
  ASSUME NEW tasks, NEW until, NEW events, NEW more, Told(tasks, until, events),
         events \subseteq more
  PROVE  Told(tasks, until, more)
BY DEF Told

\* A change of now is no change of before a time that has come.
LEMMA ToldChanged ==
  ASSUME NEW tasks, NEW time, NEW until, NEW events, NEW t \in Tasks, NEW next,
         Told(tasks, until, events), TasksOK(tasks, time), until \in Nat, until <= time,
         next = GONE \/ (next \in TaskLog!Row /\ (next.updated = time))
  PROVE  Told([tasks EXCEPT ![t] = next], until, events)
<1> DEFINE later == [tasks EXCEPT ![t] = next]
<1> SUFFICES ASSUME NEW u \in Present(later), later[u].updated < until
             PROVE  LastChange(u, later[u]) \in events
  BY DEF Told
<1>1. u \in Tasks /\ later[u] \notin {NULL, GONE} /\ DOMAIN tasks = Tasks
  BY DEF Present, TasksOK
<1>2. CASE u = t
  <2>1. later[u] = next /\ next # GONE
    BY <1>1, <1>2
  <2>2. next.updated = time /\ time \in Int
    BY <2>1 DEF TasksOK
  <2> QED
    BY <2>1, <2>2
<1>3. CASE u # t
  <2>1. later[u] = tasks[u]
    BY <1>1, <1>3
  <2> QED
    BY <1>1, <2>1 DEF Told, Present
<1> QED
  BY <1>2, <1>3

\* A task is made, changed or deleted.
LEMMA ChangeStep ==
  ASSUME SweepsInv, NEW t \in Tasks,
         TaskLog!CreateTask(t) \/ TaskLog!UpdateTask(t) \/ TaskLog!DeleteTask(t)
  PROVE  SweepsInv' /\ UNCHANGED <<ensure, hook>>
<1>0. now \in 0..MaxTime /\ now \in Nat /\ TasksOK(task, now)
  BY TaskConstants DEF SweepsInv, TasksOK
<1>1. PICK name \in TaskLog!Names : \E r \in TaskLog!Row : \E next :
        /\ next = GONE \/ (next \in TaskLog!Row /\ next.updated = now)
        /\ TaskLog!Change(name, t, r, next)
  <2>1. CASE TaskLog!CreateTask(t)
    <3> DEFINE r == [created |-> now, updated |-> now, done |-> FALSE]
    <3>1. TaskLog!Change("task.created", t, r, r)
      BY <2>1 DEF TaskLog!CreateTask
    <3>2. r \in TaskLog!Row /\ r.updated = now
      BY <1>0 DEF TaskLog!Row
    <3>3. "task.created" \in TaskLog!Names
      BY DEF TaskLog!Names
    <3> QED
      BY <3>1, <3>2, <3>3
  <2>2. CASE TaskLog!UpdateTask(t)
    <3>1. PICK name \in {"task.updated", "task.assignee.created"}, done \in BOOLEAN :
            TaskLog!Change(name, t, [task[t] EXCEPT !.updated = now, !.done = done],
                           [task[t] EXCEPT !.updated = now, !.done = done])
      BY <2>2 DEF TaskLog!UpdateTask
    <3> DEFINE r == [task[t] EXCEPT !.updated = now, !.done = done]
    <3>2. task[t] \in TaskLog!Row
      BY <1>0, <2>2 DEF TaskLog!UpdateTask, TaskLog!There, TasksOK
    <3>3. r \in TaskLog!Row /\ r.updated = now
      BY <1>0, <3>2 DEF TaskLog!Row
    <3>4. name \in TaskLog!Names
      BY DEF TaskLog!Names
    <3> QED
      BY <3>1, <3>3, <3>4
  <2>3. CASE TaskLog!DeleteTask(t)
    <3>1. TaskLog!Change("task.deleted", t, task[t], GONE)
      BY <2>3 DEF TaskLog!DeleteTask
    <3>2. task[t] \in TaskLog!Row
      BY <1>0, <2>3 DEF TaskLog!DeleteTask, TaskLog!There, TasksOK
    <3>3. "task.deleted" \in TaskLog!Names
      BY DEF TaskLog!Names
    <3> QED
      BY <3>1, <3>2, <3>3
  <2> QED
    BY <2>1, <2>2, <2>3
<1>2. PICK r \in TaskLog!Row : \E next :
        /\ next = GONE \/ (next \in TaskLog!Row /\ next.updated = now)
        /\ TaskLog!Change(name, t, r, next)
  BY <1>1
<1>3. PICK next : /\ next = GONE \/ (next \in TaskLog!Row /\ next.updated = now)
                  /\ TaskLog!Change(name, t, r, next)
  BY <1>2
<1>4. /\ task' = [task EXCEPT ![t] = next]
      /\ webhooks' \subseteq webhooks \cup {[name |-> name, task |-> t, row |-> r]}
      /\ UNCHANGED <<now, hook, bus, table, ensure, sweep, swept>>
  BY <1>3 DEF TaskLog!Change
<1>5. TasksOK(task', now)
  BY <1>0, <1>3, <1>4 DEF TasksOK
<1>6. CallsOK(webhooks')
  <2> DEFINE c == [name |-> name, task |-> t, row |-> r]
  <2>1. c.name \in TaskLog!Names /\ c.task \in Tasks /\ c.row \in TaskLog!Row
    OBVIOUS
  <2> HIDE DEF c
  <2> QED
    BY <1>4, <2>1 DEF CallsOK, SweepsInv, c
<1>7. ASSUME NEW until \in Nat, until <= now, NEW events, Told(task, until, events)
      PROVE  Told(task', until, events)
  BY <1>0, <1>3, <1>4, <1>7, ToldChanged
<1>8. Told(task', swept, table \cup bus)
  BY <1>7 DEF SweepsInv
<1>9. sweep # NULL => SweepOK(sweep, task', now, table \cup bus, swept)
  BY <1>7 DEF SweepsInv, SweepOK
<1> QED
  BY <1>4, <1>5, <1>6, <1>8, <1>9 DEF SweepsInv

\* The clock moves no further from the last sweep than the window reaches.
LEMMA TickStep ==
  ASSUME SweepsInv, TaskLog!Tick
  PROVE  SweepsInv' /\ UNCHANGED <<ensure, hook>>
<1>1. /\ now < MaxTime /\ now < swept + Lookback /\ now' = now + 1
      /\ UNCHANGED <<task, hook, webhooks, bus, table, ensure, sweep, swept>>
  BY DEF TaskLog!Tick
<1>2. now \in 0..MaxTime /\ now \in Nat /\ swept \in Nat
  BY TaskConstants DEF SweepsInv, TasksOK
<1>3. TasksOK(task, now')
  BY <1>1, <1>2, TaskConstants DEF SweepsInv, TasksOK
<1>4. swept <= now' /\ now' <= swept + Lookback
  BY <1>1, <1>2, TaskConstants DEF SweepsInv
<1>5. sweep # NULL => SweepOK(sweep, task, now', table \cup bus, swept)
  BY <1>1, <1>2 DEF SweepsInv, SweepOK
<1> QED
  BY <1>1, <1>3, <1>4, <1>5 DEF SweepsInv

\* Events are stored, published or lost; none that was told is taken back.
LEMMA EventsStep ==
  ASSUME SweepsInv, TaskLog!IngestWebhook \/ TaskLog!LoseCall \/ TaskLog!Store
  PROVE  SweepsInv' /\ UNCHANGED <<ensure, hook>>
<1>1. /\ UNCHANGED <<now, task, hook, ensure, sweep, swept>>
      /\ webhooks' \subseteq webhooks
      /\ table \cup bus \subseteq table' \cup bus'
      /\ table' \cup bus' \subseteq TaskLog!Event
  <2>1. CASE TaskLog!IngestWebhook
    <3>1. PICK c \in webhooks :
            /\ webhooks' = webhooks \ {c}
            /\ table' = table \cup {TaskLog!Build("vikunja-webhook", c.name, c.task, c.row)}
            /\ UNCHANGED <<now, task, hook, bus, ensure, sweep, swept>>
      BY <2>1 DEF TaskLog!IngestWebhook
    <3>2. c.name \in TaskLog!Names /\ c.task \in Tasks /\ c.row \in TaskLog!Row
      BY DEF SweepsInv, CallsOK
    <3>3. TaskLog!Build("vikunja-webhook", c.name, c.task, c.row) \in TaskLog!Event
      BY <3>2, BuildTyped
    <3> QED
      BY <3>1, <3>3 DEF SweepsInv
  <2>2. CASE TaskLog!LoseCall
    BY <2>2 DEF TaskLog!LoseCall, SweepsInv
  <2>3. CASE TaskLog!Store
    BY <2>3 DEF TaskLog!Store, SweepsInv
  <2> QED
    BY <2>1, <2>2, <2>3
<1>2. Told(task, swept, table' \cup bus')
  BY <1>1, ToldMore DEF SweepsInv
<1>3. ASSUME sweep # NULL
      PROVE  SweepOK(sweep, task, now, table' \cup bus', swept)
  <2>1. SweepOK(sweep, task, now, table \cup bus, swept)
    BY <1>3 DEF SweepsInv
  <2>2. table \cup bus \cup sweep.events \subseteq table' \cup bus' \cup sweep.events
    BY <1>1
  <2>3. ~sweep.failed => Told(task, sweep.began, table' \cup bus' \cup sweep.events)
    BY <2>1, <2>2, ToldMore DEF SweepOK
  <2> QED
    BY <2>1, <2>3 DEF SweepOK
<1>4. CallsOK(webhooks')
  BY <1>1 DEF SweepsInv, CallsOK
<1> QED
  BY <1>1, <1>2, <1>3, <1>4 DEF SweepsInv

\* A sweep finds what was changed within the window and is not told; what was changed
\* before the window was told when the last sweep ended.
LEMMA BeginSweepStep ==
  ASSUME SweepsInv, TaskLog!BeginSweep
  PROVE  SweepsInv' /\ UNCHANGED <<ensure, hook>>
<1> DEFINE sw == [began |-> now, events |-> TaskLog!Found \ table, failed |-> FALSE]
<1>1. sweep' = sw /\ UNCHANGED <<now, task, hook, webhooks, bus, table, ensure, swept>>
  BY DEF TaskLog!BeginSweep
<1>2. now \in 0..MaxTime /\ now \in Nat /\ swept \in Nat /\ swept <= now /\ now <= swept + Lookback
  BY TaskConstants DEF SweepsInv, TasksOK
<1>3. ASSUME NEW t \in Present(task)
      PROVE  /\ t \in Tasks /\ task[t] \in TaskLog!Row
             /\ task[t].updated \in Nat
             /\ TaskLog!Build("vikunja-sweep-created", "task.created", t, task[t]) \in TaskLog!Event
             /\ LastChange(t, task[t]) \in TaskLog!Event
  <2>1. t \in Tasks /\ task[t] \in TaskLog!Row
    BY DEF Present, SweepsInv, TasksOK
  <2>2. task[t].updated \in Nat
    BY <2>1, TaskConstants DEF TaskLog!Row
  <2>3. {"task.created", "task.updated"} \subseteq TaskLog!Names
    BY DEF TaskLog!Names
  <2> QED
    BY <2>1, <2>2, <2>3, BuildTyped DEF LastChange
<1>4. TaskLog!Found \subseteq TaskLog!Event
  BY <1>3 DEF TaskLog!Found, TaskLog!There, Present, LastChange
<1>5. ASSUME NEW t \in Present(task), task[t].updated < now
      PROVE  LastChange(t, task[t]) \in table \cup bus \cup (TaskLog!Found \ table)
  <2>1. CASE TaskLog!Recent(task[t].updated)
    BY <1>3, <2>1 DEF TaskLog!Found, TaskLog!There, Present, LastChange
  <2>2. CASE ~TaskLog!Recent(task[t].updated)
    <3>1. task[t].updated < swept
      BY <1>2, <1>3, <2>2, TaskConstants DEF TaskLog!Recent
    <3> QED
      BY <3>1 DEF SweepsInv, Told
  <2> QED
    BY <2>1, <2>2
<1>6. Told(task, sw.began, table \cup bus \cup sw.events)
  BY <1>5 DEF Told
<1>7. SweepOK(sw, task, now, table \cup bus, swept)
  BY <1>2, <1>4, <1>6 DEF SweepOK
<1> HIDE DEF sw
<1> QED
  BY <1>1, <1>7 DEF SweepsInv

\* A sweep publishes an event, or the broker refuses it.
LEMMA PublishStep ==
  ASSUME SweepsInv, TaskLog!PublishEvent
  PROVE  SweepsInv' /\ UNCHANGED <<ensure, hook>>
<1>1. SweepOK(sweep, task, now, table \cup bus, swept)
  BY DEF SweepsInv, TaskLog!PublishEvent
<1>2. PICK e \in sweep.events :
        \/ bus' = bus \cup {e} /\ sweep' = [sweep EXCEPT !.events = @ \ {e}]
        \/ sweep' = [sweep EXCEPT !.events = @ \ {e}, !.failed = TRUE] /\ bus' = bus
  BY DEF TaskLog!PublishEvent
<1>3. UNCHANGED <<now, task, hook, webhooks, table, ensure, swept>>
  BY DEF TaskLog!PublishEvent
<1>4. e \in TaskLog!Event
  BY <1>1 DEF SweepOK
<1>5. table \cup bus \subseteq table \cup bus' /\ table \cup bus' \subseteq TaskLog!Event
  BY <1>2, <1>4 DEF SweepsInv
<1>6. Told(task, swept, table \cup bus')
  BY <1>5, ToldMore DEF SweepsInv
<1>7. CASE bus' = bus \cup {e} /\ sweep' = [sweep EXCEPT !.events = @ \ {e}]
  <2>1. table \cup bus \cup sweep.events \subseteq table \cup bus' \cup (sweep.events \ {e})
    BY <1>7
  <2>2. ~sweep.failed => Told(task, sweep.began, table \cup bus' \cup (sweep.events \ {e}))
    BY <1>1, <2>1, ToldMore DEF SweepOK
  <2>3. SweepOK(sweep', task, now, table \cup bus', swept)
    BY <1>1, <1>7, <2>2 DEF SweepOK
  <2> QED
    BY <1>3, <1>5, <1>6, <2>3 DEF SweepsInv
<1>8. CASE sweep' = [sweep EXCEPT !.events = @ \ {e}, !.failed = TRUE] /\ bus' = bus
  <2>1. SweepOK(sweep', task, now, table \cup bus', swept)
    BY <1>1, <1>8 DEF SweepOK
  <2> QED
    BY <1>3, <1>5, <1>6, <2>1 DEF SweepsInv
<1> QED
  BY <1>2, <1>7, <1>8

\* A sweep that published everything it found told all before it began.
LEMMA EndSweepStep ==
  ASSUME SweepsInv, TaskLog!EndSweep \/ TaskLog!FailSweep
  PROVE  SweepsInv' /\ UNCHANGED <<ensure, hook>>
<1>1. SweepOK(sweep, task, now, table \cup bus, swept)
  BY DEF SweepsInv, TaskLog!EndSweep, TaskLog!FailSweep
<1>2. CASE TaskLog!FailSweep
  BY <1>2 DEF TaskLog!FailSweep, SweepsInv
<1>3. CASE TaskLog!EndSweep
  <2>1. /\ sweep.events = {} /\ sweep' = NULL
        /\ swept' = IF sweep.failed THEN swept ELSE sweep.began
        /\ UNCHANGED <<now, task, hook, webhooks, bus, table, ensure>>
    BY <1>3 DEF TaskLog!EndSweep
  <2>2. CASE sweep.failed
    BY <2>1, <2>2 DEF SweepsInv
  <2>3. CASE ~sweep.failed
    <3>1. table \cup bus \cup sweep.events = table \cup bus
      BY <2>1
    <3>2. Told(task, sweep.began, table \cup bus)
      BY <1>1, <2>3, <3>1 DEF SweepOK
    <3>3. sweep.began \in Nat /\ sweep.began <= now /\ now <= sweep.began + Lookback
      <4>1. now \in Nat /\ swept \in Nat /\ now <= swept + Lookback
        BY TaskConstants DEF SweepsInv, TasksOK
      <4> QED
        BY <1>1, <4>1, TaskConstants DEF SweepOK
    <3> QED
      BY <2>1, <2>3, <3>2, <3>3 DEF SweepsInv
  <2> QED
    BY <2>2, <2>3
<1> QED
  BY <1>2, <1>3

\* The registration and the family's edits of the webhooks.
LEMMA HooksStep ==
  ASSUME TaskInv,
         \/ TaskLog!ChangeHook
         \/ \E r \in Runs : TaskLog!BeginEnsure(r) \/ TaskLog!DeleteHook(r)
                            \/ TaskLog!CreateHook(r) \/ TaskLog!FailEnsure(r)
  PROVE  EnsureOK(ensure', hook') /\ UNCHANGED <<now, task, webhooks, bus, table, sweep, swept>>
<1>1. EnsureOK(ensure, hook)
  BY DEF TaskInv
<1>2. CASE TaskLog!ChangeHook
  <2>1. PICK h \in HookIds, next \in {NULL, "all", "some"} : hook' = [hook EXCEPT ![h] = next]
    BY <1>2 DEF TaskLog!ChangeHook
  <2>2. /\ ensure' = [r \in Runs |-> IF ensure[r] = NULL THEN NULL
                                     ELSE [ensure[r] EXCEPT !.alone = FALSE]]
        /\ UNCHANGED <<now, task, webhooks, bus, table, sweep, swept>>
    BY <1>2 DEF TaskLog!ChangeHook
  <2>3. ASSUME NEW r \in Runs, ensure'[r] # NULL
        PROVE  /\ DOMAIN ensure'[r] = {"left", "alone"} /\ ensure'[r].left \subseteq HookIds
               /\ ensure'[r].alone = FALSE
    <3>1. ensure[r] # NULL /\ ensure'[r] = [ensure[r] EXCEPT !.alone = FALSE]
      BY <2>2, <2>3
    <3> QED
      BY <1>1, <3>1 DEF EnsureOK
  <2> QED
    BY <1>1, <2>1, <2>2, <2>3 DEF EnsureOK
<1>3. ASSUME NEW r \in Runs, TaskLog!BeginEnsure(r)
      PROVE  EnsureOK(ensure', hook') /\ UNCHANGED <<now, task, webhooks, bus, table, sweep, swept>>
  <2> DEFINE new == [left |-> TaskLog!Matching, alone |-> \A p \in Runs : ensure[p] = NULL]
  <2>1. /\ ensure[r] = NULL
        /\ ensure' = [q \in Runs |-> IF q = r THEN new
                                     ELSE IF ensure[q] # NULL
                                     THEN [ensure[q] EXCEPT !.alone = FALSE] ELSE NULL]
        /\ UNCHANGED <<now, task, hook, webhooks, bus, table, sweep, swept>>
    BY <1>3 DEF TaskLog!BeginEnsure
  <2>2. ensure'[r] = new
    BY <2>1
  <2>3. /\ DOMAIN new = {"left", "alone"} /\ new.left \subseteq HookIds
        /\ \A h \in HookIds : hook[h] # NULL => h \in new.left
    BY DEF TaskLog!Matching
  <2>4. new.alone => \A p \in Runs : ensure[p] = NULL
    OBVIOUS
  <2> HIDE DEF new
  <2>5. ASSUME NEW q \in Runs \ {r}, ensure'[q] # NULL
        PROVE  /\ DOMAIN ensure'[q] = {"left", "alone"} /\ ensure'[q].left \subseteq HookIds
               /\ ensure'[q].alone = FALSE
    <3>1. ensure[q] # NULL /\ ensure'[q] = [ensure[q] EXCEPT !.alone = FALSE]
      BY <2>1, <2>5
    <3> QED
      BY <1>1, <3>1 DEF EnsureOK
  <2>6. new.alone => \A q \in Runs \ {r} : ensure'[q] = NULL
    BY <2>1, <2>4
  <2> QED
    BY <1>1, <2>1, <2>2, <2>3, <2>5, <2>6 DEF EnsureOK
<1>4. ASSUME NEW r \in Runs, TaskLog!DeleteHook(r)
      PROVE  EnsureOK(ensure', hook') /\ UNCHANGED <<now, task, webhooks, bus, table, sweep, swept>>
  <2>1. PICK h \in ensure[r].left : /\ hook' = [hook EXCEPT ![h] = NULL]
                                    /\ ensure' = [ensure EXCEPT ![r].left = @ \ {h}]
    BY <1>4 DEF TaskLog!DeleteHook
  <2>2. ensure[r] # NULL /\ UNCHANGED <<now, task, webhooks, bus, table, sweep, swept>>
    BY <1>4 DEF TaskLog!DeleteHook
  <2> DEFINE new == [ensure[r] EXCEPT !.left = @ \ {h}]
  <2>3. /\ DOMAIN new = {"left", "alone"} /\ new.left = ensure[r].left \ {h}
        /\ new.alone = ensure[r].alone
    BY <1>1, <2>2 DEF EnsureOK
  <2>4. ensure'[r] = new /\ \A q \in Runs \ {r} : ensure'[q] = ensure[q]
    BY <1>1, <2>1 DEF EnsureOK
  <2>5. DOMAIN ensure' = Runs /\ DOMAIN hook' = HookIds
    BY <1>1, <2>1 DEF EnsureOK
  <2>6. \A g \in HookIds : hook'[g] # NULL => g # h /\ hook[g] # NULL
    BY <1>1, <2>1 DEF EnsureOK
  <2> HIDE DEF new
  <2> QED
    BY <1>1, <2>2, <2>3, <2>4, <2>5, <2>6 DEF EnsureOK
<1>5. ASSUME NEW r \in Runs, TaskLog!CreateHook(r)
      PROVE  EnsureOK(ensure', hook') /\ UNCHANGED <<now, task, webhooks, bus, table, sweep, swept>>
  <2>1. PICK h \in TaskLog!FreeIds : hook' = [hook EXCEPT ![h] = "all"]
    BY <1>5 DEF TaskLog!CreateHook
  <2>2. /\ ensure[r] # NULL /\ ensure' = [ensure EXCEPT ![r] = NULL]
        /\ UNCHANGED <<now, task, webhooks, bus, table, sweep, swept>>
    BY <1>5 DEF TaskLog!CreateHook
  <2>3. ASSUME NEW q \in Runs, ensure'[q] # NULL
        PROVE  q # r /\ ensure'[q] = ensure[q] /\ ~ensure[q].alone
    BY <1>1, <2>2, <2>3 DEF EnsureOK
  <2> QED
    BY <1>1, <2>1, <2>2, <2>3 DEF EnsureOK
<1>6. ASSUME NEW r \in Runs, TaskLog!FailEnsure(r)
      PROVE  EnsureOK(ensure', hook') /\ UNCHANGED <<now, task, webhooks, bus, table, sweep, swept>>
  BY <1>1, <1>6 DEF TaskLog!FailEnsure, EnsureOK
<1> QED
  BY <1>2, <1>3, <1>4, <1>5, <1>6

\* Every step of Vikunja and of the producer keeps the invariant.
LEMMA TaskStep ==
  ASSUME TaskInv, TaskLog!Next
  PROVE  TaskInv'
<1>1. ASSUME SweepsInv', UNCHANGED <<ensure, hook>>
      PROVE  TaskInv'
  BY <1>1 DEF TaskInv
<1>2. ASSUME EnsureOK(ensure', hook'), UNCHANGED <<now, task, webhooks, bus, table, sweep, swept>>
      PROVE  TaskInv'
  BY <1>2 DEF TaskInv, SweepsInv
<1>3. SweepsInv
  BY DEF TaskInv
<1>4. ASSUME NEW t \in Tasks, TaskLog!CreateTask(t) \/ TaskLog!UpdateTask(t) \/ TaskLog!DeleteTask(t)
      PROVE  TaskInv'
  BY <1>1, <1>3, <1>4, ChangeStep
<1>5. CASE TaskLog!Tick
  BY <1>1, <1>3, <1>5, TickStep
<1>6. CASE TaskLog!IngestWebhook \/ TaskLog!LoseCall \/ TaskLog!Store
  BY <1>1, <1>3, <1>6, EventsStep
<1>7. CASE TaskLog!BeginSweep
  BY <1>1, <1>3, <1>7, BeginSweepStep
<1>8. CASE TaskLog!PublishEvent
  BY <1>1, <1>3, <1>8, PublishStep
<1>9. CASE TaskLog!EndSweep \/ TaskLog!FailSweep
  BY <1>1, <1>3, <1>9, EndSweepStep
<1>10. CASE \/ TaskLog!ChangeHook
            \/ \E r \in Runs : TaskLog!BeginEnsure(r) \/ TaskLog!DeleteHook(r)
                               \/ TaskLog!CreateHook(r) \/ TaskLog!FailEnsure(r)
  BY <1>2, <1>10, HooksStep
<1> QED
  BY <1>4, <1>5, <1>6, <1>7, <1>8, <1>9, <1>10 DEF TaskLog!Next

\* Steps of the ingest and of the readers leave tasks and webhooks as they are.
LEMMA TaskKept ==
  (MCInit => TaskInv) /\ (TaskInv /\ [MCNext]_<<part, vars, taskVars, readVars>> => TaskInv')
<1>1. ASSUME TaskLog!Init
      PROVE  TaskInv
  <2>1. /\ now = 0 /\ swept = 0 /\ sweep = NULL
        /\ task = [t \in Tasks |-> NULL] /\ hook = [h \in HookIds |-> NULL]
        /\ webhooks = {} /\ bus = {} /\ table = {} /\ ensure = [r \in Runs |-> NULL]
    BY <1>1 DEF TaskLog!Init
  <2>2. TasksOK(task, now) /\ CallsOK(webhooks) /\ Told(task, swept, table \cup bus)
    BY <2>1, TaskConstants DEF TasksOK, CallsOK, Told, Present
  <2> QED
    BY <2>1, <2>2, TaskConstants DEF TaskInv, SweepsInv, EnsureOK
<1>2. ASSUME TaskInv, UNCHANGED taskVars
      PROVE  TaskInv'
  BY <1>2 DEF taskVars, TaskInv, SweepsInv
<1>3. ASSUME TaskInv, MCNext
      PROVE  TaskInv'
  BY <1>2, <1>3, TaskStep DEF MCNext
<1> QED
  BY <1>1, <1>2, <1>3 DEF MCInit

\* For any tasks, calls and webhooks, any clock and window: the last change of a task that
\* is still there, made before the last sweep that published all it found, is stored or in
\* the stream (reconcile_recent_task_events).
THEOREM SweepsAreComplete == MCSpec => []SweepsMissNothing
<1>1. TaskInv => SweepsMissNothing
  BY DEF TaskInv, SweepsInv, TasksOK, CallsOK, EnsureOK, Told, Present, LastChange,
         TaskLog!There, TaskLog!TypeOK, TaskLog!SweepsMissNothing, SweepsMissNothing
<1> QED
  BY <1>1, TaskKept, PTL DEF MCSpec

\* A registration that no other run or edit overtook leaves exactly one webhook, for any
\* number of runs and webhooks (ensure_project_webhooks).
THEOREM RegistrationsLeaveOne == MCSpec => OneHookLeft
<1> DEFINE Leaves ==
      \A r \in Runs :
        TaskLog!CreateHook(r) /\ ensure[r].alone =>
          \E h \in HookIds : /\ hook'[h] = "all"
                             /\ \A g \in HookIds \ {h} : hook'[g] = NULL
<1>1. ASSUME TaskInv, NEW r \in Runs, TaskLog!CreateHook(r), ensure[r].alone
      PROVE  \E h \in HookIds : hook'[h] = "all" /\ \A g \in HookIds \ {h} : hook'[g] = NULL
  <2>1. PICK h \in TaskLog!FreeIds : hook' = [hook EXCEPT ![h] = "all"]
    BY <1>1 DEF TaskLog!CreateHook
  <2>2. h \in HookIds /\ DOMAIN hook = HookIds /\ \A g \in HookIds : hook[g] = NULL
    BY <1>1 DEF TaskLog!FreeIds, TaskLog!CreateHook, TaskInv, EnsureOK
  <2> QED
    BY <2>1, <2>2
<1>2. TaskInv => Leaves
  BY <1>1
<1>3. TaskInv /\ [MCNext]_<<part, vars, taskVars, readVars>> => [Leaves]_TaskLog!vars
  BY <1>2
<1> QED
  BY <1>3, TaskKept, PTL DEF MCSpec, OneHookLeft, TaskLog!OneHookLeft
=============================================================================
