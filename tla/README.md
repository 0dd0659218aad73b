# Verification of family-cloud

TLA+ models of the stateful services of this repository, the TLC configurations
that check them on small instances, and TLAPS proofs for every value of their
constants. Every definition is written from the source, with the lines it stands
for in `PROJECT.json` (`map`); nothing is derived from the documents, which are
only what the findings are compared with.

    tlasany M.tla                       parse a module
    tlc -workers 2 -config X.cfg M      model-check module M under X.cfg
    tlapm M.tla                         check the proofs of module M

## 1. The system

family-cloud is a set of small Python services (FastAPI, SQLAlchemy, PostgreSQL,
Celery, NATS JetStream) that agents and web pages call. Every service publishes
canonical events to the stream the event store consumes; the file service, the
decision worker and the agents create questions over HTTP; the agents claim
questions, deliver them and report back; the pages load what the services keep.

Two facts about the services shape almost every module. Handlers written `def`
run in threads and overlap; handlers written `async def` overlap at each `await`
only, and a blocking call in one holds the whole process. And a transaction is
READ COMMITTED without row locks, with autoflush off: it writes, at its commit,
the columns whose value differs from what it read, however long ago it read them.

| component | state | operations | hard behaviour |
| --- | --- | --- | --- |
| question queue (`question-management-service`) | `questions`, delivery attempts | create or update by key, patch, claim next under a lease, report asked, answer, resolve, delete, purge; jobs: expire and release, backlog cleanup | overlapping requests, leases, late reports, requeues |
| event store (`family-event-service`) | JetStream stream and durable consumer, `family_events`, dead letters, id sequence | publish, pull a batch, ingest or dead-letter, acknowledge; `POST /v1/events`; startup repair of the sequence; queries, pages, metrics | redelivery, deaths, two writers of one event, a log that grows under its reader |
| Vikunja producer (`family-event-service`) | webhooks of a project | webhook calls, hourly registration, reconcile sweep | lost and late calls, overlapping registrations |
| decision-system API: decisions, goals, budgets, roadmap | decisions, goals, score runs, queue, ledger, roadmap items | create, change, delete, score, queue, schedule, spend and refund points, reset a period | balance read before it is spent, two reads of one scoring |
| decision-system API: families, identity, Keycloak | members, persons, accounts | routes on families and members, purge, synchronisation of a group | a synchronisation that awaits between reading and writing |
| decision-system API: family DNA, notes, files, agent sessions | versioned document, rows and chunks, session state | propose and commit patches; index and search; PUT and DELETE of a session | lost updates, chunks of one text beside a row of another |
| decision worker | questions asked so far | reminders, health checks of decisions and tasks | failed calls, days without a run, caps on what one run asks |
| file-management-service | `documents`, chunks, `index_jobs` | index a document, discovery scan, follow-up jobs | overlapping job runs, effects before the commit |
| conversation workspace | conversations, participants, messages, runs, proposals | list and seed, create, invite, remove, post and run a turn, share, convert | awaits inside a turn, a death under a running turn |
| planning, education, profiles | plans and instances; records, snapshots, outbox; profiles and edges | status machines, check-ins, idempotency keys, publishing | requests that overlap, events that are lost or doubled |
| file inbox agent, portal | files of a Nextcloud folder | list, choose, move, rewrite, replay, migrate, clean up | two runs over the same files, people editing meanwhile |
| web front ends | what a page shows and the calls it has in flight | pick a family or row, load, save | answers out of order, effects that load again |
| MCP server, agent libraries, overlay, scripts | none of their own | translate calls | |

What is hard to test is listed line by line under `hazards` in `PROJECT.json`.

## 2. Modules

Each component has a module of its own with its state, one action per endpoint,
job or step that another process can come between, and its properties. None of
them declares a RECURSIVE operator. Operators named as mutants (`...Again`,
`...Always`, with a comment "Mutant:") are the plausible bug each property was
tried against; no specification uses them.

| module | models | how state and actions correspond |
| --- | --- | --- |
| `QuestionRows` | one row of `questions`, and what each function of `services/questions.py` reads and writes of it | timestamps are ages up to the threshold they are compared with, deadlines the time left |
| `Questions` | the queue, one request or job at a time | actions are the endpoints, the two Celery jobs and the clock; `leases` and `patched` are history |
| `QuestionSessions` | the same requests as overlapping transactions | `Begin...` computes from the committed rows, `Commit` writes only the columns SQLAlchemy would put into its UPDATE |
| `FamilyEvents` | one subject of the stream, its consumer, workers and API requests | an ingest is taken apart at the lookup (`Process`, `PostEvent`), `nextval` (`DrawId`), the INSERT that waits for an equal key (`Insert`) and the COMMIT; `Restart` is a death and the repair of the sequence |
| `EventLog` | what the store promises: an offered valid event is recorded at most once, under an id of its own, for good | the abstract specification that `FamilyEvents` implements |
| `TaskEvents` | webhook, registration and sweep of the Vikunja producer | an event is named by source, type, task and time of the change, as in the code |
| `EventQueries` | pages, filter options, totals, series and comparison | every request runs its query anew over a log that has grown |
| `BudgetLedger` | periods, ledger rows as counters per period and person, roadmap items, policy | `Begin...` is a request up to its commit; a session sees only what it flushed (`Visible`), which is what makes a reset find the period it just ended; `rivals` is a history of how many requests overlapped |
| `Decisions` | one decision, its goals, score runs, queue row and status | scoring reads the goals in two statements |
| `Households` | a family's members, persons and accounts, its purge, the Keycloak synchronisation | requests and a synchronisation overlap at every await; an account is found by the normalised form of its address (`KeyOf`), which two addresses may share; a user of the group may have no address |
| `Profiles` | profiles, relationship edges and the events about them | commit, refresh and publish are three steps |
| `FamilyDna`, `AgentSessions`, `SearchIndex` | the versioned family document; the state of an agent's session; the index of notes and files and its search | one call is its reads, its flushes and its commit |
| `DecisionChecks`, `TaskChecks` | the worker's reminder and health checks | a job takes a snapshot, then asks or fails for each finding |
| `FileJobs` | documents, chunks and follow-up jobs | writers and runs of the job are long transactions, taken apart at their SELECTs, their calls of other services and their COMMIT |
| `Conversations` | the conversation workspace | actions are the requests up to each await; `loop` is who holds the event loop |
| `Education` | records, idempotency keys, snapshots, quiz totals, outbox | routes fall into classes by what they refresh: the snapshots of a scope and of all, that of all only (journals), a quiz's totals, or none |
| `Planning` | one plan, its instances and check-ins | time in half days |
| `FileInbox` | runs of the inbox agent, replays, the portal's notes, the migration | names are the number that makes them free, texts the number of edits they hold; what a model made of a text in words of its own is told apart by the edit it was made of (`Reworded`) |
| `ProfilePage`, `PlanPage`, `EventPage`, `QuestionPage`, `EducationPage`, `ConversationPage`, `DecisionPage` | seven pages of the front ends | effects run when what they watch has changed; calls are answered in any order or fail |

The MC modules compose components that share no state: each EXTENDS one of them
and INSTANCEs the others, and a variable `part` says which of them runs in a
behaviour, so that one run answers for several small components (`MCEducation` is the part of
`MCConversations` that holds the education service, a module of its own so that the
proofs need not see the pages). Components do
interact through HTTP and events, but only in ways each module already has as a
free choice of its environment: who creates a question, which events arrive.

Abstractions worth knowing. In `Questions`, `topic` stands for category, artifact
identity and merge key together, `rank` for urgency and due date; the clock
conditions of `_delivery_window_ok` are a free choice, its two cooldowns are
modelled. In `BudgetLedger`, decisions are open: who owns one, its score and its
deletion change by requests that neither read nor write the budget, so every
request may meet any owner and either side of the threshold; the module allows
more than the code, never less, and claims safety only. In `FileJobs` a document
without embeddings is marked by one writer and may be unmarked by another; nothing
promises otherwise, so no property speaks of it.

## 3. Runs

| run | shows | bounds |
| --- | --- | --- |
| `questions` | leases exclude one another and are honoured, claims stay on claimable rows and within a batch, `asked_count` counts attempts; an item is asked about before it is due; an active plan has what it needs and a check-in stands | two questions of one topic, two tokens, a merge limit of one, thresholds of one or two units, each question asked once (`Unexcused`); one item over ten days; one plan, two requests, three half days |
| `sessions` | overlapping transactions keep claims whole, invent no counts, keep the columns the sweeps need | one question, two sessions, two tokens |
| `live` | what must eventually happen (section 4) | the smallest instance of each component in which it can fail to |
| `events` | nothing leaves the stream unsettled, a 201 is kept, the table implements the log; every change of a task is recorded by webhook or sweep; pages, options and reports agree with the log | three events (one invalid), two messages, one worker, one caller, one death, one failure; one task, three times, two registrations; six rows of log |
| `decisions` | how far requests that overlapped overdraw, refund, allocate or make a period twice, and that one after another never do; queue, score runs, decision and goals agree | two persons, a policy change and the two days of a period for requests one after another; one person, the first day and the day after for two at once (`Narrow`); one decision, one goal, two requests |
| `households` | an undisturbed synchronisation mirrors its group; the person behind a member is right, and has the account last given to it, once a request looked at it; events tell what profile rows are; the family document and agents' sessions keep what was stored | two users, two addresses in use, of one normalised form or of two, users without one beside the former, one request, one synchronisation; one person, one edge, two requests; two proposals, two commits; two addresses, two persons, two calls |
| `files` | no job is completed undone, chunks are one cut of the document's text; a search reads chunks of its rows and ranks the closer first; no note is lost, doubled or set back by one run at a time, and a rewritten one was made of its last text | one document, two texts, two writers, two job runs, one death; two paths, two calls; two notes, a run of the script and one of the portal |
| `conversations` | turns are settled and serial, members and inboxes consistent; keys, snapshots and outbox of education; each page shows what is selected | one person, two assistants, two requests, one death; two scopes, one key, two requests and the worker; two families, three calls |
| `budget_reset` | **violated**: a reset answers with the period of before and its spent points | day 0 |
| `decision_readable` | **violated**: a decision scored twice cannot be read | one request at a time |
| `family_deletable` | **violated**: a family with a decision cannot be deleted | as `households` |
| `inbox_migration` | **violated**: the migration deletes the notes it reported as conflicts | as `files` |

Why the bounds are enough: a claim conflict needs two claims and one question, a
batch that is too large one question more than the limit; a lost update or a stale
check needs two sessions; a duplicate ingest two ingesters of one event; a rewound
sequence one open insert and two committed; a clash of chunks two transactions on
one document, whose job of each kind makes a batch of two; a point overspent two
requests and one point; a boundary of a period its first, its last and the
following day; an answer out of order two calls in flight. Times are kept up to
the threshold they are compared with, in the order the real thresholds have.

Six runs look at part of a state space only, by a state constraint. `Focus`
(events): webhooks are registered and edited while there is no task, from then on
there is one of them. `Watched` (files): a note that overlaps have disturbed is
followed while it is one note and the other is undisturbed; the properties are
about undisturbed notes. `Upset` and `Eventful` (conversations): on a page whose
answers came out of order or failed, at most one call stays in flight; after a
death there is one run and there are two messages, after a failed publication one
record. `Unexcused` (questions): an item about which checks were missed for days
and reports were overwritten is not followed further, for its property excuses it.
`Bounds` (households): two addresses are in use at a time, the group changes between
synchronisations, and there is no decision, which is the question of
`family_deletable`. `Narrow` (decisions): persons, days and changes of the policy are many only while no
two requests have overlapped.
Symmetry is used in safety
runs only, over requests, tokens, users and other interchangeable values.

Deadlock checking is off in every run: a queue nobody uses, with all bounds used
up, is a state the system may stay in.

## 4. Fairness

`live` is fair to what the code schedules and to nothing a user or agent does:

- `QueueMovesOn`, `UnansweredRequeued`: the clock and the two jobs that Celery beat
  starts every 300 and 1800 seconds.
- `OverdueHeard`, `OverdueAsked`: the clock, the scheduled checks and their calls;
  an answer to a question that stays open (`OverdueHeard`), and strong fairness of
  the call about one item, which may fail but not always.
- `JobsEnd`: each run of the job (every 60 seconds) and a writer that has begun.
- `EventsSent`: the worker's publishing job, whose transaction ends.
- `PublishedAcked`: each worker's next step, a request in progress, the redelivery
  of an unacknowledged message.
- `LoaderSettles`: the oldest call of a page is answered.

Deaths and failures are bounded (`MaxRestarts`, `MaxFailures`, `MaxCrashes`,
`MaxDeaths`), so that they end.

## 5. Proofs

The proofs hold for every value of the constants that satisfies the named
assumptions: any number of rows, users, requests, messages, deaths. Each safety
theorem has the same shape: an inductive invariant that follows from `Init`, is
kept by each action (one lemma per action or per group of them) and implies the
property. TLC checked every inductive invariant before it was proved. A proof module
that extends an MC module proves about `MCSpec`, the specification the run checks;
the MC module's own constants are as free there as the component's.

| module | theorem | states | rests on |
| --- | --- | --- | --- |
| `QuestionRowsProofs` | lemmas only | what each operation on a row or on the table makes of it | `ConstantsAssumption` |
| `QuestionsProofs` | `TypeCorrect`, `LeasesAreHonoured`, `ClaimsExclude`, `ClaimsAreBounded`, `AskedCounted`, `RemindersAreAsked`, `PlansAreHeld` | `TypeOK`, `LeaseHonoured`, `LeaseMutex`, `ClaimsBounded`, `AskedCountsAttempts`, `Reminded`, `PlansHold` | the assumptions of `Questions`, `LeaseAssumption`, `ChecksAssumption`, `PlansAssumption` |
| `QuestionSessionsProofs` | `SessionsKept` | `SessionsAgree` | the assumptions of `QuestionSessions` |
| `FamilyEventsProofs` | `IngestsAreSound`, `NothingUnsettledLeaves`, `CreatedKept`, `StoreIsLog`, `SweepsAreComplete`, `RegistrationsLeaveOne` | `TypeOK`, `IngestInv`, `AckedSettled`, `CreatedIsStored`, `StoreImplementsLog`, `SweepsMissNothing`, `OneHookLeft` | the assumptions of `FamilyEvents`, `TasksAssumption` |
| `BudgetLedgerProofs` | `LedgerTyped`, `OverdraftLimited`, `LedgerLimited`, `PeriodsLimited`, `ChoicesAgree`, `RunsCover` | `TypeOK`, `OverdraftBounded`, `LedgerBounded`, `ActiveBounded`, `DecisionsAgree`, `RunsCoverGoals` | `BudgetAssumption`, `NullAssumption`, `ChoicesAssumption` |
| `FileJobsProofs` | `FilesTyped`, `MirrorsWereDone`, `ChunksMatch`, `ChunksFollowRows`, `CloserAnsweredFirst`, `NotesAreKept` | `TypeOK`, `CompletedWasDone`, `ChunksMatchText`, `ChunksMatchRow`, `CloserComesFirst`, `NotesKept` | `FileJobsAssumption`, `NullAssumption`, `SearchAssumption`, `InboxAssumption` |
| `HouseholdsProofs` | `HouseholdTyped`, `PersonsFollow`, `SyncsMirror`, `EventsTell`, `SharedStateStays` | `TypeOK`, `PersonFollows`, `SyncMirrors`, `EventsTellRows`, `SharedStateKept` | the assumptions of `Households`, `RecordsAssumption`, `SharedAssumption` |
| `ConversationsProofs` | `ConversationsKept`, `EducationStays` | `ConversationsHold`, `EducationAgrees` | `ConversationsAssumption`, `InputsAssumption`; `SchoolsAssumption` |

**Questions.** `LeaseHonoured` is inductive together with `TypeOK`: every
operation that takes a claim off a row ends the promise of that lease in the same
step, and the release sweep only meets rows whose time left is below zero, when
the promise is over. `LeaseMutex` follows: a row carries one token. `ClaimsBounded`
needs to know why a claim is not left behind on a closed question: `CleanupJob`
dismisses stale rows and does not touch their claims. `LeaseAssumption`, the
longest lease is shorter than the age at which a pending question is stale (two
hours against 45 days), makes that harmless: by then the lease has lapsed.
A claimed row is therefore one with a claimable status or one a PATCH has set.

`Reminded` is about a count that no single step shows: an item is asked about on three
days, and three missed days excuse that it was not. `DaysCounted` follows the days one by
one: as long as an item that was known in time is not asked about, each of its three days
that is behind is one of the `missed`, or the reminder that runs now may still be
(`Pending`): it has failed, or has the item still to do. On the due day all three are
behind and no reminder runs, so three were missed. Nothing is assumed of the other checks,
of the goals and decisions that change beside, or of the order in which items are asked
about.

`PlansHold` is about requests that read a plan, check it and write it later. By `PlansInv`
a request that no commit overtook read the plan as it still is, one that leaves the people
alone changes no more than the status, and one that makes a plan active found nothing
missing in it; so only an overtaken request can make an incomplete plan active, and that
sets `raced`. A reconcile marks only instances it read as scheduled.

**QuestionSessions.** A transaction writes the columns it found different, to a row
that may have changed since it was read; rows nobody wrote as a whole come about.
`ClaimColumnsAgree` survives because every write has all three claim columns or
none (`WriteOK`): whoever ends a claim ends all of it, and whoever makes one found
none, so all three differ. A status comes with what goes with it, or the row had it
already (`UpdateOK`): a report of a delivery always writes the count, since it adds
to it, and the time, since it is new, but the channel only if it is another one. An
answer, a delivery and its channel are never taken back, so what a transaction
found stays there until it commits, and identities are not given out again, so the
row it commits to is the one it read. The proof also covers transactions TLC has no
room for: any number of them, merged claims over several rows and superseded rivals.

**FamilyEvents.** A commit acts on what was looked up long before. `IngestInv`
says that the message in a worker's hand is the one that was fetched and is
settled once it is about to be acknowledged (`WorkerKnows`), that what is being
stored was offered and is valid (`IngestingOffered`), and that an open INSERT has
the event and the id of no row and of no other open INSERT (`OpenDistinct`)
although the sequence may have been set back. What only grows (rows, dead letters,
failures) keeps a settled message settled. The refinement maps the table to the
log: the COMMIT of a new row is the only step that is not a stutter.

For the tasks of Vikunja, `SweepsInv` bounds the clock by the last complete sweep and
the look-back window (the schedule of the sweeps), so what is older than the window of
the sweep in progress was told by the one before it, and what is in the window is
told already or still to be told; a change made after a sweep began is no older than
its beginning. A registration that is `alone` has every webhook there is still
on its list of those to delete (`EnsureOK`), so it creates the only one.

**BudgetLedger.** A balance is read before it is spent. The invariant accounts for
every point: what a period was allotted, adjusted, returned and debited, together
with what the open requests are about to write (`OverdraftInv`, `RefundInv`,
`AllocInv`), and for the sessions themselves (`Structure`: a session works on a
period that was made, or on one it alone has made and not committed, and nothing
refers to a period that was not made). The bounds are not
constants: `rivals` remembers the most requests that were in progress when another
began (`CrowdInv`: at most `rivals + 1` ever are), so that requests one after another
are bound by nought, and the theorems say of them what a reader would expect: nobody
overdraws but by what policy changes took away, nothing is given back or allotted twice,
and a day has one period. For the last (`PeriodsInv`), the periods active today are
counted together with those that requests in progress are about to make (`Coming`): a
request makes one only when it finds none active, and then the periods to come are those
of the requests in progress; whoever commits later finds its period counted already, an
end is only ever moved to a day that is past, and days only pass.

A score run names the revisions of what it scored. `ChoicesInv` says that what it read
is still so, or has a later revision, or was raced by an overlapping update (revisions
never come back), of the runs that are stored as of the requests that still hold what
they read; that a request nothing overtook holds the decision as it is; and that the
goals of a run, but for those that moved between the two reads, are the family's goals
that count. A decision is queued while it says so unless its item is `loose`.

**FileJobs.** Nothing locks a document. What a transaction is about to write refers
to rows that are still there (`Tables`), and a mirror job that is about to be
completed has reached the memory (`Progress`). `ChunksInv` is why the chunks fit
the text: a transaction that is not doomed to fail finds the chunks and the text
it based its writes on, since whoever changes them in between inserts the same
keys, and one of the two fails with a duplicate key.

For the index of the decision system `SearchInv` says that a row a call found is still
there. `ChunksMatchRow` then follows from one step: the call that changes something over
the row it read writes text and chunks together. `CloserComesFirst` needs no induction
over the index: it is a fact about every answer of the search, from the sum a score is
and from where the semantic query is cut.

The agent of the inbox acts on a listing while others move, edit and delete. `InboxInv`
says of each note that nothing disturbed that it is where the run that has listed it
believes it is (in its place, or at the run's destination once it was moved), that no other
run has listed it, and that the text the run is about to write is what the note says or what a model made of
that (`Current`); of a note in the legacy folder, that no other note is in its place, since nothing comes there.
A step of a run then moves, empties or overwrites a place only where the note is its own or
is disturbed by the step (`Crossing`, `Touches`), so that what the others believe stays so
(`Undisturbed`), and a name that is free is taken by one note only (`UniqueIsFree`, by the
least element of a set of numbers). The proof tightened a guard of the model: nothing rules
out that a disturbed note is in two places and one of them is deleted as empty, and an edit
of the other must not count on from no number (the run follows a disturbed note only while
it is in one place).

**Households.** A synchronisation reads the members, awaits Keycloak and writes.
`InProgress` says that what a request and a synchronisation have read is still so
unless something overtook them; `Unique` that addresses and Keycloak users of
members differ, from the two unique keys. `SyncMirrors` then needs a count: the
members that were kept are as many as the users they are of, so no user has two. An
account has one member: whoever loses it to another address with the same normalised form
is `unseen` from that step on.

A profile's event is made of the row as the request reads it after its commit. By
`RecordsInv` a request that is alone on its row and has committed finds what it wrote,
and a row nobody is changing was told as it is, or is `doubtful`.

The family document and the sessions of agents are read, changed and written back as a
whole. `DocInv` keeps two things apart: what holds whatever overlaps (the document and
every copy a commit still holds have patches of committed proposals only, and each
version up to theirs was told, so that the version, which counts different events, never
exceeds them), and what holds until two commits overlap (the one commit there is has read
the document as it is, so document, history and committed proposals are one count).
`AgentInv` says of a call that nothing disturbed that it knows whose the address is and
whether the row is that person's, and that of two calls on one address neither is alone;
so the state of the last such call is in a row of the address's own person.

**Conversations.** A request acts on what it read before an await or a lock. The
invariant says what each open request knows (`RequestOK`: the run it handles is
running and of its chat, the speaker it chose takes part, a turn holds the event
loop), that no two requests handle one run (`TurnsInv`), that a list still finds no
chat where it is about to seed one (`ListOK`), and that an invitation or a removal
has read what its chat still is (`ReadOK`), the last two but for people and chats
on which requests overlapped. The proof corrected the property: `OpenInboxes`
first found the person of a private chat by the participant before the assistant,
which an assistant invited again may not have; it now asks for the two neighbours
that were seeded. `InputsAssumption` says of what kind the inputs are that `Next`
ranges over.

The totals of the education service are computed when a route begins and written when it
commits, and an UPDATE leaves out a total that did not change. `EduInv` says of each
transaction in progress that what it is to write would be right if it committed now
(`Right`: the count it computed is the count after its record is added or has moved, and
the total it read is the one that is there), unless a commit overtook it. A commit
overtakes every other writer, and a total that is not `overtaken` is touched by the
transaction or by none of its records' scopes, so it counts what there is. The proof
corrected the model: the worker's refresh of the total of all scopes did not count as
overtaking. A refresh that is itself late can put back an old total, and a route that
read the total before it and moves a record, which changes no number, does not write it
again: three records, one more than the run has, show that the total would then have been
called right. `CommitRefresh` now overtakes like any other commit.

Stays with TLC, and why:

- the eight liveness properties of `live`: liveness under fairness and ENABLED are
  out of the prover's reach;
- `ReadersAgree`: what pages and reports count over the whole log, an induction over
  data;
- `PagesAgree`: seven pages, each with an invariant over every queue of calls in flight;
  no proof of it is kept here;
- the findings of section 6: a violation is a behaviour, which TLC shows.

## 6. Findings

1. `ResetReallocates`: resetting a period gives nobody their points back; the
   session does not flush the end of the period, so `ensure_active_period` finds it
   again, and the next request of the day makes the new one.
2. `ScoredReadable`: `_latest_score_run` orders by time and takes
   `scalar_one_or_none`, which raises for a decision that was scored twice.
3. `FamilyDeletable`: the purge deletes persons before the decisions that refer to
   them.
4. `MigrationKeeps`: the migration deletes the legacy folder with the notes it had
   reported as conflicts.

Disagreements that have no run of their own, met while modelling:

- `mark_question_asked` never looks at the status: a late report makes a closed
  question active again. Its claim token is checked on a row read before another
  claim commits, and the report then clears that claim.
- A question asked again after an answer keeps its old `answered_at`: it neither
  blocks its channel nor is requeued. The cap on automatic task questions is a
  count before an insert. Events are published before the commit.
- Restarting a process of the event store sets the id sequence to the largest
  committed id; an insert open at that time and the next one get the same id, and
  the later valid event becomes a dead letter. A message whose ingest and dead
  letter both fail is acknowledged with neither; `AckedSettled` says that only a
  failure does that.
- Webhook and sweep derive different event ids from one change of a task.
- Two overlapping requests can spend one point twice, against "No negative
  balance" of `docs/specs/budget-policy-spec.md`; `OverdraftBounded` says how far.
  The first request of a person who joined in mid-period is refused and rolls the
  allocation back with it, and a policy change gives such a person twice the
  allowance. `run_period_rollover` is a stub.
- A user who takes the address of a member who left makes every synchronisation
  fail (updates before deletes under a unique key).
- The wait for a late answer of an assistant reads the logs of its other sessions.
- Pages: two families picked while loads are in flight select each other for ever
  (decisions page); a save reloads and discards drafts; an education page keeps the
  workspace of a learner of the family before; an answer box keeps its text when
  another question is selected; a conversation that is open is refilled over a
  refresh; attachments are cleared when the composer is refilled.
- Every family is asked about every Vikunja task; the reminder ignores the final
  statuses of decisions; changes of goals after the day's last check are not asked
  about; the portal's inbox run calls the file service it runs in without awaiting.
- A dashboard note that could not be read is rewritten all the same: the parser of the
  agent's answer builds a structured note from no text ("(empty note)"), and it replaces
  what people wrote. `README.md:147` of the repository speaks of readable notes.
  `NotesKept` counts such a note as disturbed. A note that was read is replaced by what
  the model made of its first 12000 characters, so `NotesKept` can only say what it was
  made of.
- Two addresses that differ in a dot or a dash have one account: making sure of the person
  of one member takes it from the other's (`PersonFollows` names that case).
- A user of the group without an e-mail address is passed over: a member there is keeps
  the old address, a new one is not made (`Mirrored`).

## 7. Not modelled

Left out for good: the MCP server and the agents' adapters (they keep no state),
the decision system's own copy of the event store and its worker (a near copy of
the module modelled), deployment, the nextcloud overlay but for its lists of
directories and tagged files, and scripts other than the migration; inside the
modelled services the text of prompts and events, logging, authorisation, feature
switches and read-only queries no property needs.

