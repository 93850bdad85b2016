# doc-explain: models, checks and proofs

doc-explain is a Go service. Users upload documents; a background worker
turns each document into encrypted, embedded chunks; users then ask questions
about a document and get streamed answers. This directory models the parts of
the service in which several processes, callbacks and external services meet,
checks them with TLC and proves the central results with TLAPS.

Contents: [inventory](#inventory) · [modules](#modules) ·
[pipeline](#the-upload-pipeline) · [intake](#intake-and-analysis) · [startup](#startup) ·
[gate](#the-per-user-gate) · [chat](#the-chat) · [hub](#the-status-hub) ·
[runs](#runs) · [disagreements](#where-the-code-and-its-documentation-disagree) ·
[proofs](#proofs) · [limits](#what-is-not-modelled) · [what is left](#what-is-left)

## Inventory

| Component | Code | State it keeps | Operations |
|---|---|---|---|
| Upload handler | `cmd/documentController.go` 82-219 | nothing; writes Cloudinary, `documents`, analytics | guest limits, upload, save the row, track |
| Webhook handler | `cmd/documentController.go` 275-378 | nothing; writes `documents`, the queue | verify, claim the row, enqueue |
| Delete handler | `cmd/documentController.go` 241-273 | nothing | one transaction over four tables |
| Search handler | `cmd/documentController.go` 380-559 | nothing; writes conversations, messages, analytics | limit, conversation, history, retrieval, stream, save |
| Status socket | `cmd/documentController.go` 594-672 | a subscription in the hub | subscribe, ping, unsubscribe |
| Document store | `internal/store/documentStore.go` | tables `documents`, `document_chunks` | insert, claim, status, result, chunks, delete, search, encrypt old chunks |
| Conversation store | `internal/store/conversationStore.go` | `document_conversations`, `document_messages` | get or create, append, recent, count |
| Analytics store | `internal/store/analyticsStore.go` | `analytics_events` with a unique dedupe key | track, count |
| Document processor | `internal/documentworker/documentProcessor.go` | nothing between tasks | `ProcessTask`, `markDocumentFailed`, publish, destroy the original |
| Queue runner | `internal/documentworker/runner.go`, `internal/jobs/document_task.go` | the asynq server and its queue in Redis | start, encrypt old chunks, run, shut down |
| Status hub | `cmd/service/documentHubService.go`, `cmd/documentStatusEvents.go` | sockets per document | add, delete, broadcast, listen to Redis |
| Per-user gate | `cmd/middleware.go` 81-156 | a mutex and a token bucket per user | lock or give up, allow or refuse |
| Users and sessions | `cmd/userController.go`, `internal/store/userStore.go` | `users` | register, guest, log in |
| Chunk cipher | `cmd/security/security.go` | a key | encrypt, decrypt `v1:` envelopes |
| Document analysis | `internal/documentanalysis/` | none | classify, summarise, choose a parser, extract with OpenAI |
| Migration | `internal/db/db.go`, `internal/store/migrations.go` | an advisory lock | create the extensions, migrate |
| Request helpers | `cmd/helpers/` | none | admit a file, parse, answer |
| Process wiring | `cmd/main.go`, `cmd/api.go`, `cmd/worker/main.go` | none | connect, migrate, run jobs, serve |

How they interact: the upload handler, Cloudinary's webhook, the queue, the
worker and the delete handler share one `documents` row, its chunks and the
Cloudinary object, and coordinate through the row's `proccessing_status` and
the task id `document:process:<id>` only. The worker tells the API what happened
through a Redis channel, and the hub passes it on to sockets. All requests of
a user pass through the gate, which is what the check-then-act sequences of
the handlers rely on. With `PROCESS_JOBS_IN_API` (the default) API and worker
are one operating-system process; they are kept apart here, which allows
strictly more behaviours.

What is hard: a webhook is delivered early, late, twice or never; a claim and
an enqueue are two steps; attempts fail, panic, time out, keep running after
their timeout, die with their process and are repeated; the owner deletes a
document at any moment; a lock is taken by another goroutine than the one that
gave up waiting for it; processes start side by side on one database, whose
rows others change meanwhile; a text is cut at a byte. `PROJECT.json` lists
these hazards line by line.

What makes each component correct:

- pipeline: a ready document can be searched, the only copy is never lost, one
  delivery at a time is told to process, deleted is final, processing ends;
- gate: one request of a user at a time, nobody locked out;
- chat: one conversation per document, answers follow their questions, the
  guest limits hold;
- hub: a socket that stays connected sees the last status; one client does not
  stop the others;
- startup: each chunk is encrypted once and none is brought back, no task runs
  beside a plaintext chunk, migrations exclude each other, a start ends;
- intake: what is answered from was read as what it is, a summary is a proper
  beginning of its text, attempts on the same text agree.

## Modules

| Module | Models | Kind |
|---|---|---|
| `Documents` | the document identifiers everything shares | constants |
| `DocumentStore` | the statements on `documents` and `document_chunks` | operators, one per statement |
| `JobQueue` | asynq as the code uses it | operators, one per queue operation |
| `DocumentPipeline` | handlers, worker, Cloudinary object and events, composed over the two above | specification |
| `DocumentLifecycle` | what the pipeline promises of a document | abstract specification |
| `PipelineRefinement` | the pipeline implements the lifecycle | refinement mapping |
| `Turnstile` | what the gate promises the handlers | abstract specification |
| `Transcript` | what a user sees of the chat | abstract specification |
| `StatusFeed` | what a browser may expect of its socket | abstract specification |
| `ChunkLifecycle` | what the transactions promise of the chunk rows | abstract specification |
| `UserGate` | `ConcurrencyMiddleware` and `RateLimitMiddleware` | specification |
| `Conversations` | `document_conversations` and `document_messages` | operators, one per statement |
| `ChatSession` | guest limits, search and delete handlers of one user, composed over `Conversations` | specification |
| `StatusHub` | Redis subscription, `DocumentStatusHub`, handlers of sockets | specification |
| `ChunkTable` | the transactions on `document_chunks` row by row, with their locks; the cipher | operators, one per statement |
| `Startup` | `db.New`, `AutoMigrate`, `documentworker.Run` up to its asynq server, in several processes, composed over `ChunkTable` | specification |
| `DocumentAnalysis` | admission, choice of a parser, classification, summary | pure operators |
| `DocumentIntake` | one file from the form to its summary, composed over `DocumentAnalysis` | specification |
| `MCPipeline`, `MCGate`, `MCChat`, `MCHub`, `MCStartup`, `MCIntake` | instances for TLC | model checking |
| `PipelineProofs`, `DeliveryProofs`, `RefinementProofs`, `UserGateProofs`, `ChatProofs`, `HubProofs`, `StartupProofs`, `IntakeProofs` | theorems | proofs |

How they fit: `DocumentPipeline` extends the store and the queue and is shown
to implement `DocumentLifecycle`. `ChatSession` extends `Conversations` and
lets a request into its handler when no other request of the user is in one.
`Turnstile` is the interface of the two: the gate implements it
(`GateIsTurnstile`), and the chat is its handlers without a gate behind a
turnstile (`ChatBehindTurnstile`). A crash of the API, which only the chat has,
ends every request, and the mutexes with them: the turnstile is empty again.
What the pipeline does to chunks appears in `ChatSession` as `IndexDocument`,
which may come at any moment after the upload, also after a deletion.
`StatusHub` begins where the pipeline's `announced` ends, at the channel.
`Startup` ends where the pipeline begins, with an asynq server that runs;
`ReplaceChunks` and `DeleteChunks` are what the pipeline's `StoreChunks` and
`DeleteDocument` do to single rows. `DocumentIntake` looks into two steps of
the pipeline, `ExtractChunks` and `RecordResult`: which text the one returns,
and why the other may fail for every attempt.

Operators named as slips (`ClaimWhileProcessing`, `LoadAndDestroy`, ...) are
not part of any specification. Each is a definition as a plausible bug would
have it and is used to confirm that the properties notice the bug.
(`ChatBehindTurnstile` takes one of them, `BeginUngated`, for the routes without
their gate.)

## The upload pipeline

An action is what one process does between two points where another process
can act: a statement or a transaction, a call to Redis, Cloudinary or the
model provider. `StartTask ... ReturnResult` follow `ProcessTask` in order;
`pc[w]` is the place in it and `job[w]` the document.

| State | Code |
|---|---|
| `status[d]` | the row: `proccessing_status`; `absent` and `deleted` mean that there is no row |
| `chunkRows[d]`, `chunkCount[d]` | rows of `document_chunks`, column `chunk_count` |
| `taskState[d]`, `retried[d]` | the asynq task of the document |
| `asset[d]` | the Cloudinary object |
| `upload[d]`, `hook[d][h]` | progress of the upload handler and of each webhook delivery |
| `live[w]` | the attempt's context is valid and asynq waits for its result |
| `announced[d]` | last event on the Redis channel |
| `claims[d]`, `failures[d]` | history variables for `ClaimsBounded` |
| `faults` | number of faults so far, bounded by `MaxFaults` |

Decisions worth knowing:

- A statement with the attempt's context fails once the attempt has timed out
  (`live[w] = FALSE`); `markDocumentFailed` has a context of its own and works.
- asynq does not stop a goroutine whose timeout passed. It fails the task and
  hands it to another slot, so two attempts of a document may overlap.
- `LoadOriginal` and `ExtractChunks` may fail for free (network, unreadable
  text); failing statements, failing Redis commands, parser panics, timeouts
  and dying processes are faults that a configuration enables and counts.
- A result that cannot be written is announced as failed at once
  (`PublishError`), and again by `markDocumentFailed`, which writes the row in between.
- A panic unwinds `ProcessTask` with `err` still nil: nothing is marked failed.
- A payload without `asset_id` or `secure_url` is refused before `documentID`
  is set, so nothing is marked failed either (`CompletePayloads`).
- A failing statement leaves the tables alone; a transaction is atomic. That
  `CreateChunks` may be one step although it is many statements is due to its
  transaction: the one of a timed-out attempt is rolled back by its context,
  the one of a dead process with its session. `ChunkTable` shows it row by row.
- A shutdown puts unfinished tasks back without counting; a crash leaves them
  active until the recoverer finds their lease expired (`StopWorker`,
  `RecoverLease`).
- Archived tasks stay. asynq drops them after 90 days, and drops the 24-hour
  uniqueness key with the task, so `asynq.Unique` refuses nothing that the task
  id would not refuse.

## Intake and analysis

`DocumentAnalysis` holds the functions without state, `DocumentIntake` follows
one file through them.

| State | Code |
|---|---|
| `stage` | where the file is; one action per stage, in the order of `UploadDocumentHandler`, the webhook and `ProcessTask` |
| `file` | the suffix of its name and what `http.DetectContentType` says of it |
| `parser`, `reading` | the choice of `ParserForPayload` and what that parser returns (a function of the file: the same on every attempt) |
| `text` | the text of the current attempt |
| `attempts` | history: text, class, confidence and summary of each attempt |

- A byte is of one of six kinds: what `SummarizeDocument` looks at (a space,
  the end of a sentence), and what PostgreSQL looks at (the two bytes of a
  two-byte character, a byte that is in no text). The limits 600 and 240 are
  the constants `SummaryLimit` and `SummaryFloor`.
- Keywords and patterns are abstracted to what the scores are computed from:
  an e-mail address, a telephone number, a number of keywords per topic.
- Go's random order over the map of scores is `\E order`. `AttemptsAgree` says
  how little depends on it: the class of a tie, and nothing else.
- `Readings` is the parsers' library as the code uses it. The bytes of an image
  or an archive are no valid text: a byte PostgreSQL refuses is among the first
  (`Binary`; `PK` and the NUL after it in a `.docx`), within the shortest cut a
  summary may have. `TextParser` never fails, and the URL of an upload is always a raw one under a bare UUID, so it
  gets every file Cloudinary does not call a PDF.
- Downloads (`LoadURL`) and their failures are in `DocumentPipeline`
  (`LoadOriginal`), not here. `cmd/helpers/documentHelpers.go` holds copies of
  the analysis functions that nothing calls; only its
  `IsAllowedDocumentUpload` is modelled.

## Startup

| State | Code |
|---|---|
| `main[p]` | `extending` in `db.New`, `locking ... unlocking` in `AutoMigrate`, `up` when it serves |
| `runner[p]` | `documentworker.Run`: `sealing` in `EncryptPlaintextChunks`, `running` with its asynq server, `stopped` after an error in the API |
| `schema`, `existed[p]` | what exists in the database, and what the process found when it last looked |
| `lockOwner` | the session that holds the advisory lock; `Ghost` when its client is cut off |
| `content[r]` | a row of `document_chunks`: plaintext, encrypted once or twice, deleted |
| `op`, `snap`, `todo`, `done`, `want` | a transaction, what its SELECT returned, the rows it has to come to, has locked, waits for |

- PostgreSQL is modelled as the code relies on it: READ COMMITTED, row locks
  held to the commit, a row looked at again when its lock is granted, deadlock
  detection, rollback with the session. These definitions are external.
- The advisory lock is taken over a connection pool. Losing the connection
  leaves the lock with the old session until the server notices; the deferred
  unlock then runs in another session and does nothing. This is why
  `MigrationsExclude` excepts a process that lost its connection.
- `CREATE EXTENSION IF NOT EXISTS` and gorm's look for tables are a look and a
  creation. The former is outside the lock: of two processes that start on an
  empty database one may end (`CreateExtensions`); it may be started again.
- Worker processes neither migrate nor wait for a migration: without the tables
  they end (`StartRunner`).
- The filter of `EncryptPlaintextChunks` passes over every old text that begins
  with `v1:`. One with three parts (`lookalike`) cannot be decrypted; one with
  another number of parts (`prefixed`) is returned by `Decrypt` as it is, and
  stays plaintext in the table. `RunnersFindNoPlaintext` leaves both out,
  `ChunksReadable` the first; new rows are always encrypted.

## The per-user gate

A request starts a goroutine that locks the user's mutex and waits for it or
for two seconds. Time is abstracted: the timer may fire, and a token may come,
at any moment. The model keeps what the code separates: `request[r]` is the
request, `locker[r]` the goroutine that locks on its behalf, `holder` the
request in whose name the mutex is locked. A request that gives up leaves its
goroutine behind. Web sockets bypass the gate and are not part of it.

## The chat

`ChatSession` is one guest. `step[s]` is the place in the handler that slot
`s` runs, in the order of the statements: `checkUploads`, `upload`,
`trackUpload` for an upload; `delete`; `checkQuestions`, `find`, `create`,
`ask`, `retrieve`, `answer` for a search. The two slots are goroutines of the
API; the gate lets one of them into a handler at a time, and the slips show
what happens without it (`BeginUngated`).

- Any step may fail (`StatementFails`) and the API may die between two steps
  (`CrashApi`). A message is a role and the number of its question.
- What is logged and not returned is modelled as such: a lost
  `document.uploaded` event still answers 200 (`TrackUpload`), an answer that
  cannot be saved was still streamed (`SaveAnswer`).
- `document.uploaded` is the only event of the analytics table that anything
  reads, so it is the only one modelled, by its dedupe key.
- `RetrieveChunks` has the branch in which the error of `SearchDocumentChunks`
  is assigned to a shadowing variable and becomes "no results".
- `GuestLimits` says what the best-effort event allows. The limit on uploads
  counts rows and events; a guest whose event was lost may delete the document
  and upload another. The second conjunct therefore has the premise that the
  events were recorded; with it neither deletions nor crashes help a guest.

## The status hub

`StatusHub` numbers the events of a document. `channel` is what the Redis
subscription has delivered; publishing may lose an event, as pub/sub does.
`current` is the document of the broadcast that holds the hub's mutex (`NoDoc`
when it is free), `left` the sockets it has not come to, `writing` the one it
writes to. A write takes as long as the browser takes: `peer[s]` is `reading`,
`stalled` (connected, buffers full, nothing read) or `gone`. `Add` and `Delete`
need the mutex and are one step each.

## Runs

Deadlock is not checked (`CHECK_DEADLOCK FALSE` in every configuration): a
system with a bounded number of uploads, requests or events rests when all of
them are answered, and users need not send more.

| Run | Instance | What it shows |
|---|---|---|
| `pipeline_safety` | 1 document, 2 deliveries of its webhook, 2 attempts, 2 retries, up to 2 chunks, 3 faults of any kind | ready means searchable, the only copy is kept, one claim per recorded failure, no work without a row, the count agrees, deleted is final, the lifecycle is implemented |
| `pipeline_one_delivery` | 2 documents, one with an incomplete payload, 1 delivery each, 2 faults (statements, panics) | a failed document leaves its task behind, the last event tells the outcome, ready is final |
| `pipeline_liveness` | 1 document, 1 delivery, 2 attempts, 2 retries, up to 3 timeouts, `FairSpec` | processing is owned by somebody and ends |
| `early_webhook` | 1 document, 1 delivery, no fault, `FairSpec` | disagreement 1 |
| `user_gate` | 4 requests, bucket of 1 | one at a time, answered requests release, all pass when nobody gives up |
| `gate_leak` | 2 requests; one gives up only while the other is served | disagreement 2 |
| `chat_session` | 2 documents, 2 slots, 1 upload, 2 questions | one conversation, answers after their questions, guest limits, history goes with its document |
| `status_hub` | 1 document, 2 sockets, 3 events, `FairSpec` | order, currency, membership, progress while no browser stalls |
| `stalled_socket` | 2 documents, 2 sockets, 1 event each, `FairSpec` | disagreement 3 |
| `startup` | 2 API processes, one of which runs jobs, 1 worker process, 1 session that deletes and replaces, 2 rows of 1 document, 1 fault (a crash, a failing statement or a lost connection), `FairSpec` | migrations exclude each other, chunks are encrypted once and before any task runs, deleted rows stay deleted, every start ends |
| `document_intake` | any file and type, all texts of up to 4 bytes with limit 3 and floor 1, all scores around the resume threshold, 2 attempts | only readable files become ready, summaries are proper beginnings, attempts agree, a class is earned |
| `missing_fallback` | the same | disagreement 4 |

Why the bounds are enough. Two attempts are the fewest that overlap (a
timed-out goroutine and its retry) and three faults allow a timeout, a failing
statement and a crash in one behaviour. Two retries give a first, a middle and
a last attempt; `asynq.MaxRetry` is 5 in the code and only "some are left" and
"none is left" matter. Two chunks tell "all" from "some" and from "none", and
let a retry write another number than its predecessor. Two deliveries are a
message and its duplicate; a third finds the same states as the second.
Documents interact only through the workers, so two are enough to see a slot
move from one to the other. Four requests allow one served, one waiting, one
that gave up and a newcomer. The guest's limits are 1 document and 5 questions
in the code; 2 questions tell "first", "last allowed" and "refused". Two
sockets are one that fails and one that must not suffer from it; three events
allow a lost one between two that arrive. At startup two processes migrate,
two encrypt and one session changes rows under them; two rows are the fewest
that two transactions can lock in opposite order, and the fault comes at any
step of any of them. Four bytes with a limit of three are one beyond it: every
position of a sentence end and of a character relative to the floor and the
limit occurs, also the two bytes of a character on either side of the limit.
`SomeFiles` has a suffix of every branch of `IsAllowedDocumentUpload` and
combines it with every detected type. Two attempts are what `AttemptsAgree`
compares. The theorems below do not depend on these bounds.

Symmetry is used in the runs without liveness only: deliveries and workers,
workers alone where the two documents differ, and documents and slots in the chat.

Fairness, and why the code justifies it:

- pipeline `FairSpec`: a request handler that has started goes on (each
  statement has a timeout), Cloudinary delivers what it has to deliver, asynq
  hands out runnable tasks and its recoverer finds expired leases, a started
  `ProcessTask` goes on (its calls have a context). Nobody has to upload or to
  delete;
- `UserGate`: goroutines are scheduled, a handler that serves ends (the router's
  timeout). No request has to arrive or to give up;
- `StatusHub` `FairSpec`: the listener goes on whenever it can; `Add` and
  `Delete` are granted a mutex that is free again and again (strong fairness: a
  Go mutex hands itself to a starving waiter); the handler of a silent browser
  notices the missing pong. No write has to end: that depends on the browser
  alone, because a hijacked connection has no deadline and the router's timeout
  leaves web sockets out (`timeoutExceptWebSocket`);
- `Startup` `FairSpec`: a process that has begun to start goes on, PostgreSQL
  resolves deadlocks and drops dead sessions. Transactions have strong
  fairness: a session that waits for a row is queued and gets it before those
  that come later, so it is not passed over for ever. Nobody has to start a
  process, to delete or to process a document.

Why three properties are checked with one delivery and without lost attempts:
with more, the code does not have them, and the two reasons are worth knowing.
A crash between destroying the original and asynq hearing of it repeats the
task, which can no longer download and marks a ready document failed. A
timed-out attempt that is still running has a `markDocumentFailed` with a
context of its own, which overwrites the result of its retry. `ReadyIsFinal`
and `LastEventTellsOutcome` exclude both; `ReadyIsSearchable` and
`OriginalNotLost` hold in spite of them, and are checked with all faults.

Why `ProcessingSettles` allows timeouts only: a document stays in `processing`
for good when `markDocumentFailed` itself fails, when a parser panics on the
last attempt, when the payload is incomplete, when the process dies between
the claim and the enqueue, and when a repeated delivery claims the row while
the archived task of an earlier one still holds the task id. The repository's
README.md:226 names ready and failed as the only ends.

## Where the code and its documentation disagree

Shown by a run:

1. `early_webhook`: the webhook may come before the row is saved. The claim
   matches nothing, the answer is 200, and the document stays `uploaded`
   (`cmd/documentController.go:332`, README.md:235-238).
2. `gate_leak`: the goroutine of a request that gave up takes the mutex later
   and nobody unlocks it (`cmd/middleware.go:110`; the comment at line 81).
3. `stalled_socket`: a browser that stops reading keeps the hub locked, also
   for browsers of other documents; its own handler waits for the same mutex
   before it would close the connection (`documentHubService.go:46`,
   README.md:318).
4. `missing_fallback`: the OpenAI fallback is documented for files the local
   parser cannot read (README.md:18, README.md:222), and images and `.docx` are
   listed as supported (README.md:328-336). But every upload is a raw one under
   a bare UUID, so `ParserForPayload` gives each file that Cloudinary does not
   call a PDF to `TextParser` (`documentAnalysis.go:207-221`), which returns any
   bytes without an error, and only an error leads to the fallback
   (`documentProcessor.go:132`). The counterexample is an image whose bytes are
   classified and summarised. By `ReadyIsReadable` it ends as failed, after all
   its attempts.

Behaviours the models contain and no run singles out:

- A delivery that claims a failed row between two attempts and enqueues after
  the second has completed the document starts work on a completed document
  (`cmd/documentController.go:362`, README.md:388).
- A running task stores chunks for a document deleted meanwhile; nothing
  removes them (`documentProcessor.go:225`, README.md:326).
- A failing `SearchDocumentChunks` is answered as `no_results`: in its branch
  `queryEmbedding, err :=` declares a new `err`, so the check after the branches
  (`cmd/documentController.go:467-471`) sees the outer one (line 453; README.md:276
  gives `no_results` another meaning). `RetrieveChunks` has it so.
- A summary without a sentence end is cut at byte 600
  (`documentAnalysis.go:61`). Inside a character that makes it invalid, and a
  readable document fails every attempt (the premise of `OnlyEllipsisSplits`
  says when it cannot).
- When `EncryptPlaintextChunks` fails, also as the victim of a deadlock, the API
  logs it and goes on without a runner (`cmd/main.go:105-124`): uploads are
  queued and nobody works on them, unless there is a worker process, which
  README.md:211 calls not required.

## Proofs

All theorems are about `Spec`, but for the two about the functions of
`DocumentAnalysis`, and hold for every value of the constants under the named assumptions of the modules: `ChunkAssumption` and `RetryAssumption`
(bounds are natural numbers, a document has at least one chunk to make),
`PipelineAssumption`, `GateAssumption`, `ChatAssumption`, `HubAssumption`,
`ChunkTableAssumption` and `StartupAssumption` (the markers `NoDoc`,
`NoRequest`, `NoSocket`, `NoRow`, `NoSession`, `Ghost` are no documents,
requests, sockets, rows or sessions; limits are positive; the kinds of process
are disjoint), `AnalysisAssumption` and `IntakeAssumption` (the topics are
finitely many, as in the map of `ClassifyDocument`; the limit of a summary is
positive, in the code 600; texts are sequences of bytes). Six theorems say in
their statement what else they assume.

| Theorem | Says | Argument |
|---|---|---|
| `TypeCorrect` | `TypeOK` of the pipeline | `TypeInv` = `TypeOK`, a slot has a document exactly while it runs (`SlotsOK`), and `StoreChunks` is reached with at least one chunk (`ChunksToStore`) |
| `ReadySearchable`, `OriginalKept`, `ClaimsAreBounded`, `WorkIsSaved` | the safety invariants of `pipeline_safety` | `SafetyInv` adds `SavedOnce`, `WorkIsClaimed`, `StoredBeforeRecord` and `ClaimsByStatus`. `ReadyIsSearchable` is not inductive: that chunks exist when the row is written rests on `StoredBeforeRecord`, which rests on deletion being the only way chunks go away |
| `PipelineImplementsLifecycle` | `Spec => Lifecycle!Spec` | `OriginalInv` over the above; one step or a stutter for every action |
| `CountsAgree` | `CountAgrees`, with all deliveries and faults | `CountInv`: only the attempt that asynq waits for writes rows or count; between the two it knows the rows, and a task that is gone has left both agreeing |
| `FailedIsQueued`, `ReadyStays` | `FailedKeepsTask`, `ReadyIsFinal`, assuming one delivery (`SingleDelivery`) and no timeout or crash (`NoLostAttempt`) | `FinalInv`: a task is enqueued once, by the delivery that claimed; every attempt is the live one of its task; nothing runs beside a ready document but the end of the attempt that made it ready |
| `LastEventAgrees` | `LastEventTellsOutcome`, assuming in addition that Redis delivers (`RedisDelivers`) | `EventInv`: the last event follows the row at every step of an attempt |
| `ProcessingOwned` | `ProcessingIsOwned`, assuming one delivery, complete payloads and timeouts as the only faults (`OnlyTimeouts`) | `OwnedInv`: an active task has its attempt, and an attempt that lost it still gets to write its outcome |
| `DeletedIsFinal` | `DeletedStaysDeleted` | proved of the abstract specification, carried over by the refinement |
| `GateTypes`, `GateExcludes`, `GateReleases` | `TypeOK`, `OneAtATime`, `AnsweredReleases` | `GateInv`: the mutex belongs to the goroutine of its holder |
| `GateIsTurnstile` | `Spec => Gate!Spec` (`Turnstile`) | `GateInv`; who is inside is who is `serving` |
| `GateMoves` | as long as nobody gives up, a request that waits implies one that can lock, enter or finish | `GateInv`, and a request that waits has its goroutine (`WaitingHasLocker`) |
| `ChatOneConversation`, `ChatHistory` | `OneConversation`, `HistoryHasDocument` | `ChatInv`: one handler at a time; at `create` the document has its row and no conversation yet |
| `ChatAnswers` | `AnswersFollowQuestions` | `QuestionPending`: between its two messages a search finds its question still last in the conversation |
| `ChatLimits` | `GuestLimits`, for `UploadLimit = 1`, which is the code's | `LimitInv`: the stored questions are among those ever asked, a handler that was allowed finds the count as it was (`Allowed`), and as long as no event was lost there was one upload and no question was forgotten but by its deletion (`OneUpload`) |
| `ChatBehindTurnstile` | `Spec <=> UngatedSpec /\ Gate!Spec` (`Turnstile`): the chat is its handlers on ungated routes behind a turnstile | a step that lets a second request in is no step of a turnstile; in the other direction `OneHandler` |
| `ChatImplementsTranscript` | `Spec => Seen!Spec` (`Transcript`) | `OneConversation` makes the transcript a function of the tables, `QuestionPending` makes an answer the answer to its last line, `HistoryHasDocument` keeps questions to documents that exist |
| `HubMembership` | `HubHoldsOpenSockets` | `SubscriptionsOK`: the hub holds a socket exactly from `Add` to `Delete`, under its document |
| `HubOrder` | `SeenInOrder` | `ChannelOK` orders the channel and puts it after what was received, `SeenOK` puts what was seen before the event on its way |
| `HubCurrent` | `SubscribersAreCurrent` | `CurrentInv` extends the property to the middle of a broadcast: it holds of every socket the broadcast is not still to serve |
| `HubImplementsFeed` | `Spec => Feed!Spec` (`StatusFeed`) | `JoinedOK`: a broadcast goes to sockets that were added before its event was received; with `ChannelOK` and `SeenOK` the event a write ends with is still the latest |
| `StartupTypes`, `StartupExcludes` | `TypeOK`, `MigrationsExclude` | `LockOK`: who migrates holds the lock or has lost its connection |
| `StartupReadable`, `StartupKeepsGone` | `ChunksReadable`, `GoneStaysGone` | `TableInv`, about the table alone: a row a session has changed is locked by it alone and exists, and a sealing session knows its rows by their plaintext. No step turns a row into plaintext or brings it back (`RowsOK`) |
| `StartupSeals` | `RunnersFindNoPlaintext` | `RunnersOK` over `TableInv`: every plaintext row is one that a sealing session will meet or has met, so its commit leaves none; nobody inserts plaintext |
| `StartupKeepsPromise` | `Spec => Table!Spec` (`ChunkLifecycle`): a commit is one step that encrypts plaintext, or replaces rows of one document, and nothing else | `TableInv`; a removal keeps to its document (`OneDocument`), a sealing session holds no lookalike (`SealsNoLookalike`) |
| `StartupFreesLock` | a live session that has the advisory lock is that of a process between lock and unlock (`LockIsInUse`) | one step per action |
| `StartupMoves` | with finitely many sessions an open transaction implies one that can go on or commit, or one that the deadlock check finds (`TransactionsMove`) | a session that cannot move waits for another open one (`WaitsOK`, `TransactionsOK`, `LocksOK`); of the sets of sessions that wait for each other a smallest one is a cycle (`WaitingHasCycle`) |
| `IntakeTypes` | `TypeOK` | `IntakeInv`: an attempt is what the analysis returns for its text (`AttemptsInv`), and a raw upload is read as a PDF or as text, the latter without an error (`ParserInv`) |
| `IntakeReadable` | `ReadyIsReadable` | a bad byte among the first of a text stays among the first when it is normalised (`NormalizeKeepsEarly`) and is in every summary of it (`SummaryOfBad`); such a summary is never recorded |
| `IntakeSummary`, `IntakeTidy` | `SummaryFollowsText`; a summary has no space at its ends and none beside another | `SummaryIsCut`, `SummaryTidy` |
| `IntakeSplits` | `OnlyEllipsisSplits` | the characters of a valid text are whole (`ValidComplete`), so a beginning that ends with a sentence end is valid (`ValidPrefix`); normalising keeps a text valid (`NormalizeValid`) |
| `IntakeAgree`, `IntakeEarned` | `AttemptsAgree`, `ClassIsEarned` | `ClassifyBest`: in every order of the topics the loop of `ClassifyDocument` ends with the highest score, and with none of a score of 0 |
| `NormalizeJoinsFields`, `SummaryOfSummary` | what `Normalize` does to any text; a summary is its own summary | the loop invariant `ComesFrom`, which maps every byte kept to where it was; a tidy text is left as it is (`NormalizeOfTidy`) |
| `ChatTypeCorrect`, `HubTypeCorrect` | the two `TypeOK` | part of `ChatInv` and `HubInv` |

Each invariant is proved with one step per action; facts about a helper are
lemmas. What the loops of `DocumentAnalysis` compute is proved for every text:
a fold is unfolded to the table of its values that defines it (`FoldTable`,
`FoldRun`), and induction over its rounds is by the least round at which the
claim would fail (`NatSet`), for the library's induction theorems, which take an
operator, are out of the prover's reach. Every safety invariant and action
property of the runs is proved. Only model-checked are the four liveness
properties (`ProcessingSettles`, `NoOneGivesUpAllPass`, `HubMovesOn`,
`StartEnds`), since liveness under fairness and ENABLED are out of reach. For
three of them the safety they rest on is proved: a document in processing has
somebody who works on it (`ProcessingOwned`), a gate that is waited for has a
step to take (`GateMoves`), and so have the transactions of a start, whose lock
is in use whenever it is held (`StartupMoves`, `StartupFreesLock`).

The first part of `GuestLimits` does not depend on the limit on uploads; its
second part is about the code's single upload: with two, deleting the first document would free the
questions asked about it for the second.

## What is not modelled

- Users, sessions and tokens: single inserts under unique indexes and a check
  of a signature, without state of their own between requests. The
  authentication of a web socket happens once, when it is opened.
- Parsing, formatting, signature verification, configuration, routes and the
  prompts: no state.
- A statement whose commit succeeds although its caller gets an error. A
  failing statement changes nothing here.
- Several API processes behind the gate: its mutexes and the hub are per
  process, and so are the properties that rest on them. (`Startup` has several
  processes.)
- Events and messages as texts, embeddings and similarity: abstracted to
  whether a document has chunks.
- Archived tasks that asynq drops after 90 days, and `asynq.Unique`, see above.

## What is left

1. Two API processes in front of one database, to say which of the chat's
   properties survive without a common gate: `OneConversation` and `GuestLimits`
   rest on it (`BeginUngated` shows how they fail).
2. Liveness of a start on an empty database in which the processes are started
   again by a supervisor; today nobody has to start a process.
3. The downloads of an attempt inside `DocumentIntake`, so that a file which
   cannot be fetched on one attempt and is read on the next is one behaviour.
