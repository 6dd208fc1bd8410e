# Baraq AI: specifications, model checking and proofs

Baraq AI accepts AI jobs from a Django gateway, works on them in Celery workers with
PostgreSQL, Redis and external AI providers, and reports results back to Django by signed
webhooks. This directory holds TLA+ specifications of that protocol, the TLC
configurations that check them on small instances, and TLAPS proofs about them.

Source paths below are relative to the repository root.

## 1. The system

| Component | State it keeps | Operations | What is hard | What makes it correct |
|---|---|---|---|---|
| **Job acceptance** `app/api/v1/jobs.py`, `app/services/job_service.py` | `ai_jobs` rows with a unique `idempotency_hash` of user and `client_job_id` | POST (lookup, ask Django for source versions, open a transaction, look again, insert, lose to the index and re-read), GET | concurrent and repeated requests, connections lost after the commit | one job per user and client id; every answer is justified by a stored row; retries name the original |
| **Job processing** `app/services/job_processor.py`, `job_state_machine.py`, cancel in `job_service.py`, retention in `app/workers/tasks.py` | job status, output row; the worker's own, never refreshed copy of the job | claim, transitions, pipeline, publish, error handler, cancel, cleanup | duplicate deliveries, crashes, stale session objects, an error handler that does not know whose job it is | at most one owner, atomic publication, final results, nobody abandons a job without a fault |
| **Outbox and webhooks** `app/services/outbox_dispatcher.py`, `webhook_delivery.py`, `backend_client.py` | `ai_job_dispatch_outbox` rows: status, lock, time of availability; claimed batches in memory; messages in the broker | recover stale locks, claim a batch, publish, mark, release; load, post, mark, release | overlapping runs, locks that age under a working holder, doubtful publishes, repeated messages, unclear answers | recorded as handed over only if it was; claims recoverable; claims exclusive; what is owed is done |
| **Asking providers** `app/services/generation.py`, `provider_budget.py`, `app/providers/router.py`, `circuit_breaker.py`, the adapters, the loops of `app/pipelines/sada.py` and `app/rag/embeddings.py` | `provider_attempts`, monthly usage rows, Redis counters and circuit keys | choose an account per provider, ask, retry, fall back, record success or failure | a budget that is read long before it is written; INCR, EXPIRE and SET as three commands; a record that fails after a successful call | usage is what the recorded attempts cost; overshoot is bounded; no answer is paid twice without cause; counters forget; every call ends |
| **Source ingestion and retrieval** `app/services/source_ingestion.py`, `app/rag/repository.py`, `retriever.py` | document and chunk rows | fetch, verify, extract, embed, replace; embed the query, retrieve | jobs that ingest one version at once, in any order; a file replaced between acceptance and work; rollback after a broken session | a version's chunks are whole; what was ensured stays retrievable; evidence is of the frozen versions; nobody waits for ever |
| **Chunking** `app/rag/extractors.py`, `chunker.py` | none | cut pages into overlapping chunks | what is carried over a chunk's and a page's end, cut, and dropped as a repetition | no sentence is torn or lost; sentences across a boundary meet in a chunk; chunks are bounded and stay near their page |
| **Evidence and grounding** `app/rag/reranker.py`, `retriever.py`, `grounding.py` | none | rank, fill the context, cite, check claims | context and citations are two lists with one numbering; limits of number and size | accepted claims are supported by what the model saw; no chunk displaces a better one |
| **Pipelines** `app/pipelines/*` | the job's prompt fields | one `execute` per task type | SADA's loop over transcription providers | an output is validated before it is returned |
| **Study plan scheduler** `app/services/khota_scheduler.py` | none | build days, validate | a rest too short for a session, excluded days, rotation | no day over capacity, every free day used, subjects and topics shared evenly |
| **Lab** `app/lab/*`, `app/application/standalone.py`, `app/api/v1/lab.py` | SQLite tables and files of a workspace; a dictionary of running tasks | upload, submit, run, delete, save a transcript | death of the process between a file and its row; deletion while a job runs | jobs settle; rows and files agree; what was deleted stays deleted |
| **Gate** `app/core/security.py`, `rate_limit.py` | nonces and counters in Redis | verify, consume a nonce, count | — | cryptography and one atomic Redis command each |
| **Feedback and training** `app/services/feedback_service.py`, `app/training/*` | feedback rows, candidates, dataset rows and JSONL files | post, build a candidate, review, export | overlapping posts on one row; overlapping exports; a file outside the transaction | the row is the last post; a candidate is exported once; the manifest is true of the file |
| **Adapters, prompts, evaluation, configuration, shell** | none | HTTP, read-only registries, offline scoring | — | not protocols |

How they meet: the API writes a job and its `process_ai_job` event in one transaction. A
dispatcher run, started by Celery beat every ten seconds, claims pending events and sends
them as messages. A worker that receives a job's message claims the job under its row
lock, runs the pipeline and writes output, `deliver_result_webhook` event and COMPLETED in
one transaction. The next dispatcher run sends that event to a webhook handler, which
posts the result to Django and marks the event. Cancel and retention act on the same rows
from outside. Celery is configured with `task_acks_late` and `task_reject_on_worker_lost`,
so a message is repeated when its worker dies and may be repeated at any time.

Inside a job, the pipeline goes through its sources and its evidence (`SourceIngestion`)
and asks its providers (`Generation`), in short transactions of its own.
Those two, the Lab and feedback share nothing with each other but the rows named above, so
each is a module of its own; in `JobLifecycle` they are the one step `PipelineReturns`
or `Raise`.

`PROJECT.json` lists the hazards of this code line by line, with the property that covers
each or the reason why none does yet.

## 2. The modules

| Module | Models | Used by |
|---|---|---|
| `JobStateMachine` | the transition table and its acceptance test | `JobLifecycle` |
| `JobPromise` | abstract: what Django may rely on (accepted, taken up once, published once, never withdrawn, purged) | refined by `JobLifecycle` |
| `JobLifecycle` | API, workers and retention over job rows | `JobSystem` |
| `OutboxDispatcher` | dispatcher runs, broker, webhook handlers over outbox rows | refined by `JobSystem` |
| `JobSystem` | both together, sharing outbox rows and messages | |
| `JobCreation` | concurrent POST requests up to the commit that is `CreateJob` in `JobLifecycle` | |
| `Generation` | provider calls of concurrent workers: routing, retries, budget, circuit breaker | |
| `SourceIngestion` | jobs that ingest and retrieve shared sources | |
| `Chunker` | the chunker, sentence by sentence | extended by `Evidence` |
| `Evidence` | search, reranking, context, citations and the check of claims, on the chunks of a document | |
| `StudyPlan` | the scheduler as functions, and what a plan promises | `Lab` |
| `Lab` | the standalone process: workspaces, files, jobs, restarts | |
| `Feedback` | posts, candidates, review, retention, exports | |
| `MCOutboxDispatcher`, `MCGeneration`, `MCSourceIngestion`, `MCEvidence`, `MCLab`, `MCFeedback` | symmetry and the values of structured constants, for TLC | |
| `JobLifecycleProofs`, `OutboxProofs`, `JobSystemProofs`, `JobCreationProofs`, `GenerationProofs`, `DocumentProofs`, `LabProofs`, `FeedbackProofs` | the theorems | |

Definitions named "Mutant of X" in a comment are plausible bugs of X. No action uses
them: they are there to show that the properties notice such a bug.

### JobLifecycle

`status`, `outputs` and `outbox` are the rows; `pc`, `task` and `seen` belong to a worker.
`seen` is the point of the model: `process_job` runs in one session created with
`expire_on_commit=False`, so its `AIJob` object keeps the status that the worker itself
last wrote. Every transition is decided on `seen` and written over `status`
(`Persist`), and the second `_locked_job` returns the same object, so that its checks
(`MustStop`) look at `seen` too. Only `_cancellation_requested` (`PipelineReturns`) and
the error handler (`MarkFailed`, a session of its own) read the row. Statements under one
row lock are one action; each commit ends one. `Deliver` may hand a message of any job
that was ever accepted to any idle worker: that over-approximates every redelivery.
`pipeline.execute` is one step that returns or raises: it writes no status.

### OutboxDispatcher

Each method of the class is one transaction and one action. `held` and `current` are the
batch that a run has in memory; after `EnqueueFails` or a crash they differ from what the
rows say, which is where the interesting states are. A publish that raises may have
reached the broker. Time is not counted: `LockAges` makes any lock old at any moment
(also under a working holder), `BackoffElapses` ends a backoff. The order in which
`claim_pending` fills a batch is left open. `Insert` and `Delete` stand for the job
transactions; their guards are the assumptions that `OutboxImplemented` discharges.

`handedOver`, `redirected` and `recovered` are history variables; no guard except that of
`Insert` and `ProcessMessageReturns` (which describe the environment) reads them. Two sets
of Django's `Answers` are kept apart: `Success` is what the code takes for an
acknowledgement (any status below 400 with a JSON body), `Stored` what
`docs/BACKEND_AI_HANDOFF.md:108-110` promises one for (2xx, whatever the body). `handedOver`
follows `Stored`, the row follows `Success`.

### JobSystem

Instances of the two modules, with the actions that belong to both: `CreateJob`,
`Publish` and `CleanupExpired` write job and outbox rows in one transaction; `Deliver`,
`WorkerDies` and `DeliveredAgain` move messages. Here `Deliver` needs a message that the
dispatcher really sent. Everything else is one component's step with the other unchanged.

### JobCreation

A scope is what the unique index covers (user and client id); an input stands for the
hash of the semantic payload. Rows of open transactions (`pending`) are invisible to
others but block an insert of the same key. `SharedSession = TRUE` is the endpoint as it
is, where `session.begin()` follows a SELECT on the same session; `FALSE` is the same
code called with a session of its own, so that the races behind line 102 can be examined.
The proofs cover both.

### Generation

`run[w]` is the call that worker `w` performs, with everything it has not committed:
candidates left, tries left, the usage it read, what its last verdict decided. `kind`
tells the four callers apart: `generate` (the loop of `generation.py`), `transcribe` (that
of `sada.py`), `embed` and `moderate`; `Route`, `Tries`, `Budgeted`, `Cost`, `Verdict` and
`SessionBroken` say where they differ. The router gives at most one account per provider
(`ConsiderProvider`), chosen by the circuit alone. `Replies` are what a provider may do;
`OpenAIVerdict` and `GeminiVerdict` are the two adapters' classifications. Recording a
success deletes the circuit's keys, then reads the usage row, writes `read + cost` and
commits: `holder` is the row lock of that transaction, and the value written is the one
that was read, not the one that is there, so that sums can be lost (`raced`). Recording a
failure is INCR (`Count`), EXPIRE (`Expire`) and SET (`OpenCircuit`), each an action.
Redis errors escape the routing and the except clauses (`RoutingFails`,
`RecordFailureFails`); a Redis error while a success is recorded is taken for a failure of
the provider (`RecordSuccessFails`); a database error makes the session unusable. Costs are
units. `orphaned` and `raced` are history: they name the accounts for which a crash or a
race took away what the properties promise of the others.

### SourceIngestion

A document is a pair of source and version. `chunks` holds committed rows only; a worker's
flushed rows are `pending` in its `job` record and `lock` is the row lock its transaction
holds. `frozen` are the versions the job was accepted for, `served` what the backend
serves: manifest and download compare them. `ensured` is what `ensure_ingested` has
returned for. `Retrieve` picks any part of the retrievable chunks up to the limit:
similarity, reranking and the size of the context decide which (`Evidence` has that), and
no property here depends on it. `EmbedDocuments` and `EmbedQuery` are calls of
`Generation`'s kind `embed`, by their outcome.

### Chunker and Evidence

Two computations as small machines, the second on the result of the first. In `Chunker` a
page is the sequence of its sentences and a sentence one of characters; an action is what
the loop does with one sentence (`Collect`, `Flush`), with one part of a sentence that is
cut (`Cut`), at the end of a page, where the tail of the last chunk is carried into the
next (`EndPage`, `SkipPage`), or with one chunk when repetitions are removed
(`Deduplicate`). What a file gives as pages and where sentences end is input. In
`Evidence` a term is a word, what stands between spaces, of any length (`Words`); an
`Excerpt` ends at a number of characters, so that it may end in the middle of a word,
whose beginning is then a word of the excerpt. `Search` returns any chunks with any
similarities, the most similar first; `ShowBlock` adds the best ranked of those that
remain to the context, with its citation, and `EndContext` is the end of that loop, by its
limits or for want of chunks; the claims that a model may come back with are checked in
the order of the pipelines: questions with references for a quiz, flashcards with or
without and then the summary against all citations. Scores are compared as integers; with
similarities up to 100 hundredths they never reach their clamp, and their rounding to six
digits is left out.

### StudyPlan and Lab

`BuildPlanDays` computes the schedule of a request as the code does, with sessions filled
by a recursive function and subjects and topics taken in turn. `HardConstraints` is
`validate_hard_constraints`; `FairPlan` states what the plan promises without the
algorithm: every day left is used, in order, but for less than ten minutes, and lists are
shared evenly. `Even` counts with multiplicity, because a request may name a subject twice
(nothing in `KhotaRequest` forbids it) and then gives it two turns: in `rounds` full
rounds a value comes `rounds` times as often as it is listed, and in the last one no more
often. `Lab` calls it where the standalone service does, and never validates.

The Lab is one process with an event loop and a synchronous store, so that an action is
what runs between two awaits, and `Die` may come between any two of them (and, in
`DieInUpload` and `DieInDelete`, between a file and its row). `tasks` is the dictionary in
memory, emptied by `Restart`; everything else survives. `Saved` is an UPDATE, void for a
deleted row.

### Feedback

`post[h]` is a request with the row it read (`seen`): SQLAlchemy writes the columns that
differ from that (`Written`), whatever the row holds by then. `export[e]` has the
candidates it selected and their text: each line in two pieces, the lines in any order,
because the query asks for none. The file at a path is a sequence of pieces outside the
transaction. `OpenFile` empties it, `FlushBuffer` writes the text up to any piece,
`CloseFile` the rest, and only then comes `CommitDataset`; each write goes to the process's
own place in the file (`WriteAt`), whatever others did to it meanwhile, and leaves a `Gap`
if the file has become shorter. `mixed`, `shared` and `disturbed` are history variables
that no guard reads. They name the interleavings after which a promise no longer holds, so
that the properties say exactly when it does.

## 3. What the runs check

| Run | Instance | Shows |
|---|---|---|
| `job_lifecycle` | 2 jobs, 2 workers | nine properties of `JobLifecycle`, among them the refinement of `JobPromise` and a liveness property |
| `taken_up_job_settles` | 1 job, 1 worker | violation: after a crash behind the claim, redeliveries are discarded for ever |
| `outbox` | 1 job (2 events), 2 dispatcher runs, 2 handlers, batches of 2, 1 message copy | four properties of `OutboxDispatcher` |
| `job_system` | 1 of everything | the composition keeps the outbox's assumptions, keeps what it reported, and does what it owes |
| `result_never_lost` | 1 of everything | violation: retention deletes an undelivered result |
| `job_creation` | 2 requests, 1 scope, 2 payloads, 2 jobs | uniqueness, justified answers, retries |
| `new_request_is_accepted` | 1 request, `SharedSession = TRUE` | violation: `begin()` after autobegin |
| `generation` | 2 workers, 1 account per provider, budget 1, threshold 2, 1 retry, 2 calls, 1 disturbance | five properties of `Generation`, among them that every call ends |
| `source_ingestion` | 2 workers, 3 sources (one edited, one without text), 2 jobs of 5 kinds, 1 fault | wholeness, retrievability, frozen evidence, and that jobs end |
| `grounding` | all documents of up to 3 pages with 4 kinds of sentences, chunks of 6, overlaps 0, 2, 3; questions about two of them, up to 3 hits, claims with up to 2 references | the text is kept, claims are supported, the best evidence is shown |
| `lab` | 1 workspace, 4 contents, 2 uploads, 2 jobs of 4 task types, 1 fault | rows, files, tasks and plans; jobs settle |
| `feedback` | 1 output, 3 posts by 2 handlers, 2 exports of up to 2 lines, 1 path, 2 names, 1 fault | the row, the datasets and their files |

**Properties that hold.** `OneOwner`: no two workers ever work on one job.
`OwnerMissesOnlyEndings`: the stale copy can be wrong only about an ending.
`RowsMoveTogether`: status, output and events agree whenever another session can look.
`CompletedIsFinal`, `EndingsOverwrittenOnlyByStaleOwner`: what is left of "terminal states
never return to processing". `AbandonedOnlyByFault`: only a death or a failing error
handler leaves a job in processing without a worker. `TakenUpJobSettlesUnlessAbandoned`:
other jobs settle. `DispatchedMeansHandedOver`, `ClaimsAreRecoverable`,
`ProcessClaimsAreExclusive`, `DispatchedJobStaysDispatched`: the outbox records nothing
that did not happen (but for a redirect, below), never loses a claim, and duplicates a
job's message only after a lock was taken back. `ReportedResultIsKept`,
`WhatIsOwedIsDone`: end to end. `OneJobPerScope`, `AnswersAreJustified`,
`RetriesNameTheOriginal`: idempotency.

`UsageIsCharged`: the month's usage never exceeds what the committed attempts cost, and is
exactly that unless two sums raced. `OvershootIsBounded`: without a race, a budget is
exceeded by less than what one call per worker costs. After a race there is no bound at
all, since a lost update can take the usage back to any earlier value.
`SecondAnswerNeedsRedisFailure`: a generation asks again after an answer only if Redis
failed while that answer was recorded. `CounterForgets`: a failure counter without time to
live has a worker about to set it, or one that was stopped there. `GenerationEnds`: retries
are bounded and nobody waits for ever for a usage row.

`VersionIsWhole`: whatever jobs ingest a version at once, its committed chunks are one
complete ingestion's or none, and READY means there are some. `EnsuredStaysRetrievable`: a
concurrent job may replace the chunks, or even mark the version FAILED, but not take away
what `ensure_ingested` promised. `EvidenceIsFrozen`: never newer or older material than
accepted. `JobEnds`: no deadlock on document rows, although they are held during the
embedding calls and jobs name their sources in any order, because each is committed before
the next is begun. The mutant of `JobEnds` is the version that commits with the job.

`ChunksKeepText`: a sentence that fits a chunk is whole in one, of a longer one every
stretch longer than the overlap is, and the end of a sentence and the next sentence meet in
one chunk, also across pages. `ChunksAreLocal`: a chunk is not longer than its size or else
than overlap and one sentence, and text of another page is only in its first characters, as
many as the overlap. `AcceptedClaimsAreQuoted`: claims are checked against the citations,
but what holds is about the context that the model was shown under the same numbers, and
it names the one thing that counts without standing there: the beginning of the word that an
excerpt's end cuts in two. KHOLASA's `detailed_summary` is a claim that no pipeline checks,
so the property says nothing of it.
`BetterEvidenceFirst`: neither weights nor limits show a chunk instead of one that is better
in similarity, words and title.

`UnsettledHasTask`, `JobSettles`: only a fault can leave a Lab job queued or working.
`FilesMatchRows`, `RowsHaveWorkspace`: uploads, deletions and running tasks leave files
and rows consistent but for named deaths and deletions whose transaction fails.
`PlansKeepConstraints`: the plans shown keep the constraints and share days, subjects and
topics evenly. `FeedbackIsLastPost`, `ExportedOnce`, `ManifestMatchesFile`: what is left
of these promises. The first two delimit what can go wrong rather than exclude it: a row
decided on an outdated one may be mixed (`mixed`), two exports at once may take the same
candidates (`shared`), and that an export overwrites a verdict revised meanwhile is not
seen by either. `ManifestMatchesFile` compares a frozen dataset's file with the text whose
SHA-256 its row carries, line by line; it says that deaths in the middle of a line,
refused names and leftovers of earlier exports never break it, and that one thing does:
another export with the same path that opened or wrote the file after this one had opened
it.

**Disagreements.** Three statements of the documentation do not hold of the code; each is
a `violation` run, and `PROJECT.json` ("findings") quotes the statement and the lines.
Others have no run of their own: where a property is about them, it states the exception,
exactly and by name. "Terminal states never return to processing" is not true of a cancel
that the owner's stale object overwrites (the exact exception is
`EndingsOverwrittenOnlyByStaleOwner`). `docs/BACKEND_AI_HANDOFF.md:109` says that non-2xx
answers are retried; a redirect with a JSON body is recorded as DISPATCHED and never sent
again (`backend_client.py:59,71`; the exception of `DispatchedMeansHandedOver`, and what
`WhatIsOwedIsDone` takes for done). `scripts/export_dataset.py:31` calls a dataset's name
"Immutable" and `README_AR.md:123` a dataset frozen with its SHA-256; an export to the
path of a frozen dataset replaces its file, even if it is then refused its name or dies,
and two that write at once leave a file of both (`exporter.py:33`; the exception of
`ManifestMatchesFile`). `README_AR.md:122` and `docs/TRAINING_DATA_AR.md:20` say that
duplicates are removed or not used for training; every update of a feedback row adds a
candidate, alike or not, and nothing compares them (`Commit`, `Built`). `README_AR.md:51`
lets a request move on to the secondary account when the primary exceeds its budget; the
router offers one account per provider before budgets are asked (`ConsiderProvider`), so
that it moves on to another provider only. `docs/RAG_GROUNDING.md:7` says that citations
carry the page; a page's first chunk may consist of nothing but what was carried over from
the page before (`Flush` after `EndPage`), and is cited under the later page.
`grounding.py:57-58` asks for support "from the cited text"; what is looked at is the
excerpt, so that a claim in the words of the rest of its chunk is refused (`Covered`), and
one that only has the beginning of the word at the excerpt's end (`retriever.py:83`) may
be accepted, although no text says it (`CutOff`, the exception of
`AcceptedClaimsAreQuoted`).

Observations that contradict no document, and that the models reproduce: SADA uses a
transcript although its attempt was recorded FAILED; transcriptions cost nothing and
embeddings are charged to no budget; candidates stay when consent is withdrawn, and an
export sets EXPORTED over a verdict that was
revised after it selected; a plan with more than twenty sessions a day is refused by its
own model; no endpoint of the Lab calls `delete_workspace`; re-ingestion leaves citations
of the old chunk identities dangling (identities are not modelled, only who inserted a
chunk).

**Bounds.** Two workers are enough for ownership and staleness: a worker interferes with
another only through one job's row. The second job of `job_lifecycle` is there because
`CleanupExpired` deletes sets and a worker moves from job to job. Two dispatcher runs are
enough for a claim to be taken twice, and two handlers for one result to be posted twice;
a batch of two makes a run fail with part of its batch still claimed. `MaxCopies` bounds
the copies of one message that the broker keeps apart: a further copy is absorbed, and
since a message can also return (`ProcessMessageReturns`, `DeliveredAgain`) after it was
consumed, one copy already gives any number of deliveries. `MaxJobs = 2` lets a purged job
be created anew.

`generation` begins two calls, which is what a race on one usage row takes, with a budget
of one unit and any usage left of the month so far (`Init`), so that both may pass the
check before either records; a threshold of 2 and one retry let one call open the circuit
alone or with the other's help; one disturbance of any kind may come anywhere. `grounding`
has sentences that fit twice, once with a space, that do not quite fit and that do not by
far, which with two on a page and three pages reaches every branch of the chunker after
every other; the documents asked about give chunks shorter and longer than an excerpt and
than the context, two of three hits are ranked, and half of a claim's terms are asked for
where the code asks for 8 % (with few terms any lower threshold is "one of them").
`source_ingestion` has two jobs over the same two sources in opposite orders, a version
replaced between acceptance and work, a scan that cannot be read, versions an earlier job
left FAILED, and two chunks per version, so that a part of them would be seen. `lab` and
`feedback` have the two actors every one of their races needs, and one fault; with two
lines of two pieces an export is longer or shorter than another's, and torn within a line.
The proofs have none of these bounds; where a bound is a constant (`MaxJobs`,
`MaxUploads`, `MaxPosts`...) they hold for all its values.

**Fairness.** `JobLifecycle` assumes of each worker that it takes its next step or raises:
every await in `process_job` has a timeout. Delivery, crashes, cancels and retention are
not fair. `JobSystem` adds that idle workers take messages that are there, that beat
starts dispatcher runs and runs go on, that handlers go on (an answer of Django is not
assumed to be a success), and that locks age and backoffs end. `Generation` and
`SourceIngestion` assume that a worker at work takes its next step (`Work(w)`): calls are
bounded by their timeouts, and PostgreSQL serves the waiters of a row when its holder
commits, rolls back or dies. Nothing is assumed of which reply comes. `Lab` assumes that
the event loop runs tasks that are ready (`RunTask(j)`). All are weak fairness of a
process's whole next step; `WF` of `Deliver` alone or of success is never assumed. The job
system's liveness is stated under "from some time on no fault": a system that fails for
ever delivers nothing.

Deadlock is checked in the runs of `JobLifecycle`, `OutboxDispatcher`, `JobSystem` and
`JobCreation`. `Evidence` ends with its result, and `Generation`, `SourceIngestion`, `Lab`
and `Feedback` stop when their bounded number of calls, jobs, uploads or posts is used up;
there the liveness properties say that nobody is stuck before.

## 4. What is proved

For any number of jobs, workers, dispatcher runs, handlers, requests, scopes, payloads,
accounts, sources, workspaces, outputs and exports, any documents, chunk sizes, overlaps,
queries and claims, any batch size, budget, threshold and
number of retries, and any value of the models' bounds, under the named assumptions on the
constants only (the null values are not elements of the sets they are added to; sizes are
natural numbers; the set of workers of `Generation` is finite, as its bound counts them):

| Module | Theorems |
|---|---|
| `JobLifecycleProofs` | `Invariance`, `TypeCorrect`, `ExclusiveOwnership`, `BoundedStaleness`, `AtomicPublication`, `CompletionIsFinal`, `EndingsAreFinalButForStaleOwners`, `OnlyFaultsAbandon`, `Refinement` |
| `OutboxProofs` | `OutboxInvariance`, `OutboxTypeCorrect`, `HonestDispatch`, `RecoverableClaims`, `ExclusiveClaims`, `DispatchIsFinal` |
| `JobSystemProofs` | `JobsAreLifecycles`, `JobsKeepTheirInvariant`, `CouplingInvariance`, `OutboxIsImplemented`, `ReportsAreKept` |
| `JobCreationProofs` | `CreationInvariance`, `CreationTypeCorrect`, `UniqueJobs`, `JustifiedAnswers`, `IdempotentRetries` |
| `GenerationProofs` | `GenerationInvariance`, `GenerationTypeCorrect`, `ChargesAreRecorded`, `BudgetOvershoot`, `OneAnswerUnlessRedisFails`, `CountersForget` |
| `DocumentProofs` | of `SourceIngestion`: `IngestionInvariance`, `IngestionTypeCorrect`, `VersionsAreWhole`, `EnsuredIsKept`, `FrozenEvidence`; of `Chunker`: `ChunkerInvariance`, `ChunkerKeepsText`, `ChunkerIsLocal`; of `Evidence`: `EvidenceInvariance`, `EvidenceIsQuoted`, `EvidenceIsBest` |
| `LabProofs` | `LabInvariance`, `LabTypeCorrect`, `UnsettledJobsHaveTasks`, `FilesAgreeWithRows`, `DeletedStaysDeleted`; of `StudyPlan`: `PlansAreSound` |
| `FeedbackProofs` | `FeedbackInvariance`, `LastPostStands`, `ExportsAreDisjoint`, `ManifestsAreTrue` |

*JobLifecycle.* None of `OneOwner`, `OwnerMissesOnlyEndings`, `RowsMoveTogether` is
inductive alone. `CopyFollowsStep` says that the position in `process_job` determines the
session copy; with it and `OwnerMissesOnlyEndings`, an owner excludes the status `queued`,
so that no second claim is possible, and a publishing worker finds neither an output nor a
webhook event. The action properties and the refinement of `JobPromise` follow step by
step from the invariant.

*OutboxDispatcher.* `ProcessClaimsAreExclusive` needs `ClaimsFollowRows` (while a run
holds a process event that was never recovered, its row is DISPATCHING, so nobody else can
claim it), and that in turn needs exclusiveness when a run marks or releases its event.
`DispatchersFollowStep` and `HandlersFollowStep` tie what a process holds to its step, and
say that whoever is about to mark has handed over. `DeletedRowsAreFresh` is the convention
that an absent row has the default status.

*JobSystem.* Every step of the system is one of `JobLifecycle`'s, or leaves its variables
alone, so that the invariant proved there holds here (`JobLifecycleProofs` is instantiated,
nothing is proved twice). The converse, that jobs keep what `OutboxDispatcher` assumes,
needs the coupling: an event was inserted exactly when its job reached the status that
inserts it (`RowsFollowJobs`), and whatever is claimed, on its way or handled was inserted,
a job's message only after a dispatcher handed it over (`MessagesFollowRows`). Then the
webhook event a worker inserts is new, because an owner's row is neither completed nor
purged, and its process event was handed over, because the worker holds its message.
`ReportsAreKept` follows: what Django was told of had been inserted.

*JobCreation.* A row that is not committed yet must already exclude all others of its
scope: `PendingApart` says so, and `IdsDistinct` makes the rows a client is told of
identifiable.

*Generation.* `OvershootIsBounded` is not inductive: what counts is not what is charged but
what is charged and in flight. `BudgetKept` says that without a race the charges of an
account and the calls that have passed its check and not yet recorded stay below budget
plus workers; a step that newly flies has just seen usage, hence charges, below the budget.
`RunOK` ties a worker's step to what it has read, answered and decided: a usage row read is
never above the account's charges, and a second answer needs a failed Redis command.

*SourceIngestion.* The invariant adds one property of each job's record, `JobOK`: a chunk
set in flight is complete before it is committed (`pending` is `Rows` of this job), what a
job ensured has chunks, and its evidence is of versions it ensured. It is inductive because
nobody removes a version's last chunks: replacing writes a non-empty set, failing leaves
chunks alone.

*Chunker.* The theorems are about texts of any length, so that they need facts on
stripping, joining and cutting off a tail first: what stripping leaves, that a text
without space at its ends survives the stripping of whatever it is in
(`SolidStaysWithin`), that the tail of a text with a given end keeps that end if it is no
longer than the overlap (`TailKeepsEnd`). Where a least or a greatest position is needed,
`LeastNatural` gives it, which the library proves from well-foundedness. `ChunkerInv` says
where the text read so far is: each piece of a sentence that is done is in a chunk or in
what is collected (`SentencesHeld`), of a sentence that is being cut all stretches that
begin in the parts done are (`CutSoFar`, two parts share the overlap), so is every meeting
of neighbours (`MeetingsHeld`), because what is collected ends with the tail of the last
sentence done, over page ends and pages without text (`EndIsCollected`), and what the
deduplication drops is there already (`NothingIsDropped`). At a page's end all that is
collected becomes a chunk, so that at the end everything is in chunks. Locality needs that
at a page's start nothing is collected but what was carried over, which is no longer than
the overlap, and that stripping moves no character to the right.

*Evidence.* Its steps leave the chunker's variables alone, or are the chunker's: the
invariant above holds in `EvidenceSpec` too. Citations are the excerpts of the blocks,
number by number (`CitationsMatch`), so that what a claim's citations cover its blocks
say. A word of an excerpt is a word of its block, or is cut by the excerpt's end
(`ExcerptOfText`), wherever that falls. Whatever is shown ranks before whatever is not
(`BestIsShown`), and a hit that is better in every respect is never ranked behind
(`BetterIsBefore`): its score is higher, unless the query has no terms; then all scores
are zero, and the search had it first.

*Lab.* The invariant has three parts. `FilesInv`: files and rows agree, and source
identities are not reused (none is above `uploads`). `JobsInv`: an unsettled job has its
task or was lost. They meet in the workspaces: every row that is there has its workspace,
and only a deletion takes one away. `PlansInv`: a plan is completed by its own first step
or not at all, because a task that waits for a transcription or a provider has no plan to
make; so a completed plan is one that `HasPlan` lets through.

*StudyPlan.* The theorem is about every valid request, whatever its days, minutes and
lists. The provers find no induction, so each recursive function (the cursor's days, the
sessions of a day, their total) gets two lemmas: that it exists, from longer and longer
functions that follow its equation (`Recursion`, `SessionsFill`), and what its values are,
by the least argument where it fails (`LeastNatural`, `UpTo`). `StudyDaysInOrder` says that
the days are exactly the ones left, in order; `SessionsUseTheDay` that the sessions use the
day's minutes but for less than a shortest session. Evenness is counted by injections: a
turn is determined by its round and its place in the list (`SameTurn`), so the turns of a
value lie between the pairs of full rounds and its places, and one round more
(`TurnsAreShared`); days of equal length are one sequence of turns (`TurnsGoOn`), by the
uniqueness of quotient and rest.

*Feedback.* `PostsOK` and `NumbersOK`: the number of a post names its candidate, and one
that is not committed is in no export. `ExportsOK`: what an export shares with another or
with a data set was selected by both at once (`shared`), and an export that has opened its
file finds in it exactly the pieces it has flushed, unless it is in `disturbed`. Two lemmas
carry this: what a process writes at its own place in a file left as it was continues its
text (`WrittenFile`), and a file that one process changes is on record for everybody else
who had opened it (`ChangedFile`).

`TypeOK` is checked by TLC in `job_lifecycle` only; for the other modules the theorems of
type correctness say more.

Only model-checked: the liveness properties (`TakenUpJobSettlesUnlessAbandoned`,
`WhatIsOwedIsDone`, `GenerationEnds`, `JobEnds`, `JobSettles`), which use fairness and are
out of the prover's reach. Every invariant and action property of a passing run has its
theorem. The three `violation` runs are, of course, only runs.

## 5. Plan

Done: the protocol that every job depends on (acceptance, processing, outbox, webhooks),
first the parts, then their composition, then the proofs of both; then what happens inside
a job (provider calls, sources, chunks, evidence and the check of claims), then the
components beside the service (Lab, feedback, training data). Left, in this order:

1. Polling and canceling by `client_job_id` alone (`job_service.py:198`), although two
   users may have used the same one: `JobCreation` with a second user and a lookup that is
   not unique.
2. The order of a batch (`outbox_dispatcher.py:50`): oldest first, so that events that are
   always released again may hold others up; `OutboxDispatcher` leaves the order open,
   which is safe for its properties but says nothing of starvation.
3. The vectors' model: chunks embedded by one provider and queries by another
   (`embeddings.py:17`, named in `docs/RUNBOOKS.md:58-59`).

## 6. Not modelled, and why

Prompts, the parsing of file formats, anonymisation, vector similarity, the guard's
patterns, the preservation score of transcripts and offline evaluation are computation
without a protocol; they enter by their possible outcomes. So do the contents of the
pipelines' results and RASHEED's metrics. Of the provider adapters only their verdict on a
reply is modelled: HTTP, response mapping and the mock and replay providers are I/O.
Request signatures, nonces and the rate limit are cryptography and one atomic Redis
command each. Configuration, prompt registries and the application shell keep no state a
property could be about. `priority_scores` of the scheduler only feeds a prompt, and the
lengths of a plan's texts are left out. The Lab's quiz attempts and feedback rows are
insertions nobody reads back in a protocol. Progress messages, timestamps, metrics and
error texts are left out: no property is about them.

`attempt_count`, the length of a backoff and the attempts' numbers are abstracted. A cancel
waits for the transaction that holds the job's row (`FOR UPDATE`): in the models the row
lock is an action's atomicity, so that the waiting is not seen. Lost database commits, a
failing PostgreSQL and Celery's own internals are outside; what the code sees of them (an
exception, a repeated message, a dead process) is inside.

## 7. Running

    tlc -config JobLifecycle.cfg JobLifecycle.tla
    tlc -config OutboxDispatcher.cfg MCOutboxDispatcher.tla
    tlc -config JobSystem.cfg JobSystem.tla
    tlc -config JobCreation.cfg JobCreation.tla
    tlc -config Generation.cfg MCGeneration.tla
    tlc -config SourceIngestion.cfg MCSourceIngestion.tla
    tlc -config Evidence.cfg MCEvidence.tla
    tlc -config Lab.cfg MCLab.tla
    tlc -config Feedback.cfg MCFeedback.tla
    tlapm JobLifecycleProofs.tla          (and the other *Proofs.tla)

The configurations named `<Module>_<Property>.cfg` are the runs that end in a violation.
