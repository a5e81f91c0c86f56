# DocuMind AI: the verification project

DocuMind AI takes PDF documents, extracts, classifies, scores and indexes them
in the background, and answers questions about them; its frontend is where they
are uploaded, followed, searched and asked.  This directory holds TLA+ modules
of the program, the TLC configurations that check them on small instances, and
theorems about them checked by TLAPS.  The backend is modelled where its
correctness depends on interleavings, failures, retries and boundaries; the
frontend (the TypeScript part of the repository) screen by screen: the state of
each screen, what every handler, effect, timer and answer does to it, and which
controls a screen offers in which state, which is what its markup decides.

Every definition is translated from the source; the `map` of `PROJECT.json`
names the lines each one stands for, and its `hazards` the places in the code
the properties are for.  Paths below are relative to the repository.

Contents: 1 inventory, 2 modules, 3 runs, 4 fairness, 5 proofs, 6 findings,
7 abstractions, 8 what is not modelled, 9 plan.

## 1. Inventory

### Components, their state and their operations

| component | state | operations |
|---|---|---|
| **document-service** (`services/document-service/app`) | `documents` rows, PDF blobs | create (blob, row, publish), read, bulk delete, bulk reprocess |
| **job queue** (`services/processing-service/app/queue`) | Redis stream `document_jobs`, its consumer group (last-delivered id, pending entries with owner, idle time and delivery counter), dead-letter stream | read, reclaim, dispatch, ack, dead-letter, drain |
| **job ledger** (`services/processing-service/app/repositories`) | `processing_jobs` rows, `documents.status`, result tables | claim, mark_stage, mark_completed, mark_failed, requeue, save results |
| **pipeline** (`services/processing-service/app/pipeline.py`) | one job's progress: text, classification, degraded flag, skipped stages | fetch, extract text, classify, then extract fields, summarize and assess risk in parallel, index |
| **resilience** (`processing-service/app/resilience.py`, `ai-service/app/resilience.py`) | circuit breaker: closed / open / half_open, failure count, opened_at | allow, record_success, record_failure, a call with bounded retries |
| **search-service** (`services/search-service/src`) | the lazily built store, chunks per document with embeddings, readiness | chunk, embed in batches, upsert, search |
| **ai-service** (`services/ai-service/app`) | rotation of models with cool-downs, limits of a request | embed, classify, summarize, extract, risk, answer, redact |
| **api-gateway** (`services/api-gateway/app`) | users, tokens | register, log in, proxy |
| **frontend, data hooks** (`frontend/documind/lib/use-async.ts`) | per hook: dependencies, data, status; per action: the runs under way | load, reload, retry, run, debounce |
| **frontend, calls and cache** (`lib/api.ts`, `lib/search`) | the library cache and its request in flight, the search index, lock-out timers | every call of a screen; search, rank, invalidate |
| **frontend, server** (`app/api`, `lib/server`) | none: it pages through document-service for each request | list, counts, dashboard, document, status, upload, search, ask |
| **frontend, screens** (`app/(dash)`, `app/login`, `app/register`, `components`) | upload queue; list, document, dashboard, chat and Q&A pages; sign-in pages; rail, badges, splash; command palette | handlers, effects, timers, answers |

### How they interact

1. `document-service` stores the PDF, commits the `documents` row, then adds an
   event to the Redis stream.  The three stores share no transaction.
2. Every processing pod reads the stream through one consumer group.  A message
   is pending from the moment Redis hands it out until it is acknowledged; a
   pending message idle for longer than a threshold is taken over by whoever
   reclaims first.
3. A job claims its row in `processing_jobs` (keyed by the message id), runs the
   pipeline (calls to ai-service and search-service, each behind a circuit
   breaker), records the outcome in Postgres and only then acknowledges.
4. search-service cuts the text into chunks, has ai-service embed them in
   batches and upserts them one by one.
5. The frontend's server turns the pages of document-service into what a screen
   asks for, and every failure into an envelope; `lib/api.ts` turns that into an
   `ApiError`, and `useAsync` and `useAction` into the state of a screen.
6. Screens poll what is in the pipeline: the upload page each document, the list
   its page, the document page its status, the dashboard its flagged rows, the
   rail its badges.  The palette and the chat page share one cache of the library.
7. A question goes from the page through retrieval (search-service) and
   generation (ai-service), three calls in a row in the browser's name.

### What is hard

* **Interleaving and atomicity**: two pods with one message; load and commit of
  a transaction without a lock; deletion or reprocessing of a document while its
  job runs; calls that share a breaker; threads that share a lazily built store;
  clicks between a commit of React and its effects.
* **Order**: answers that arrive late, in another order than they were asked
  for, or after the screen has moved on; callers that share one request.
* **Failure**: a pod dies between any two steps; replies of Redis are lost after
  the command was applied; Postgres fails a transaction; acks and dead-letter
  copies fail and are logged away; a connection dies under a store; any read of
  a screen fails.
* **Timing**: the reclaim threshold, the job time-out, the drain deadline, the
  reset of a breaker, retries against a deadline; polls, debounces and lock-outs.
* **Accounting and boundaries**: two attempt counters that are reconciled; a
  bounded budget; the cutting of texts and batches; two limits on one batch;
  caps per kind of hit and on all hits.

### What makes each component correct

* queue and ledger: no job is lost; a completion is final; the tables agree; the
  attempt number is paid for by deliveries; every job ends.
* document-service: a row has its file; who waits has a job; a completed
  document is searchable; a deleted one leaves nothing.
* pipeline: a failed enrichment call never fails the job; what has been
  accounted for writes nothing more; every run ends.
* resilience: a circuit opens on failures in a row, an open one lets almost
  nothing through, and it always closes again; a call is bounded.
* search-service: chunking terminates and loses no passage; an answered document
  stays whole; no batch is one the other side rejects.
* upload page: the limit on uploads holds; no late answer brings a cancelled file
  back; every file is sent and the end of every run is shown.
* other screens: what is shown as loaded is of what the controls say; nothing
  stays on a screen as being processed when it no longer is; no action runs
  twice; an answer follows its question and stays in its scope; every question
  is answered to the end; every match of a search is accounted for.

## 2. Modules

In the order they were written, the most important behaviour first.

| module | models | state | actions |
|---|---|---|---|
| `JobLedger` | the transactions on `processing_jobs` and `documents.status` (`repositories/jobs.py`) as operators: what a commit writes, given what was loaded and what is there by then | - | - |
| `JobQueue` | the fleet on its stream (`queue/consumer.py`, `deadletter.py`) | stream, group, ledger, and for each pod its loop (`phase`, `batch`, `stopping`) and its slots (`task`, a program counter per slot) | `Publish`, `DeleteDocument`; the loop: `Reclaim`, `Read`, `Dispatch`, drain; the task: count, load, load, commit, run, dead-letter, ack; `Crash`, `Stop`, `Restart`, lost replies |
| `JobContract` | what the queue promises of a job | `submitted`, `outcome`, `retired` | submit, start, complete, defer, reject, void, retire |
| `JobQueueProps` | properties, fairness, the refinement of `JobContract`, the inductive invariant | | |
| `ReclaimTiming` | the same loop with clocks instead of the ledger | idle time of messages, age of jobs, what waits for a slot | read, reclaim, dispatch, finish, crash, tick |
| `Pipeline` | one run of `ProcessingPipeline.run` under `wait_for` | state and age of each stage, time spent, outcome, degraded | start, an answer, an absorbed error, a raised error, time-out, shutdown, tick |
| `DocumentLife` (`DocumentLifeProps`) | `create`, `bulk_reprocess`, `bulk_delete` and the jobs of the same document over blob store, Postgres, stream and index; uses the transactions of `JobLedger` | the stores, a program counter per request and per message | one action per store that is touched; faults |
| `Resilience` (`ResilienceProps` adds the history two properties talk about) | one `CircuitBreaker` and the calls of `call_with_resilience` that share it | circuit, failures, time open, and each call's phase, attempts and time | begin, the four ways an attempt ends, wake, observe, tick |
| `Chunking` (`ChunkRequirements`) | `chunk_text` and `chunk_multi_page_document`, one turn of the loop a step | page, start, index, chunks | cut, turn page, skip an empty page |
| `SearchIndex` (`IndexRequirements`) | `POST /index` and the readiness probe in the threads of one process, over Postgres | store, connections, threads, rows, answers | look / build / assign / take (`_get_store`), embed, upsert, delete, lose connections, restart |
| `EmbedBatch` (`EmbedRequirements`) | batches of `AIServiceEmbedder` against `check_batch` of ai-service | how far the document is | send, provider fails, store |
| `UploadQueue` (`UploadLimits`) | the upload page with React's commits and effects | updates applied, updates committed, effects due, requests, polls, documents | clicks, render, effects, answers |
| `UseAsync` | `useAsync`, `useAction`, `useDebounced` as operators on the state of one hook | - | - |
| `Transport` | what becomes of a failure between a service and a screen (`lib/server/backend.ts`, the routes, `ApiError`): whether there is a point in trying again; what an error panel and a confirm dialog let the user do (`components/documind/feedback.tsx`) | - | - |
| `ServerDocuments` | how the frontend's server pages through document-service, searches, sorts, counts (`lib/server/documents.ts` and routes) | - | - |
| `SearchRank` | index and ranking of the palette (`lib/search`, `groupHits`) as functions | - | - |
| `Palette` | the command palette and the library cache it shares with the chat page | library, cache, requests, calls, index, hooks, cursor | keys, debounce, open, close, requests read, arrive, fail; invalidation, expiry |
| `DocumentList` | the table of documents | `st`: query, page loaded, selection, dialog, actions | type, filter, sort, page, select, bulk bar, row menus, dialog, poll, answers |
| `DetailView` | the page of one document | `st`: document, status polls, dialog, reprocess, panels | load, poll, confirm, reveal, expand, answers |
| `Dashboard` | the dashboard and the route that computes it | `st`: range, data, export | choose a range, poll, export, answers |
| `AskView` | the chat and the Q&A page on their shared thread, with what the server does to answer | `st`: messages, questions under way, the one streamed, scope, counter, page | send, stop, retry, clear, scope, cite; library, retrieve, generate, fail |
| `SignInPages` | sign-in and registration, with the stand-in for an account service in `lib/api.ts` | `st`: the form, `mem`: attempts, timers, calls of the page and of pages that were left, a push under way | type, submit, fill, resend, timers, answers |
| `Shell` | rail, badges and splash round every page | what a tab keeps and what the browser keeps | toggle, resize, read counts, skip, sign out |
| `Workspace` | the five pages that show documents, one open at a time | the library, the open page | follow a link, what others do to the library, all of the pages' actions |
| `Session` | one tab: sign-in pages and frame | path, `st`, `mem`, shell | follow a link, be pushed to the dashboard, load the tab again, all of the two modules' actions |
| `JobQueueProofs`, `DocumentLifeProofs`, `ChunkingProofs` | theorems about the module of that name | | |
| `RankProofs` | theorems about the functions of `SearchRank` | | |
| `ClocksProofs` | theorems about `Resilience`, `Pipeline` and `ReclaimTiming`, as `MCClocks` instantiates them | | |
| `WorkspaceProofs` | theorems about `Workspace` and, in it, `DocumentList`, `DetailView`, `AskView` | | |
| `SessionProofs` | theorems about `Session`, and about the `UploadQueue` that `MCSession` has beside it | | |
| `SearchProofs` | theorems about `Palette`, `EmbedBatch` and `SearchIndex`, three of the parts of `MCSearch` | | |
| `MCJobQueue`, `MCClocks`, `MCDocumentLife`, `MCSearch`, `MCWorkspace`, `MCSession` | instances | | |

How they compose: `JobQueue` opens the broker and the fleet for one message per
document and treats the pipeline as one step with three outcomes; `Pipeline`
opens that step; `ReclaimTiming` justifies the constant by which `JobQueue` says
whether the reclaim threshold passes on live work; `DocumentLife` takes from
`JobQueue` that a message is delivered, to one worker at a time, until it is
acked, and looks at several messages and requests of one document.  `Resilience`
bounds the calls that `Pipeline` takes as `CallLimit`; `Chunking` and
`EmbedBatch` are the two computations inside the step `Embed` of `SearchIndex`.

The screens share a library that others change (`Becomes` of `ServerDocuments`:
an upload of a newer document, the start of its run, the end of it; how that
comes about is `DocumentLife`'s subject).  The list and the document page change
nothing in it: bulk delete and reprocess of the frontend's API report every
document as failed (`lib/api.ts`), and the pages reload.  `Workspace` instantiates
the five pages over it, with their one state variable `st` replaced on every
navigation as React unmounts a page; `Session` does the same for the sign-in
pages and the frame, and keeps what outlives a page in `mem`.  `MCSession` adds
the upload page of the same tab, which shares no state with the rest.

How the markup is modelled: each module of a screen has operators named for the
parts of it (`Panel`, `Header`, `BulkBar`, `Menu`, `Dialog`, `Offers`, `Bubble`,
`Toolbar`...), whose value is the set of controls that part offers in a state.
The guard of an action is that its control is offered, so a handler whose button
is hidden or disabled cannot run, and two panels that exclude each other do.

## 3. Runs

Bounds are small on purpose: two actors suffice for every race in this code
(nothing in it counts to three), and two disturbances let a second fault strike
the recovery from the first.

| run | instance | shows |
|---|---|---|
| `queue_safety` | two pods of one slot, two documents, two messages, two disturbances out of eight kinds; 631 000 states | `AckedIsSettled`, `DocMirrorsJob`, `CompletedIsFinal`, the refinement `ImplementsContract` |
| `queue_liveness` | one message, two disturbances out of seven kinds, among them a reclaim from a live worker; 224 000 states | `EveryJobIsSettled`; two pods on one job never charge it two attempts per delivery (`FewerThanTwoAttemptsPerDelivery`) |
| `queue_deleted` | the same with the deletion of a document (expected violation) | finding 1 |
| `clocks` | one of three, chosen at the start: two calls behind a breaker with threshold 2 and two retries; a pipeline run with time-out 6, ai-service calls up to 2, saving may raise; two pods of one slot, three messages, batches of two, time-out 2, threshold 7 = (2 + 1) * 2 + 1; 73 000 states | `CallIsBounded`, `OpenSendsOnlyRetries`, `OpensOnFailuresInARow`, `RecoveryIsNoticed`; `OutcomeIsQuiet`, `EnrichmentIsAbsorbed`, `EveryRunEnds`; `NoLiveWorkIsStolen` |
| `document_life` | one document, two requests, two messages, two faults out of six kinds; 274 000 states | `RowHasItsFile`, `WaitingHasAJob`, `CompletedIsSearchable`, `DeletedLeavesNothing`, `CompletedRevertsForAReason`, `EveryDocumentSettles` |
| `search` | one of four: all texts of eight characters of four kinds on two pages around an empty one, chunk 6, overlap 4; documents up to 200 chunks of 500 characters, batches of 64, limits 96 and 8000; two documents of two chunks, two threads, one restart, one loss of connections; the palette over two documents, three queries, and caps so small that every kind of hit is trimmed; 558 000 states | `PassagesAreWhole`; `NoDocumentIsRejected`; `AnsweredIsFound`, `DeletedIsGone`; `ResultsAreForTheQuery`, `EveryMatchIsAccounted`, `UploadsAreIndexed` |
| `embed_deployed` | batches of 96, as deployed (expected violation) | finding 2 |
| `palette_abort` | the palette and the chat page (expected violation) | finding 3 |
| `qa_scope` | the Q&A page over two documents (expected violation) | finding 4 |
| `upload_cancel` | the upload page with two files, one sent at a time (expected violation) | finding 5 |
| `session` | one of two: a tab with one document, one account and one free address, loaded twice, two reads of the counts under way; the upload page with two files, one sent at a time, one retry and deletions by others; 185 000 states | `LockIsTimed`, `VerificationIsForTheShown`, `BadgesCatchUp`; `WithinLimit`, `CancelSticks`, `EveryFileGetsItsTurn`, `EveryRunIsFollowed` |
| `screens` | the five pages over two documents, one on each page of the service, with fair timers, reads and answers; up to two questions under way; 178 000 states | `PageIsOfTheQuery`, `OneReprocessAtATime`, `AnswersStayInScope`, `EveryAnswerFollowsItsQuestion`; `ScreensCatchUp`, `QuestionsAreAnswered` |

`clocks`, `search` and `session` check several models that share no state in one run: a
variable chosen in the initial state says which of them moves, and the others
stay as they begin.  Their constants are separate, so the bounds are those of
each model alone.

The counters that a run must bound are `MaxJobs`, `MaxDisturbances`,
`AttemptCeiling` (attempt numbers saturate there, above `MaxAttempts`),
`MaxFaults`, `MaxRestarts`, `MaxLosses`, `MaxRetries` and the lengths of texts
and documents; on the screens `MaxRuns` (calls of one action under way),
`MaxTimers`, `MaxAsks`, `MaxReads`, `MaxLoads` (how often a tab is loaded),
`Visited`, and `MaxLooks` and `MaxMoves` (on one visit to a page, first the
clicks that change only what is looked at, then those that act).  Each is a
constant of its module.  The bound on clicks is per visit: loads, polls, answers
and what others do to the library are never bounded, so every race between a
click or four and any number of answers is in the model.  On one visit `screens`
gives the document page four acts, which is enough for a confirmation and what
may follow it; the question pages three, which is two questions with a stop
between them (so that one answer overtakes the other's stream), or a question, a
stop and a retry; the list two, a selection and a button or a dialog and its
confirmation; the dashboard one; and every page one look.

`Session` bounds itself where the product of independent parts says nothing: the
frame is used, the library changes and the tab is loaded again only while no
sign-in and no lock-out is under way (`Quiet`; links are followed at any time,
so a call may outlive its page); one registers in a tab that has just been opened
and in which no attempt has failed (`MayRegister`), and signs out with the window
and the rail as they were at first (`MaySignOut`).

Runs with symmetry check no liveness.  `CHECK_DEADLOCK FALSE` stands where the
system comes to rest: a pipeline run that ended, a document nobody asks for
again, a text that is cut, a process whose bounds are used up, a document that
is stored, an empty screen.

## 4. Fairness

* **queue**: the loop and every task of a live pod keep running and a stopped
  pod is restarted (weak fairness: asyncio and the Deployment); an abandoned
  message is reclaimed in the end (strong fairness of the reclaim of that
  message: its idle time only grows while it is abandoned, every tick of a live
  loop may reclaim, and a shutdown or another batch may come in between).
  Producers and disturbances owe nothing.
* **pipeline**: ready stages start, time passes, the time-out fires, and a call
  of ai-service ends, because its HTTP client has time-outs of its own.  Fetch,
  extraction and indexing may hang: that is what the time-out is for.
* **document life**: a request that was begun goes on; a message is delivered
  until it is acked, which is `EveryJobIsSettled` of the queue.  Nobody needs to
  create, reprocess or delete anything.
* **breaker**: time passes, sleepers wake, an attempt ends, and calls keep
  arriving.  `RecoveryIsNoticed` is about a dependency that answers from some
  moment on.
* **upload**: React renders and runs effects, transfers and pipeline runs end,
  polls repeat.  The user owes nothing.  Fairness does not say when effects run:
  before the next event only after a click, otherwise at any time before the next
  render (`EventsMayCome`).
* **screens**: timers end and a question that was asked is answered or fails
  (weak fairness: `setInterval`, and the time-outs of the server's calls); a
  service that is read again and again is read, and answers before the next
  poll, in the end (strong fairness: a poll may fail or be overtaken any number
  of times, not for ever).  The user owes nothing, and may leave a page.
* **badges**: the interval ticks; a read that is repeated for ever succeeds and
  is answered in order in the end (strong fairness).  A sign-in is answered, its
  push arrives and the timer of a lock-out ends (weak fairness: timers of
  `lib/api.ts` and the router).

## 5. Proofs

Every safety property that a passing run checks is also a theorem, for every
value of the constants the assumptions admit.
Each proof has the same outline: an inductive invariant, which the initial
states satisfy (one lemma), which every action keeps (one lemma for each action
or for actions that disturb the same parts), and which implies the properties.
Where an invariant was not obvious TLC checked it before it was proved.

**The queue** (`JobQueueProofs`).

* `AckedIsSettled` is not inductive: a task that is about to ack must already
  have a settled job, which must stay settled while another actor moves.
  `QueueInv` adds: a message is in one hand at most (`OneHolder`), what is in a
  hand is pending, what is not delivered is in no hand, and `TaskOK`: what a task
  knows at each program counter (what it loaded is what the tables hold, unless
  the document is gone; before its claim the delivery is not yet charged; at the
  ack the job is settled).  From it: `NoJobIsLost`, `TablesAgree`,
  `AttemptsArePaidFor`, the action property `CompletionIsFinal`, and
  `Refinement`: each step of the fleet is a step of one job in `JobContract` or
  changes nothing there.  These have two hypotheses: `ThresholdHolds` (no reclaim
  from a live worker: what `ReclaimTiming` is about) and `RejectionsAreKept` (a
  malformed message does not lose its dead-letter copy).  Neither is idle: the
  properties fail without them (6.2).
* `FewerThanTwoEach` (a job is attempted less than twice for each delivery of its
  message) has no hypothesis: messages may be stolen from live workers and
  transactions overlap.  The attempts in the row say too little, because claims
  are still to come.  `ChargeInv` counts those: the batches a message is in and
  the tasks on their way to a claim, at most one for each delivery, and together
  with the attempts in the row less than two for each (`DeliveriesPay`); the same
  holds of the attempt a task has *read*, since a claim writes one more than
  that (`StaleClaimsPay`).  A delivery raises the bound by two and adds one claim;
  a claim that commits exchanges one claim to come for one attempt.  The fleet is
  finite (`FleetAssumption`), for there to be a number of claims.  `TypeCorrectness`
  follows from it, also without a hypothesis.

**One document's life** (`DocumentLifeProofs`).  `LifeInv` says what each request
and each message has done at each of its steps: a row has its file because a
creation stores it first and a deletion removes it last; a document that waits
has a *mover* (an unacknowledged message, or a request that will publish one or
report that it could not); the job that completed a document had its chunks
indexed before; what is gone has no row of any kind, while a job of it that still
runs can write none.  From it all four invariants of the run and the action
property `CompletionIsKept`.  There is no hypothesis: requests, messages and
faults are as many as the constants say.

**Time** (`ClocksProofs`).

* Breaker: the count and the circuit agree (`TypeCorrect`), and a call lasts at
  most the deadline less a tick, one attempt and, if its last error was not
  wrapped, one pause (`CallsAreBounded`); the invariant ties each phase to the
  time spent.  `HistoryInv` adds what the two properties talk about: what a call
  has sent while the circuit was open is bounded by the attempt it is at, and
  since the last success there have been as many failures in a row as the count
  says.  From it `OpenLetsOnlyRetriesThrough` and `OpeningTakesAThreshold`.
* Pipeline: `RunInv` orders the stages (none begins before those it depends on
  have ended), bounds the time of the spine and the enrichment by the rounds of
  calls it takes, and says what may still run beside an outcome.  From it
  `AnOutcomeIsQuiet` and `EnrichmentNeverFailsTheRun`.
* Fleet: `LiveWorkIsSafe` has one hypothesis, `RoundsFit`: every pod has a slot,
  and the threshold exceeds `(ReadBatch + 1) * JobTimeout`, one time-out for each
  message of a batch and one for what runs already.  `FleetInv` adds up the idle
  time of a message and the work that is before it in its slot.  The shipped
  settings (300 s) do not meet it (6.2), so there the queue's `ThresholdHolds` is
  a requirement, not a fact.

**Chunks and the index.**

* `ChunkingProofs`: numbers are never used twice, so no chunk replaces another
  (`TypeCorrect`); every passage as long as the overlap is whole in a stored
  chunk (`EveryPassageIsWhole`), by how far the cutting has come; and with
  `Overlap` at most four fifths of a chunk every turn gets further
  (`LoopAdvances`).
* The index (in `SearchProofs`): a request that is at its n-th chunk has all earlier ones
  in the table unless its document was deleted; from it, `AnsweredStays` and
  `NothingComesBack` for any number of threads.
* Embedding (in `SearchProofs`): `StoredIsComplete`, and `AgreementSuffices`: if a
  full batch of the largest chunks is within both limits, no document of any
  length is rejected.

**The pages that show documents** (`WorkspaceProofs`).  `WorkspaceInv` has a part
for each page, of which one is open at a time.  List: the dependencies its hook
last ran with are those its controls show, in every status, so that what arrives
for them is of the query.  Document page: reprocess runs that know the same are
one, and there is none but the first.  Threads: messages are numbered in the
order they are sent, each answer is paired with its question and has the scope
the question was asked in, and a retry sends the rest of the thread on under a
new number; so do the questions that are on their way.  A message that shows as
thinking has its call (`Called`): a call that ends leaves no message of its number
thinking.  From it `TableIsOfItsQuery`, `ReprocessesOneAtATime`,
`AnswersKeepToTheirScope`, `AnswersFollowTheirQuestions` and
`NoQuestionIsForgotten`, for any library, any words and any number of clicks.

**The other screens.**

* Upload (in `SessionProofs`): the limit is about requests, the admission counts
  what the screen shows.  `UploadInv` relates the two through the list: a file
  with a request is uploading there, unless it was cleared before it was sent;
  what the screen shows as queued and the list does not was taken back by a click
  that came between an answer's commit and its effects; no other step takes a
  file out of the queue behind the screen's back; what is polled is past its
  transfer.  That the first n of the queued are at most n is a lemma of its own
  (`FirstAreAtMost`).  From it `NoMoreThanTheLimit` and the action property
  `CancelledIsNotRevived`, which says of every step but one that it brings no
  cancelled job back: the admission of a job taken back unseen
  (`AdmittedUnseen`), which is finding 5.  `TurnsAreKept` adds that what is queued
  has not been started and that the effects that ran last left no room unused.
  From both `NothingIsStuck`: once the screen is up to date a file waits in the
  queue only while as many transfers as the limit allows are under way, whose
  ends the next commit sees.  The first of the queue, which would have room, is
  there by well-foundedness.  None of these has a hypothesis: clicks and answers
  come whenever the browser may handle them.
* `SessionProofs`: `MemoryOK` is `LockIsTimed` with the range of the attempts, and
  `RegisterOK` says that the address on the form is the one that was sent, from
  the submission until the form can be edited again.  From it `LockOutsAreTimed`
  and `TheShownIsVerified`, for any addresses and passwords.
* Palette (in `SearchProofs`): `HooksOK` says that a call whose answer would be
  taken was asked for what the palette last ran with, and that all others are
  dead; `CacheOK` that every upload that crossed no answer is in every answer on
  its way, in the cache and in the corpus; `DataOK` that whatever is cached, on
  its way or shown is a state the library may be in, and that an answer is one to
  a query that may be typed.  From them `ResultsOfTheQuery`, `UploadsAreFound`
  and `MatchesAreAccounted`.

**What the palette finds** (`RankProofs`).  `MatchesAreAccounted` is about data: in
any library, for any query, the groups on the screen add up to what matches.
Its lemmas follow the functions of `SearchRank` from the ground up.

* *Order.*  `Ranked` numbers the elements of a finite set by how many are before
  them.  In a strict total order this lists all of them, each once and in that
  order (`RankedList`): the number of elements before one is an injection into as
  many places.  So `MatchesBestFirst`, and the sequences the index is put
  together from are sequences of entries (`CorpusIsIndex`, `SuggestionsAreIndex`).
* *Collapsing.*  Every key has a first place (`FirstPlace`, from the well-foundedness
  of the naturals), so the rows of a kind are in bijection with its keys
  (`RowsAreKeys`).
* *Caps.*  Every kind is given at least one row if it has any (`CapsLeaveRoom`).
  This is where `RankAssumption` is used: the caps of the first four kinds add up
  to less than `TotalCap`, as 4 + 6 + 5 + 4 do to less than 20 (`GROUP_CAP` and
  `TOTAL_CAP`, api.ts:885-893).  With 20 or more the fifth kind could be cut to
  nothing without a trace, and the theorem would be false.
* *Sum.*  The counts of the groups add up to the number of keys (`CountsAddUp`).
  This is an induction over the groups.  The induction theorems of the library
  take an operator as parameter, which no installed prover can instantiate;
  `SetInduction` says the same of a *set* of numbers, and is proved from the
  well-foundedness theorem.  A recursive sum is first shown to be the one
  function that solves its equations (`TotalUnfolds`).

The assumption that no two documents were uploaded at once makes the newest first
order total; the code's sort leaves the order of equals to the list.

Only model-checked: all liveness (fairness and ENABLED are out of TLAPS's reach;
`NoQuestionIsForgotten` and `NothingIsStuck` prove the part of
`QuestionsAreAnswered`, `EveryFileGetsItsTurn` and `EveryRunIsFollowed` that is
safety: what would have to happen next is always under way), and what
`ServerDocuments` and `DocumentList` compute of a page, which filters sequences
with `SelectSeq`, of which the provers know nothing.  That a page on the screen
is the one its query asked for (`PageIsOfTheQuery`) is nevertheless proved, as
theorem `TableIsOfItsQuery`: it does not depend on what is on the page.

## 6. Findings

### 6.1 Shown by a run

1. `queue_deleted`: a document deleted before its first claim leaves a message
   that no worker can ever claim (foreign key), and that is neither
   dead-lettered nor acked (`repositories/jobs.py:126`).
2. `embed_deployed`: the deployed batch of 96 chunks of 500 characters exceeds
   ai-service's 8000 tokens; documents of more than 64 full chunks fail
   (`ai-service/app/budget.py:55`).
3. `palette_abort`: `loadLibrary` hands every caller the promise of the first,
   which is bound to the first caller's abort signal, and `useAsync` ignores an
   `AbortError`.  A query typed before the library has arrived joins the request
   that its own keystroke has just aborted, and shows its skeleton until
   something else is typed; closing the palette does the same to the scope
   counter of the chat page (`lib/api.ts:849`).
4. `qa_scope`: the page that asks one document calls `askDocument` without its
   id.  Passages of any document are retrieved and written up, and because the
   citations are then matched with the fixtures and dropped, nothing on the page
   tells (`qa/[id]/qa-view.tsx:67`).
5. `upload_cancel`: the admission sends the jobs of the commit its effect belongs
   to, "up to the concurrency limit" (`upload-view.tsx:156`), and does not ask
   whether they are still queued.  React runs the effects of a commit before the
   next event only if a click caused it.  When the answer for one file frees a
   slot, a click on Cancel can come between its commit and the effect: there is
   no controller to abort yet, the effect sends the next file, the cancelled one,
   and `patch` makes it "uploading" again.  With Clear all the file is sent out of
   sight, and the next one goes beyond the limit.  The dialog says "Cancelling
   stops them mid-pipeline — nothing partially processed is kept"
   (`upload-view.tsx:157`, `:706`).  `WithinLimit` counts the files of the list,
   and `CancelSticks` exempts this one step.

### 6.2 Observed while modelling

Each follows from the models (the properties are stated so that they hold, with
these cases exempt or excluded by a constant), and each was seen as a TLC
counterexample to the property one would have liked.

* A job that kills its worker is attempted without bound: only `_fail` compares
  with the budget (`queue/consumer.py:388`).
* A worker whose message was reclaimed may put a COMPLETED row back to QUEUED
  after the ack of the other (`jobs.py:200`); with "steal" among the
  disturbances `AckedIsSettled` fails.
* When the ack of a FAILED job fails, the redelivery runs it again
  (`consumer.py:473`: claim skips COMPLETED rows only).
* A malformed message whose dead-letter copy cannot be written is acked and
  leaves no record (`deadletter.py:58`).
* The reclaim threshold must exceed `(ceil(batch / slots) + 1) * timeout`
  (`ReclaimTiming`): 720 s with the defaults, which set it to 300 s
  (`consumer.py:513`, `config.py:58`).
* An enrichment result that cannot be *stored* fails the job at its first
  attempt (`pipeline.py:249`), and calls that hang use up the job time-out
  (`consumer.py:331`): `EnrichmentIsAbsorbed` states both exceptions.
* An absorbed failure does not set `degraded` (`pipeline.py:275`).
* The verdict of an attempt that failed is shown with the status of a later one
  whose assessment was skipped (`services/documents.py:117`).
* A publish whose reply is lost turns a document that is completed meanwhile
  into a failed one (`services/documents.py:83`).
* A call that was admitted before the circuit opened goes on retrying
  (`resilience.py:201`); every concurrent caller is admitted as the trial of a
  half-open circuit (`resilience.py:105`); an attempt that begins just before the
  deadline runs for its whole time-out (`resilience.py:186`).
* An overlap longer than the shortest chunk a separator can end makes the loop
  of `chunk_text` endless (`chunking.py:67`); the defaults are safe.
* A search-service whose Postgres connection is gone stays ready for ever
  (`main.py:101`).
* A document deleted while it is processed is polled for ever
  (`upload-view.tsx:197`), and a document past its transfer is kept when the
  queue is cleared, whatever the dialog says (`upload-view.tsx:264`, `:706`).

Of the frontend:

* Reprocessing on the document page shows "Reprocessing started" exactly when
  the call was *not* answered: the result of the call says which documents
  failed, and `run` gives null when it threw (`detail-view.tsx:96`).  The list
  does the same for a row (`documents-view.tsx:675`).
* The dashboard polls on its flagged rows, which hold no queued document: a
  queue of documents none of which is being processed yet is not read again,
  although the comment says it reads "until the queue drains"
  (`dashboard-view.tsx:63`).  `ScreensCatchUp` asks it only for what it shows.
* An answer that comes after the user stopped its message replaces what was
  kept of it (`chat.tsx:171`).
* An answer that begins to stream while another does (a question stopped before
  its answer came, and a second one sent; or a retry while another streams) clears
  the timer of the other (`chat.tsx:105`): that message stays "streaming", and the
  thread, which is busy while any message is (`chat.tsx:94`), offers only Stop
  until the user takes it.  `QuestionsAreAnswered` exempts a stream that was cut
  off (`CutOff`), and nothing else.
* A sign-in that is answered after its page was left is not cancelled: it still
  takes the user to the dashboard, from whatever page is open
  (`login-view.tsx:74`).
* A resend that answers after the address was changed says "Sent again" beside
  the new one (`register-view.tsx:118`).
* A list of the library that was on its way when it was invalidated is cached
  all the same, and the index built from it is kept (`lib/api.ts:854`): an upload
  that such an answer crosses is missing from the palette until the next one.
  `UploadsAreIndexed` exempts it.
* The library is read page by page while it changes: a document may be missing
  from the pages put together, or be in them twice (`lib/server/documents.ts:66`).
* "Export CSV" writes the first hundred rows only.
* A service that stalls within its answer becomes an error that is not marked as
  worth another try, while one that does not answer at all is
  (`lib/server/backend.ts:177`).
* Two runs of one action show the answer that comes last (`use-async.ts:97`); the
  screens disable the control while one is under way, which is what
  `OneReprocessAtATime` checks for the worst of them.
* The menu of scopes renders the promise `scopeSize(s)`, not the number it
  resolves to (`chat-view.tsx:139`).
* Whether the window is narrow is kept in the module and only updated while a
  rail is mounted: a resize on a sign-in page is not noticed
  (`sidebar-state.tsx:94`).

Of other code, read but not modelled: two registrations of one e-mail at once
(`api-gateway/app/routes/auth.py:65`), and the answer to a request that began
before a model was rate-limited clearing its cool-down
(`ai-service/app/adapters/rotation.py:91`).

## 7. Abstractions

* Transactions run at READ COMMITTED without locks: SELECTs and the commit are
  separate steps, and a commit writes the columns it changed over whatever is
  there (`Written`).
* A cancelled task whose thread commits anyway equals a commit followed by the
  cancellation, which the models contain.
* `JobQueue` has one message per document; `DocumentLife` has several.
* Attempt numbers and the delivery counter saturate at `AttemptCeiling`, the
  breaker's count at its threshold, idle times at the reclaim threshold.
* An empty reclaim is `SkipReclaim`; the reclaim interval is left out (a reclaim
  may come at any tick).
* Bulk requests are one request per id.  `stranded` holds the documents a request
  was cut off from; the properties exempt them and nothing else.
* Of a document's results only the risk assessment and the chunks are kept; of a
  text only the kinds of characters the cutting tells apart; of a batch's token
  estimate any value between one token and the maximum per chunk.
* A commit of React and the effects it causes are one step of a screen, except
  in `UploadQueue`, where they are the subject.  An answer that arrives between
  the two is overwritten by the effect.
* Two polls, or two runs of an action, that know the same are one (sets).
* What a scope of the chat covers is the documents that are of it at some time
  (`InScope` is constant): a document's type changes once, when it is classified
  (`chat-view.tsx:36`).  The library the chat is told of may be up to twenty
  seconds old (`lib/api.ts:845`): it is any part of what has been uploaded
  (`Remembered`), deleted documents excepted, of which no passage is found.
  `Palette` models the cache itself, its shared request and its age.
* `Palette` leaves out the third caller of `loadLibrary`, `askWorkspace`
  (`lib/api.ts:768`), one more reader of the same cache and request.  The sum of
  its groups counts keys, where the footer's total counts collapsed copies
  (`search-dialog.tsx:306`, `lib/api.ts:941`).
* `UploadQueue` leaves out the cap on a batch (`upload-view.tsx:213`): its files
  are fewer.
* `Publish` of `JobQueue` leaves the FAILED that a failed publish writes
  (`services/documents.py:82`) to `DocumentLife`, which has it and its races.
* Text is a model value: a query matches a set of documents; in `SearchRank` a
  text is words of pieces, a piece standing for some characters.
* Streaming a message is a timer that ends; the draft of a question, toasts,
  focus, hover, animation and wording are left out.
* `StartsAreNatural` (Chunking): with a longer overlap a start may be negative,
  which Python reads from the end of the text.

## 8. Not modelled

* The analysis of ai-service (rules, prompts, redaction), the ranking by
  similarity of search-service, the parsing of PDFs: data in, data out.
* The rotation of models and the adapters of ai-service, and api-gateway, whose
  only state is the user store of one process.
* The in-memory back end of search-service (local runs): it has neither the
  unique key nor the cascade `SearchIndex` relies on.
* The result tables other than risk and chunks, and `mark_stage`.
* Process start-up, metrics, manifests, Terraform and tests.
* In the frontend: the gallery of states (`app/states`), which shows the other
  screens with made-up data, animation, charts, fixtures and styled primitives;
  the health poll, which has the form of the badges' poll; downloads; theme.
  These hold no decision of the program.

## 9. Plan

1. Lemmas about the operators of `ServerDocuments`, with filters as `Picked` of
   `SearchRank`: a page is never longer than asked for, and no row of it fails the
   filter.
2. The refinement of `JobContract` without `ThresholdHolds`, for the part of the
   contract that stealing leaves true.
3. The result tables in `DocumentLife`, to say which attempt what is shown comes
   from; the rotation of models; the registration of api-gateway.
