# Verification of the Kylin agent memory service

TLA+ models of the memory service, its desktop client, its host bridge and the
evaluation that judges it; the TLC configurations that check them on small
instances; and TLAPS proofs that hold for every instance. Paths below are
relative to `src/`; `PROJECT.json` maps every definition to the lines it stands
for and lists the hazards of the code with the properties aimed at them.

Contents: [the system](#1-the-system) · [models](#2-the-models) ·
[runs and bounds](#3-runs-bounds-and-what-they-show) · [proofs](#4-proofs) ·
[disagreements](#5-where-code-and-documents-disagree) ·
[not modelled](#6-what-is-not-modelled) · [plan](#7-plan) · [how to run](#8-how-to-run)

## 1. The system

A local service that stores what an assistant learns about its user. A Qt client
and a host bridge send framed JSON requests over a Unix socket to the *gateway*;
each connection has a thread, each request runs one handler, and each handler
that writes runs one SQLite transaction (a *unit of work*) under a process-wide
write lock. Consequences outside of the tables (indexing, cache invalidation) are
announced in an *outbox* table in the same transaction, and a worker thread
drains it.

```
 Qt client ──┐                      ┌─ turns, events ──┐
 (view model)├─ socket ─ gateway ───┼─ preferences ────┼─ SQLite (one writer)
 host bridge ┘   thread/connection  └─ forget plans ───┘      │ same transaction
                                                           outbox table
 lifecycle workers, importers ── SQLite                       │ worker thread
 (other processes)                                            │
                                     ┌── forget.executed ─────┤
      embedding and extraction cache◄┤                        └─ memory.upserted
                                     └► vector ledger + collections ◄── rebuild
 embedding server ── executor ── C++ bridge ── library
```

| component | state | what is hard | what makes it correct |
|---|---|---|---|
| Outbox queue and worker (`outbox/worker.py`, `router.py`, `db/repositories.py`) | table `outbox`, batch, `_stop`, thread | crash between effect and acknowledgement, a batch older than the table, retries, priority | no event lost; bounded redelivery; dead letters are exhausted; forgetting first; everything settles |
| Precise forgetting (`db/uow.py`, `service/forgetting.py`, `gateway/forget_handlers.py`) | `forget_plan`, `forget_audit`, one-time credential | lost answers, expiry, rows changed between preview and execution | one execution per plan, of the frozen targets only; true answers |
| Preference versions (`db/repositories.py`) | `memory_items`, `memory_versions`, receipts, triggers | repeated and late requests, recurring evidence | one linear chain; immutable history; same request, same answer |
| Gateway, turns, events, idempotency (`gateway/`, `pipeline/`, `security/`) | sockets and threads, `conversations`, `turns`, `source_events`, `idempotency_cache` | deadline compared after the commit, repeats, a sliding window of duplicates | one effect per key; answers about their own request; right marks |
| Knowledge, graph, lifecycle, import (`service/`) | `memory_entries`, relations, conflicts, receipts, registry, manifests | several processes whose reads precede their transaction | one trusted source per row, one receipt per change, one row per key |
| Vector and word index, fusion (`retrieval/`) | ledger and receipts in SQLite; collections outside; FTS table | collection and ledger cannot change together; stale indexes | one serving generation; ledger within collection; only current rows shown or scored |
| Embedding and extraction (`embedding/`, `providers/`) | LRU caches, generations, calls in flight, pool, bridge | calls that hang, deletions during a call, a library that loads once | nothing from before a deletion comes back; bounded hanging; stop is complete |
| Memory client and view model (`memory-client/src`) | connection, pending requests, timers, pipelines | two timers, late answers, reconnection, resets | each request ends once; only what belongs to the text is shown; a credential goes out once |
| Host bridge and context sync (`os-agent-integration/`) | cursor file, generation, database identity | crash before the save, database cleared or replaced | at least once, in order, but for what the cursor jumps over or overlooks |
| Evaluation (`evaluation/`, `scripts/run_d13e_formal_eval.py`) | evidence directories, receipts, seals | steps that fail or die half-way, papers revised after they were signed | a pass is proven and approved |

**Interactions.** Handlers share the SQLite file and the write lock; they never
call each other. `forget.execute` writes preferences through the same
`_append_preference_version` as the preference handlers, deletes entries, and
enqueues the event whose consumer takes what it names out of the caches and deletes
vectors. The worker holds the write lock while a consumer runs, so consumers never
interleave with handlers; a rebuild takes no part in that lock while it embeds. The bridge
and the client reach the service only by requests they may repeat. Lifecycle
evaluation and import run in processes of their own, where only the revision in
a WHERE clause and the unique indexes protect a write.

## 2. The models

Every step of a model is one critical section or transaction of the code, and
whatever happens between two of them may interleave. A request that is refused
rolls back and is no step at all. Each module's header says what it describes;
variables carry the names of the tables and members they stand for.

### Storage and delivery

**`Outbox`** (promise: `Delivery`). `rows[e]` is a row of `outbox` (attempts,
`next_retry`; `NoTime` is NULL), `batch`, `claimTime` and `call` are the locals of
`_poll_once`, `thread`, `stopping`, `stopCall` the worker and its `stop()`.
`Poll`/`Consume`/`Acknowledge`/`Fail`/`AcknowledgeFails`/`PollAborts`/`PollEnds`
are `claim_pending_outbox`, `_process_event`, `mark_outbox_success`, `_fail` and
the exceptions each may raise; `Crash` may come anywhere. A consumer completes or
raises. `Delivery` is the contract: an event is pending until its consumer has
completed (`Retire`) or it is put aside (`PutAside`).

**`ForgetPlan`** (promise: `ForgetPromise`). `Preview`, `Execute`,
`ExecuteReplay` are whole handlers; `held` are the credentials that reached a
client, `told` the answers. `InsertKnowledge`, `UpdateLifecycle`, `SavePreference`
are the other writers, `Tick` lets credentials and cache rows expire.
`Resolutions` says what the resolvers may return, not how they search.

**`PreferenceVersions`**. One chain `versions` with `pointer`, its receipts, the
last `answer`, and `answered` per key. `AppendVersion` is
`_append_preference_version`: replay by key, replay by evidence, no-op or a new
version, in that order of guards; triggers and unique indexes are `ChainAccepts`
and `ReceiptAccepted`. No operation touches two chains, so one stands for all.

**`PreferencePolicies`** (over `PreferenceVersions` and `EventPipeline`). The
policies that decide between a source event and that chain
(`service/*_policy.py`): admission of a candidate on account of its event, its
conversion, what is long-term, and the plan of a write or of a rollback. They are
pure and nothing in the program calls them yet, so `flow` is the flow of their
tests: a plan is made on rows that were read, other writers may come between, and
the store takes its own decision when it is asked. `PolicyAssumption` says what a
caller passes: candidates and events as the types declare them, rows of other
chains under other addresses.

**`VectorIndex`**. `generations`, `ledger`, `receipts` are SQLite tables,
`collection` what the external client holds. An upsert is three steps with a
failure or a death after each, a delete one transaction around an external
deletion, a rebuild begin, write, activate.

**`Fusion`, `Retrieval`** (over `Rules`, ordered early returns). Fusion is a
function of hits and truth: validators, de-duplication, the current version,
reciprocal ranks as exact fractions, order, cut. In `Retrieval` tables change on
their own and two indexes follow in any order or not at all; either search
returns any matching documents in any order (`WordLists`, `VectorLists`), the vector
client drops what comes back for another user (`VectorHits`), and a retrieval
survives the failure of either channel.

**`KnowledgePolicies`, `Knowledge`, `KnowledgeImport`**. Rows with their evidence
edge, relations, conflicts, lifecycle. pysqlite begins a transaction at the first
write, so an evaluation is two steps (`Evaluate` reads, `FinishEvaluation`
writes under the revision it read), and an import is split in the same places:
provisioning, binding under the principal's scope with its readback, and a file
record by record. The assumptions of `KnowledgeImport` are what the checks ahead of
these steps leave: files and candidates are parsed (`FilesAreParsed`,
`CandidatesAreParsed`), and a file made from a batch copies the source that binding
reported (`FilesCopyBinding`), as the exporting script does.

### Entry

**`EventPipeline`, `Ingress`, `Gateway`**. The pipeline (scan, fingerprint,
scores, gates, admission) is a function of one event; a text is a model value and
what the patterns find in it a constant function. `Ingress` is the two write
methods as functions from a database record to the next one and an answer: lookup
in the idempotency cache, validation, ownership, upsert, de-duplication, outbox
row, cache row, in one transaction. `Gateway` is the server around them: bytes
per connection, thread, dispatch, the deadline compared *after* the commit, an
answer that does not fit into a frame, `stop()`. Time is counted in half days
because the cache and the window live for one day.

### Embedding, extraction, caches

**`BridgeExecutor`** is the pool of the embedding library with its bounded
recovery from hung calls. **`EmbeddingCache`** is one `embed` request from
arrival to answer, a step per lock (LRU cache, coalescer, executor); `cached` maps a
text to the generation its vector was stored under, `recent` is the order of the
least recent use.
**`ExtractionProvider`** is rules and model, what it lets through of the model's
answer, and its cache with tombstones. **`CacheInvalidator`** is the deletion
consumer on top of both: a deletion takes out the contents it carries and the one
event id it carries, which for an executed plan is that of its audit. **`EmbeddingServer`** is the socket server (start, accept,
threads, `stop()`, another process on the same path); **`EmbeddingProcess`** puts
the providers on their one bridge beside it, from construction to failure, with the
dimension of their vectors and what `health` answers.

### Clients

**`MemoryClient`** is the connection: every operator is one entry by a signal or
a timer, from a client record to the next. **`MemoryViewModel`** holds the
variables: `client`, and `vm` with twelve pipelines (request, busy flag, stage),
the second deadline timer of each request, the text and the injected memory, and
the forget dialogue. The client's signals are received inside the call that emits
them, so a step is an entry into the client with all the view model makes of it
(`Told`). `Run` and `Ask` are the two shapes of a pipeline.

**`HostBridge`** is the bridge loop (`Start`, `Refresh`, `SaveReset`, `Read`,
`PassRow`, `Stored`, `CallRefused`, `BatchDone`, `Save`) and the context sync, both
of which may die between any two steps, against a chat database that is appended
to, cleared and replaced, and against `PreferenceVersions` by INSTANCE: the
service it calls is the very module that is checked and proved on its own. The
bridge tells a reset by another file or a table shorter than its cursor
(`ShowsReset`). What it does not send for that reason is kept in two history
variables: `passedBy` are the rows that were there when a cursor was set behind the
last one, `overgrown` the rows up to the cursor when it was compared with a table that
had been cleared and had grown back. `seen` in a cursor is the content it was last
compared with, `epoch` the one it was set in. A message that is JSON but no object
(`NotObject`) makes `Read` raise for as long as it is behind the cursor (`Blocked`).

### Evaluation

**`EvalExecution`** has the database of an evaluation of forgetting with both
channels (`FtsDeletions`, `VectorDeletions`, probes, counters), the preflight, the runtime bindings
and the dispatch of a sample step by step, with receipts and the raw package;
**`FormalEval`** has the papers (manifest, attestation, review, seals, thresholds)
that people write in any order, and the report. A digest is what it was taken of.

All modules take every handler and consumer as registered. `app.py` puts the
forget, preference and ingest handlers behind flags and builds its router without
an embedding service, so without those flags fewer steps happen, none others.

## 3. Runs, bounds and what they show

One run per component; states are distinct states, times with two workers.

| run | instance | properties | size |
|---|---|---|---|
| `outbox` | two upserts, a forget event and a row of `_d8d_outbox`; 1 retry, polls of 2, 2 faults | `DeadLetterIsExhausted`, `RedeliveryBounded`, `CallsOnlyDueRows`, `ForgetBeforeIndex`, `KeepsPromise`, `EventuallySettled` | 309 k, 50 s |
| `forget` | one user with two plans and four keys over an entry and a preference, or two users with one plan id; credential lifetime 1, cache 2 | `ExecutedOnce`, `AnswersAreTrue`, `RefusedOnlyAfterOverlap`, `KeepsPromise` | 165 k, 90 s |
| `prefs` | two values, two statuses, one event, one key, one plan, chains up to 3; or one flow of the policies at a time beside it | `OneChain`, `EveryAnswerHolds`, `ConstraintsNeverBite`, `HistoryKept`, `HandOversFit` | 196 k, 60 s |
| `gateway` | three requests, three half days, one family (simple, turns, events) at a time | `OneEffect`, `DuplicatesAreTrue`, `AnswersAreTrue` | 334 k, 85 s |
| `knowledge` | two users, two processes; evaluations, graph, import one at a time; revisions up to 4 | `TrustedEvidence`, `ReceiptsAccount`, `ImportedOnce` | 118 k, 90 s |
| `indexes` | two entries, two generations, rebuilds on either stream, 1 retry; or four documents of two users | `OneServing`, `LedgerCovered`, `AckedHasEffect`, `ContextIsCurrent`, `StaleHitsTakeNoPlace` | 680 k, 80 s |
| `caches` | three requests on two connections, or two and a deletion, or two extractions with a deletion by content and a reset, or with one by id; 1 worker, 1 rebuild, capacity 1 | `NoRequestStuck`, `StoredAfterWipe`, `ProcessedIsComplete`, `CandidatesAreTrusted` | 390 k, 60 s |
| `embedding_process` | two connections, three requests, two stops; or two providers, three bridges | `StopKnowsThreads`, `HungCallsBounded`, `ReadyHasSession` | 1,411 k, 80 s |
| `client` | two requests of one page, or three around a forgetting; 1 reconnection, 2 in a chat | `EveryRequestEndsOnce`, `ContextIsOfThisText`, `ExecutesOncePerPreview` | 88 k, 80–140 s |
| `host_bridge` | five messages, one of them no object; two rows, one reset, one fault, one crash | `AckedIsStored`, `EventuallySent` | 446 k, 105 s |
| `evaluation` | four samples, two executions, 5 dispatches, 7 edits | `PassedForgettingIsProven`, `ReportIsApproved` | 342 k, 40 s |
| `vector_stale` | one entry, a rebuild as the evaluation makes it | `FailedDeleteShows`, *violated*: [section 5](#5-where-code-and-documents-disagree) | 297 |

**Why the bounds are enough.**
*Outbox*: two priorities and a limit below the backlog are what ordering and
truncation need; one retry gives a first attempt, a retry and a dead letter; two
faults allow a crash after a lost acknowledgement.
*Forget*: two plans over one entry are what overlap needs, four keys are a
preview and a fresh retry of each; the clock allows every order of the expiries.
What has become of an event nobody reads: one is consumed or put aside at the end.
*Preferences*: three versions are a replaced, a restored and a current one.
*Gateway*: three requests are an original, its repeat and a stranger; three half
days pass the lifetime of a cache row and of the window; one answer comes late.
*Knowledge*: two processes are a race, four revisions an evaluation that lost and
one that came back; the three topics share no guard but the rows themselves.
*Indexes*: one entry to be damaged and one to move the watermark; the consumers
write to their default generation, so a second one is what a rebuild needs. Three
indexed documents are a stale hit and a current one found by both channels.
*Caches*: with one worker a second call queues behind a hung one; a second deletion
is the redelivered one, and one that bears the id of an event is what leaves a
tombstone for it. One text never evicts another; eviction is in the model
and covered by the proofs of section 4, which hold for every capacity.
*Client*: two requests give a late answer beside a new request; a third is the
preview after a failed execution. *Bridge*: a row read, one behind it, a reset
between them; a table cleared and grown back to the cursor takes one row. *Evaluation*: one sample of each kind; one failing step or death
anywhere.
For what section 4 proves nothing depends on these bounds; what it lists as only
model-checked does. Symmetry is used only for invariants and action properties,
on values that are compared for equality alone.

Four of the configurations split a component into parts that share no variable,
or topics that do not touch the same rows, and explore one part per behaviour
(`MCScenario`, `MCBound`, `OneTopic` in the MC modules say where); every action of
every part fires.

**Deadlock** is checked in `outbox` and `prefs`. Elsewhere requests, plans, keys,
time or retries are bounded, and a state in which all is settled is a legitimate
end.

**Fairness.** The outbox' `FairSpec` asks that the worker thread takes a step when
it can (the operating system schedules it, and `_run_loop` catches every exception
but a missing table, which is not modelled) and that time advances; nothing is
asked of producers, of `start`, of the consumers' success, or against crashes.
`EventuallySettled` is therefore conditional: if from some moment on the worker
runs and is not asked to stop, every event is consumed and removed or put aside.
The bridge's `FairSpec` asks that its loop goes on (`main` catches every exception
of a pass and sleeps) and that it is started again after a crash, not that calls
succeed, that the service is up, or that the sync runs. `EventuallySent` is
conditional: it assumes that from some moment on no reset is overlooked
(`Overlooked`), excepts the preferences of `passedBy` and `overgrown` and those that
are cleared, and promises nothing while a message that is no object blocks the
table; lost calls, failed saves, crashes and resets are bounded. Everything else is safety and needs
no fairness. `NoRequestStuck` says with ENABLED that a waiting request always has
a step, so it needs none either.

Each property of a passing run has a mutant in `PROJECT.json`: a plausible mistake
in one mapped definition (`Mut...` in the modules) under which TLC reports the
property as violated.

## 4. Proofs

Eight modules, 13,196 obligations, for every value of the constants that the named
assumptions of the modules admit (lifetimes and limits are natural numbers, sets
of identifiers are sets; no bound is a hypothesis that the runs' bounds exploit).
The bounds in the guards of the models (`MaxTime`, `MaxSent`, `Requests` ...) are
arbitrary in the proofs. Proof modules are few on purpose, so some hold the theorems
of two components.

| module (obligations) | theorems that state a run's property | further |
|---|---|---|
| `OutboxProofs` 2,003 | `DeadLettersExhausted`, `Redelivery`, `OnlyDueRowsCalled`, `ForgetsFirst`, `Implementation` (refines `Delivery`); caches: `NothingComesBack`, `DeletionsComplete`, `CandidatesDeserveTrust` | `TypeCorrect`, `NothingLost`, `CachesInvariant`, `ExtractionInvariant` |
| `ForgetPlanProofs` 1,329 | `OnceOnly`, `TruthTold`, `RefusalsExplained`, `Implementation` (refines `ForgetPromise`); evaluation: `PassedGateIsProven`, `ReportsAreApproved` | `TypeCorrect`, `EvaluationInvariant` |
| `StoredMemoryProofs` 2,848 | `ChainIsLinear`, `AnswersHold`, `NothingAborts`, `HistoryIsKept`, `PoliciesAgree`; knowledge: `EvidenceTrusted`, `ReceiptsAccounted`, `ImportsOnce` | `ChainTypes`, `KnowledgeTypeCorrect`, `StoreInvariant` |
| `VectorIndexProofs` 1,772 | `ServesOne`, `Covered`, `Acknowledged`; retrieval: `StaleHitsAreLeftOut`, `OnlyCurrentRows` | `TypeCorrect`, `DeletesNeedRebuild`, `RetrievalInvariant` |
| `EmbeddingProcessProofs` 797 | `StopIsComplete`, `HungCallsAreBounded`, `SessionsHold` | `TypeCorrect`, `OneBridge` |
| `HostBridgeProofs` 787 | `NothingIsLost` | `TypeCorrect`, `ServiceBehaves` |
| `GatewayProofs` 1,745 | `EffectIsOne`, `MarksAreTrue`, `AnswersHold` | `Invariance`, `TypeCorrect` |
| `MemoryClientProofs` 1,915 | `RequestsEndOnce`, `ContextIsTrue`, `ExecutesOnce` | `Invariance`, `TypeCorrect` |

None of these properties is inductive as it stands. Each component has an
invariant (`IInv`, `ChainInv`, `KnowledgeInv`, `ImportInv`, `FlowInv`, `CachesInv`,
`ExtractInv`, `RetrievalInv`, `EvaluationInv`) that is, checked by TLC before it was proved; there is a lemma per
action or per operator, and one that combines them.

*Outbox.* The worker acts on a copy of the table. `BatchIsCurrent` says that a
claimed row still stands as it was read (only this thread changes rows, and it
drops each from the batch when it does), `CallIsFromBatch` that a call in progress
belongs to the batch, `RowsAreEnqueued` and `FreshIsUntouched` that nothing happens
to an event before its insertion, `AttemptsBounded` counts. The order needs a
second invariant: while the batch holds an ordinary event, every forget event
due at the claim is in the batch too; it survives because a failed row is pushed
beyond `claimTime` and a new row is stamped later than it.

*Forget plans.* A plan is done exactly if its audit row, its event and the absence
of its targets say so (`ExecutedOnce`, `TargetsStand`, `DeletedByPlan`,
`EventsTell`), and the cache and the clients know of no other (`CachedIsDone`,
`ToldIsDone`). `RefusalsExplained` shows when the consumer of `forget.executed`
can make no delete request of an event: the plan was empty or another one had deleted
a target. That caches or index fail, until the event is a dead letter, is left open.

*Preferences.* Every receipt names a version that exists, every version but a
removed one has its receipts, and the answer given for a key is the version the
receipt of that key names; so a replay cannot contradict what was told.

*Policies.* A plan is right about the chain it was made from, and the chain only
grows: `FlowInv` ties the number a plan would give to the length it has read, and
what may be rolled back to versions that exist, so whatever others wrote in between,
the store's answer is one the plan allows for. The gates of an admission are chains
of early returns; one lemma per chain says when it admits.

*Knowledge and import.* `KnowledgeInv` has the tables one by one. A row's evidence edge
names a stored event that admits it; a conflict has both its rows
(`ConflictsHaveSides`); an evaluation between its two steps holds a revision that is
not beyond the row's, and every revision a worker made has its receipt and its event
(`RevisionsPassed`), so the conditional UPDATE lets one of two workers through.
`ImportInv` says what a file that passed its checks may rely on while another process
imports (`ClearedStays`), that registry, manifests and rows correspond by key
(`RegistriesKeyed`, `RegistriesAgree`), and that what was bound stays bound
(`BoundStands`): one key makes one row, and a bound batch is not refused.

*Vector index.* `RebuildStands` and `WorkerStands` say what each stage of the two
writers implies about collection and ledger, `UnbuiltIsEmpty` that a generation
under construction is not served, `EventsStand` and `ReceiptsStand` tie events to
the ledger. `DeletesNeedRebuild`: a delete is accepted only on a generation that
a rebuild has put on the stream of deletes, whatever the bounds are.

*Retrieval.* The answer that stands is the fusion of hits that all belong to the user
who asked (`RetrievalInv`). Of two hits that de-duplication compares both are on the
same document, so hits that may not be shown never displace one that may; hence the
hits that remain are those of the presentable documents alone
(`PresentableDecide`), and everything after, scores, order, budget, is a function of
them and of the ranks the providers gave them (`StaleHitsAreLeftOut`). That is less than
no influence: the ranks are not closed up, so a hit behind a stale one scores less than
it would in an index that is up to date. That the context is current (`OnlyCurrentRows`) takes two more facts.
Scores are fractions, and score, channels, best rank and number together order the
memories strictly (`KeysAreOrdered`), so that counting those before it gives each a
place of its own (`OrdersHavePlaces`): none is lost or listed twice. And the selection,
a recursive function over that order, takes each once and stays within number and
budget at every step (`SelectionGrows`).

*Caches.* A request, an entry and a call in flight note a generation, and none is ahead
of the cache's; a vector or a candidate list stored before the last wipe of its text
or event is under an older generation (`PastEmbedding`, `PastExtraction`), and the
store step compares generations. A deletion that is acknowledged has passed both
caches, in the order the consumer takes them: the contents, then the one event id it
carries, then its registration. Only the event whose id it carries gets a tombstone;
of one that it names by content what was stored or under way is gone, and it may be
extracted again. A reset is the same without the step of the event. No capacity, number of workers or merging of requests is assumed.
`ExtractInv` says that a call waits for the model only on good grounds, that an answer
on its way passed the validation, and that an entry is to be trusted for the key it is
kept under. `Trusted` itself comes from the operators: what a loop appends comes from
places of its own (`JoinedIs`), a candidate that rules or validation let through is
`Fit`, and the merge adds no key twice (`MergedIs`).

*Embedding process.* For the server: which threads `stop()` has yet to join is a
function of the stages of accept, registration and stop; each hung call has its
abandoned pool and each of those its rebuild. For the providers: references are
counted by those that hold the shared bridge, and only a bridge that never loaded
is replaced: there is never a second one that is loaded (`OneBridge`).

*Host bridge.* A cursor in step with the database, that is, one that was compared
with it after its last reset (`InStep`), has only accounted rows behind it
(`CursorStands`), in memory as in the file: told to the service, or in `passedBy` or
`overgrown`, which `NothingIsLost` therefore excepts. A cursor that is out of step
claims nothing. It stands again once it is set, or compared and found to show no
reset (`StandsCompared`): rows that grew back up to it are `overgrown`, rows behind it
are still to be read. A batch holds every preference between the row reached and the
high watermark (`BatchStands`). `ServiceBehaves`:
every behaviour of bridge, user and forget plans is one of `PreferenceVersions`,
so that module's theorems hold of it.

*Gateway.* A cache row outlives its effect by a day (`Remembered`), a cached answer
is true of what its fingerprint names (`CacheStands`), a stored event is what
pipeline and admission make of the event submitted (`Faithful`), and a connection
conserves its requests (`Conserved`): what was asked is what was told, what is
being served and what lies in its buffer, in order. Handlers are functions of the
tables, so most lemmas are about those functions.

*Client and view model.* The deadline timers are those of the requests in flight,
and a request that is not in flight was heard of once, if it was sent
(`Accounted`); only a connected socket has requests on the wire (`WireStands`).
Pipelines wait for distinct requests that were sent, and a busy one has a timer
(`PipelinesStand`). The chat request that can still be answered is of the text
that is shown (`ChatStands`); this is what a reset or time-out that keeps the
request, or a run that keeps the old memory, would break. A preview in
flight is not spent, nor is the live credential a confirmation would send, and
that one belongs to the selection shown (`ForgetStands`). Entries into the client
send nothing but by `SendRequest`; one lemma (`Entry`) covers all of them, however
the connection ends.

*Evaluation.* Every step of a dispatch implies how far its runtime has been cleaned of
the targets, and that they were found in every channel before (`JobStands`,
`Cleaned`, `TargetsProven`); a receipt freezes that, is never overwritten, and is what
each record in memory and in the package repeats (`ReceiptsStand`). A passed gate is
zeros in the record of every sample of a package that a finished execution has left
(`ReportStands`). `ReportsAreApproved` needs no invariant: the gates compare every
file with one review and one attestation in the step that writes the report.

**Only model-checked.** `EventuallySettled` and `EventuallySent` (liveness) and
`NoRequestStuck` (ENABLED) are out of the prover's reach. What recursive definitions
compute is proved where it is needed, by a least counterexample instead of the
library's induction rules, which the provers cannot instantiate.

## 5. Where code and documents disagree

`vector_stale` has a run: a failed deletion is said to make the index stale or
degraded (`docs/day3/08_vector_retrieval_contract_v1.md:502`); nothing does, and
deletes on a generation marked by an upsert are refused until they are dead
letters, because the two watermark streams cannot be compared
(`retrieval/sqlite_vector_provider.py:541`). A search that joins its hits with the
tables still hides the entry. The evaluation rewrites the stream to get around it.

Met while modelling, without a run of their own:

- *Outbox.* Rows of `_d8d_outbox` leave `next_retry_at` NULL, the mark of a dead
  letter, and are never claimed (`db/repositories.py:1950`). The index lag moves back
  when an older upsert is retried (`outbox/worker.py:239` against `:121`). `stop()`
  logs that the worker stopped also after its join timed out (`:99`).
- *Forgetting.* A plan whose target another plan deleted first, and an empty plan,
  are completed, but the content of their event makes no delete request: every attempt
  fails and it can only become a dead letter
  (`db/repositories.py:1852`, `outbox/deletion_consumer.py:145`). That no other plan
  has such an event is proved as `RefusalsExplained`; any event may still fail on the
  caches or the index (`outbox/deletion_consumer.py:279`). The payload names neither
  `content_hashes` nor `content_fingerprints`, and its `event_id` is the audit id
  (`db/uow.py:439`): short of a full reset the embedding and extraction caches keep
  what they hold of a forgotten text. The production router has no embedding service,
  so there `forget.executed` has no consumer at all.
- *Preferences.* Going back to an earlier value by an update is answered with the
  old version and changes nothing (`db/repositories.py:684`, listed as open in the
  technical-debt register); an answer from evidence leaves its key unbound (`:692`);
  a rollback to a temporary version makes it active (`:903`). The write policy plans a
  creation, numbered 1, where only removed or candidate versions are left, while the
  store goes on numbering; and it plans an update where the store answers a value that
  recurs without an event as already observed. `HandOversFit` is about what both agree
  on.
- *Vector index.* The first upsert to the default generation makes it, empty, the
  serving one (`sqlite_vector_provider.py:245`, against the retrieval contract:752).
  A rebuild begun before a forget brings the vector back (`:912`), hidden by the join.
  Hits that are dropped leave gaps in the ranks (`fusion.py:413`, `rrf.py` does not
  renumber), which lower the reciprocal rank of the hits behind them.
- *Gateway.* An answer beyond 64 KiB raises what `_send` lets through
  (`gateway/server.py:289`); an existing socket is unlinked unconditionally (`:79`);
  handler threads still commit after `stop()` returned; `turn.finalized` is not
  registered in production by default.
- *Ingestion.* The head of a de-duplication group may be a rejected row, or itself a
  duplicate, because the window slides; groups are per source type
  (`db/repositories.py:1309-1341` against ADR-013).
- *Knowledge.* Only the status `active` is refused for a terminal row, so removed,
  candidate, active is legal (`db/repositories.py:2230`); evaluations answered
  `archive_replayed`, `skipped` or `cas_miss` leave no receipt; `access_count` has no
  writer in the repository. A relation of a row to itself is refused only where both
  ends have the same type.
- *Client.* `setAutoReconnectEnabled(false)` leaves the state Reconnecting; a
  request whose `flush()` reports the loss is registered on the dead connection and
  ends by its timer; the selector of a forget preview is kept after some failures
  (`memory_view_model.cpp:2568`); an execute answer without a count completes.
- *Embedding.* Once a library was missing, the shared bridge stays destroyed and a
  retry fails for ever, though the error is documented as retryable; `stop()`
  between listen and publish is overwritten (`embedding/server.py:137-155`), and it
  may unlink another process' socket; `_embed_hang_recovered` is never reset; a timed
  out language model is cached as the final answer (`extraction_provider.py:819`).
- *Host bridge.* A table that is cleared and grows back to the cursor before the next
  poll is not noticed (`host_memory_bridge.py:422`): the rows up to the cursor are never
  sent, and those behind it get the keys of the old generation, of which one that
  stood for another value is refused for ever, with every row behind it. A start after
  a reset jumps to the last row (`:389`), although rows of a cleared table "belong to
  the new generation" and are to be kept "rather than silently losing them" (`:424`);
  that is done only while the bridge runs. A message that is JSON but no object (a
  number, a list, null) raises `AttributeError` at `obj.get` (`:124`); `main` catches it
  (`:567`), the cursor stays, and no row that was not read before it is ever sent. A
  lost or corrupt cursor restarts generations at 0, and a reset whose cursor was not
  saved before a crash may give the next one its generation, so keys are used again
  for other rows.
- *Evaluation.* A consumer failure is swallowed by the worker
  (`d13d_forget_index_producer.py:42`), so an index may be short of entries that are
  then found to be gone; one execution cannot dispatch both safety and forget
  samples, and `dispatch_and_write_canonical` always raises
  (`d13d_execution_adapter.py:1657`).

## 6. What is not modelled

- *Within the modelled components*: wording and formats of answers, metrics, logs,
  text patterns, prompts, field checks that only reject a payload, and read-only
  operations that return rows as they are. Bytes are decoded whole. Scores are exact
  fractions where the code adds floats. Cryptography is a value that only its owner
  has; a digest is the content it was taken of.
- *Partly modelled*: the worker's stop on a missing schema and its counters;
  `invalidate_by_user` and `invalidate_all`, which nothing calls; the launcher of the
  context sync, which sets three environment variables; of the business policies, the
  state machine of `service/forgetting_policy.py`, which no handler uses
  (`ForgetPlan` has the one that runs).
- *Left out*: the packet encoding of the client, host contracts, prechat hook and
  echo server, pragmas and table definitions, migrations, the vendor's vector
  client, domain types, application wiring, logging, the older evaluation harnesses,
  packaging, scripts, tests and evidence: pure functions, vendor code, or no state of the service.
  `PROJECT.json` lists each with its reason.
- Three hazards have no property; `PROJECT.json` says why.

## 7. Plan

Every safety property the runs check is proved, except `NoRequestStuck`. What is left
is to state more: that the order of a retrieval is the one the scores give, that the
merge of candidates loses none but for its key, and that `GatewayProofs`' server
behaves like a store used by one client at a time. For the components that are
modelled in part, the counters and the stop on a missing schema of the outbox worker
come first.

## 8. How to run

```
tlasany Outbox.tla
tlc -workers 2 -config MCOutbox_pass.cfg MCOutbox
tlapm OutboxProofs.tla
```

`PROJECT.json` lists for every run its module, configuration, expected result
and properties.
