# Token Metadata Service: TLA+ models, checks and proofs

The Token Metadata Service follows the Stacks blockchain through Chainhook,
keeps the tokens of SIP-009 (NFT), SIP-010 (FT) and SIP-013 (SFT) contracts in
PostgreSQL, fetches each token's metadata with a queue of jobs, and serves it
over HTTP. This directory holds TLA+ models of that program, the TLC
configurations that check them, and proofs that TLAPS checks. All paths below are
relative to the repository (`src/src/...` is its `src/` directory).

- [1. The system](#1-the-system)
- [2. Modules](#2-modules-and-how-they-correspond-to-the-code)
- [3. Runs, bounds and fairness](#3-runs-bounds-and-fairness)
- [4. Proofs](#4-proofs)
- [5. Where the code and its documentation disagree](#5-where-the-code-and-its-documentation-disagree)
- [6. What is not modelled](#6-what-is-not-modelled-and-why)
- [7. Plan](#7-plan)
- [8. Running everything](#8-running-everything)

## 1. The system

One Node.js process (or several, by `RUN_MODE`) and one PostgreSQL database.

| Component | State | Operations | Talks to |
|---|---|---|---|
| Chainhook server (`chainhook/server.ts`) | registered predicate | register from the stored tip, receive payloads, acknowledge | Chainhook node; calls the ingestion |
| Ingestion (`pg/chainhook/chainhook-pg-store.ts`) | `chain_tip`, `smart_contracts`, `tokens`, `update_notifications`, `jobs` | per payload, in one transaction: roll back blocks, apply blocks (contracts, notifications, mints, FT supply deltas), refresh due dynamic tokens | database |
| SIP validation, block cache (`token-processor/util/sip-validation.ts`, `pg/chainhook/block-cache.ts`) | none | classify a deployment; collect what a transaction does | called by the ingestion |
| Job queue (`token-processor/queue/job-queue.ts`) | `_isRunning`, `jobIds`, a p-queue; rows of `jobs` | `start`, `stop`, the loop, `add` | database, jobs, admin RPC |
| Job wrapper (`queue/job/job.ts`) | row of `jobs` | `work()`: run the handler with a timeout, retry, back off, settle | database |
| Smart contract job (`process-smart-contract-job.ts`) | none | read the number of tokens, insert them with their jobs | Stacks node, database |
| Token job (`process-token-job.ts`) | none | read the contract, fetch metadata and images, write the bundle | Stacks node, hosts, database |
| Metadata and images (`util/metadata-helpers.ts`, `images/image-cache.ts`) | a temporary directory | fetch with immediate retries, locales, resize and upload | HTTP, object storage |
| Rate-limited hosts | rows of `rate_limited_hosts` | save on a 429, read and delete before a request | job wrapper, token job |
| API (`api/routes`, `api/util/cache.ts`, `pg/pg-store.ts`) | none (the client keeps ETags) | ETag check, token bundle, index, status | database |
| Admin RPC (`admin-rpc/init.ts`) | none | refresh a token, retry failed, import a contract, cache images, start and stop the queue | database, queue |

What interacts with what. The ingestion, the contract jobs and the RPC write rows
of `jobs`; the queue takes them; the job wrapper settles them. The token job
writes `tokens` and `metadata`, which the ingestion deletes in a rollback and the API
reads, without a lock between them beyond PostgreSQL's own (every transaction is
READ COMMITTED). The Stacks node that jobs ask is not synchronised with the
chain that has been ingested.

What is hard, and what correct means there:

- **Queue.** One thread, but every `await` is a place where `start()`, `stop()`, another
  task or another process may come in between. Correct: limits on concurrency and size,
  no row executed twice at a time, no id stuck in `jobIds`, nobody waiting for an idle
  event that has passed, a row settled stays settled until it is asked for again, back-off
  respected, every request served, also after a crash.
- **Ingestion.** Forks in any sequence, payloads delivered again, transactions killed.
  Correct: after each payload the index is a function of the ingested chain.
- **Jobs against the chain.** A job reads from a node at one time and writes at another.
  Correct: what a rollback deletes stays deleted, and a supply that is right stays right.
- **Token job.** Several statements and requests, each of which may fail; a timed-out
  handler goes on beside its successor. Correct: a token shows one run's data;
  done means written; invalid means the token's own fault; a busy host costs nothing.
- **API.** An ETag read before a body that is put together by several SELECTs. Correct: a
  304 is true, and "nothing here" is not the answer to a token about to be processed.

`PROJECT.json` lists each hazard at the line where it bites, with the properties that
cover it or the reason none does.

## 2. Modules, and how they correspond to the code

`PROJECT.json` maps every definition to its lines.

### JobQueue (with JobLifecycle, JobQueueProofs, JobLifecycleProofs)

The table of jobs, `JobQueue`, `Job.work()`, and everyone else who touches either.

| Code | Model |
|---|---|
| row of `jobs` | `status`, `retryCount`; `backoff` (rows whose `retry_after` has not passed); `older` (the order of `updated_at`) |
| `_isRunning`, `jobIds` | `isRunning`, `jobIds` |
| p-queue | `paused`, `waiting` (FIFO), `pc` and `job` per task; `TryToStartAnother`, `Complete` |
| `start()`, `stop()` | `Start`, `Stop`, `stopping` (its `await onIdle()`) |
| `runQueueLoop()`, `addJobBatch()`, `add()` | per activation `loopPc`, `batch`, `adding`; `LoopExits`, `LoopReadsQueued`, `LoopReadsPending`, `LoopEnqueues`, `LoopWakes`, `LoopDbError`, `LoopResumes` |
| `Job.work()` | `HandlerSettles`, `HostSaved`, `RetryCounted`, `RetryRowMissing`, `StatusWritten`, `TaskDbError`, `CancelledEnds` |
| ingestion and admin RPC | `InsertJob`, `RequestRefresh`, `RetryAllFailedJobs`, `DeleteJob` |
| a process that dies | `Crash` (the table stays, the memory goes) |

An action is one `await`: the statement it waits for and the code after it, up to the next
`await`. Everything between two awaits is one step, since nothing interrupts it. A handler
that timed out is in `zombies` and ends at some time. `rejected` and `owed` are history.

`JobLifecycle` is the abstract specification: rows held by at most one worker, taken only
when somebody has asked or a dead worker left them, and released with a verdict or without.
`JobQueue` implements it with `held <- {job[t] : t \in Tasks} \ {NoJob}`, as long as nobody
has called `stop()` and no statement has failed; crashes are included. After a `stop()` it
does not: a cancelled task leaves `jobIds` while p-queue still holds it.

### BlockCache (with BlockCacheProofs)

Pure functions, no state. `GetSmartContractSip` classifies an interface by the three traits'
functions, compared by `FindFunction` as the code does: by name, number of arguments and
each type's `toString()`, under which all compound types are alike (`Implements`). `Notifies`, `NotificationOf`
and `IsSftMint` read a contract's log; a Clarity value is the tuple it decodes to, or `Null`
where decoding throws. `CacheTransaction` folds a transaction's events into what `BlockCache`
collects, as `transaction()` does event by event.

### ChainhookStore (with TokenIndex, ChainhookStoreProofs)

Both nodes and the ingestion, on a tree of blocks. It EXTENDS BlockCache.

| Code | Model |
|---|---|
| the tables | the record `db`; `DeleteTokens` is `ON DELETE CASCADE` |
| `processPayload()` | `BeginTransaction`, `RollBackBlock` and `ApplyBlock` (a step per block), `ResetTip`, `Commit`, `Abort` |
| `updateStacksBlock()` | `Cache`: `CacheOf` the block's transactions |
| `rollBackTransactions()`, `applyTransactions()` | `RollBackDeployments`, `RollBackNotifications`, `RollBackMints`, `ChangeSupply`; `ApplyDeployments`, `ApplyNotifications`, `ApplyMints` - functions from database to database, composed in the code's order |
| `enqueueDynamicTokensDueForRefresh()` | `EnqueueDynamicTokens`, with the error of its scalar subquery |
| the Chainhook node, registration | `NodeMoves`, `Send`, `Register` |
| smart contract job, token job | `ContractJobReads`/`Inserts`, `TokenJobReads`/`FtJobWrites`/`NftJobWrites` |
| `POST /import-contract` | `ImportContractReads`, `ImportContractInserts`: two requests to the API, then the insertion |

`Transactions` of a block are its events, so what must not count is in the instance: a failed
transaction, a log of somebody else, a lookalike contract, a value of the wrong type. Ghosts: `chain`
(what the index should stand for), `db.early`, `db.raced`, `db.dropped`, `db.imported`, `resent`,
`diverged`, which mark histories in which the code makes no attempt to be right and let the
invariants say exactly when it is.

`HistoryAssumption` is what the blockchain guarantees of any chain the nodes may be on: a contract is
deployed once, and its tokens are not minted before it is. The code relies on both (an id stands
for one contract, and a mint is looked up in the contracts that are there); TLC evaluates it on the
instance's blocks.

`TokenIndex` is the abstract specification: what a reader of `smart_contracts` and `tokens` sees. One
step of it, `Follow`, takes the index from one chain to another, undoing all blocks left and applying
all blocks entered at once; otherwise a contract is imported, or the job of a contract that is there
adds tokens of it. It knows no statements, aborts, acknowledgements or repeated payloads.
`ChainhookStore` implements it with `chain`, `contracts` and `tokens` as they are committed: while
a transaction is open, those of the snapshot it would go back to (`CommittedDb`). `Follow` may set out
from the new chain itself: a payload delivered again undoes and applies its blocks once more, and that must
come to one step of the same kind.
`astray <- diverged`: nothing is promised after a registration on a chain the node has left.

### TokenJob (with TokenJobProofs)

`ProcessTokenJob.handler()` from the first SELECT to the COMMIT, one step per `await`, in
several handlers at once, with `Job.work()`'s reaction to the outcome and the row of a
rate-limited host. `Fetch` gathers a round's documents in `raw`, `ParseMetadata` decides which of
them give a row (`bundles`): a document whose name is blank, or null without one to fall back to, is
passed over without an error (`metadata-helpers.ts:174-178`), so any of them may be missing, or all.
`UpdateToken` takes the row lock that PostgreSQL takes; `DeleteMetadata` deletes what is committed by
then; `InsertMetadata` is the INSERTs, if there are any, and the COMMIT. `Leave` is the end of
`handler()`, by an error or without one. `TimeOut`
settles the row and leaves the handler running. `Super` and `IsA` are the class hierarchy
of `errors.ts`. What a document says is left out, but for whether it has a name: a row of metadata
is known by its locale, its run and its round of fetches. Which row is taken, and how often it
is retried, is JobQueue's: `Start` takes any due row that no live handler has.

### MetadataBundle (with MetadataBundleProofs, MetadataRowsProofs)

What one token's runs do with documents and images, which TokenJob leaves out.

| Code | Model |
|---|---|
| `fetchAllMetadataLocalesFromBaseUri()` | `Fetch`, `FetchFails`, `RoundFails` (the immediate retries), `Skips` (the default's locale is not fetched again) |
| `getTokenUri()`, `getFetchableMetadataUrl()`, `getMetadataFromUri()` | `ChecksHost`, `Fetchable`, `Readable`, by the scheme of a URI |
| `parseMetadataForInsertion()` | `Document`, with `Kept`, `Named`, `ImageOf`, `Insert`, `Cached` |
| `processImageCache()` | `Document` (the directory, a `data:` image), `Response`, `BodyEnds`, `TransformReads`, `TransformWrites`, `Upload`, and the failures of each |
| `updateProcessedTokenWithMetadata()` | `Write`, with the unique key of a locale (`DistinctLocales`) |
| `reprocessTokenImageCache()` | `ReprocessImages` |
| a job's timeout, its next run, a killed process | `TimeOut`, `Start`, `Kill` |

A value is known by the document it comes from: a row holds positions in the bundle, a file or
object the run, round and document its image is from. `Insert` puts the merged properties in every
row, since a locale's array is the default's (`PropertiesOverrideDefault`, which the comment in the code
promises, is therefore refuted: section 5). The file `image` has the set of runs that have it
open; what is read while somebody writes is `Torn`, or fails. `overlapped` and `missed` are
history. sharp is taken to read the file each time (its cache is not modelled), and the image
cache to be enabled. Between two awaits the code handles all documents without an image at
once; the model takes a step for each, of which no other run can see anything.

### TokenApi (with TokenApiProofs)

The token endpoints of one contract beside the transactions that write it. The ETag
(`Modified`, `NotModified`), then `ReadContract`, `ReadTokenId`, `ReadLocale`, `ReadJob`,
`ReadToken`, `ReadMetadata`, `ReadAttributes`, `ReadProperties`, `Reply`: one SELECT each.
`EtagNumber` is the split of `request.url` at its slashes, query string included. A value
stands for the write it comes from, so a body mixing two writes shows.

## 3. Runs, bounds and fairness

Passing runs:

| Run | Asks | Instance |
|---|---|---|
| `queue_safety` | Are limits, ids and verdicts safe, and is `JobLifecycle` implemented, whatever comes between two awaits? | 2 rows, 3 tasks, 2 loops, concurrency 1, size 2, one each of stop, crash, failed statement |
| `queue_live` | Is every request served, does no row stay queued, does the first `stop()` complete? | 2 rows, 2 tasks, 2 loops, one crash, one stop |
| `chain_safety` | Is the index a function of the ingested chain, is `TokenIndex` implemented, and does no statement of a payload but the refresh fail because of what is there? | a contract of each SIP and a lookalike, 7 blocks on 5 chains, one fault |
| `token_write` | Is what a token shows, and what its job says, from one run and true? | an FT and an NFT, 2 handlers, 2 runs, 2 attempts, one extra locale, four errors; any document may have no name |
| `bundle` | Are rows merged as they should be, and does the bucket have the images they name? | a run with one image that may be overtaken, then one with 24 bundles of texts or 10 with images; 2 rounds |
| `api_read` | Is a 304 true, and is a body ever blank by accident? | one FT, with and without locale, 4 writes |

Runs that refute a sentence of the repository (section 5): `queue_retries`, `queue_lost`,
`chain_dynamic`, `token_hosts`, `bundle_properties`, `api_locale`.

Why the bounds are enough to be interesting:

- *Queue.* Two activations of the loop (a `start()` after a `stop()` while the first
  loop waits) are what makes the size limit and `jobIds` contended; two rows make one wait
  while the other runs; three tasks are exactly the size limit plus the extra one the second
  loop may add (`SizeBound`). Outcomes are split over the runs: timeouts (zombies) and rate
  limits (host, then retry) for safety, success and retry for liveness. Symmetry is used
  for safety only.
- *Chain.* The seven blocks have a deployment and supply deltas on two forks, a token
  frozen on one fork and dynamic on the other at the same height, deltas of both
  signs, an SFT minted twice and a block the columns cannot hold; every chain can be left for
  any other, so any sequence of reorganisations occurs. Blocks start at height 2, as
  `chain_tip` defaults to 1. One fault is one lost answer, one killed transaction, one
  registration or one import.
- *Bundle.* Two runs are a timed-out one and its successor, which share the directory; two
  rounds are one immediate retry. Two and three documents make the first row the default's or not,
  and put an override before and after the row it falls back to. The last run's timeout changes
  nothing, so it has none.
- *Token job.* Two handlers and two runs are a zombie and its successor, or two tokens and
  a host; two attempts are one retry. The clock takes one step: each property depends on
  before and after, not on durations.
- *API.* Four writes put a write before the ETag, between the ETag and the body, inside
  the body, and before the next request.

In `bundle` a document says everything or nothing beside its name, which is enough to tell whose
value a row has.

`CHECK_DEADLOCK FALSE` everywhere: the bounds end every behaviour, and the service may be idle.

Fairness (`FairSpec` of JobQueue only): weak fairness of each loop's step and each task's
step (a statement answers or fails, a timer fires, `resolveOrTimeout()` bounds a handler), of
the passing of a row's `retry_after`, and of `Start` until the first `stop()`
(`JOB_QUEUE_AUTO_START`). Weak is enough because each of these stays enabled until taken.
Nothing is assumed of requests, faults, zombies, or a start by the admin.
`RequestServed` excludes what the code cannot serve: a row that is itself requested without end
goes to the back of the table each time.

## 4. Proofs

**JobQueueProofs** proves, for every number of jobs, tasks and loops, every limit, and any
number of crashes, stops and failed statements:

| Theorem | States |
|---|---|
| `TypeCorrect` | `Spec => []TypeOK` |
| `ConcurrencyBounded` | `Spec => []ConcurrencyBound` |
| `SizeBounded` | `Spec => []SizeBound`: the limit plus one for each other activation of the loop |
| `NoIdLeaks` | `Spec => []NoLeakedIds` |
| `NoIdleIsMissed` | `Spec => []NoMissedIdle` |

The only assumption is `ConstantsAssumption`, which TLC evaluates too. `IInv` adds to the
four invariants and the type what they need to be inductive: the tasks in p-queue's list are
waiting, each listed once, and in use only with a job (`QueueOK`); an activation that marks a
row has one (`LoopOK`). Without `QueueOK`, starting the head of the queue could start a task
that already runs and the counts would not add up. The argument:

1. `TryToStartAnotherOK` and `CompleteOK` show what p-queue's two moves do to any
   consistent state; `AddRowsOK` what a loop does with a batch.
2. One lemma per action (or group of actions with the same effect) on top of these.
3. `NextOK` collects them by the disjuncts of `Next`, and `Invariance` is the temporal step.

**JobLifecycleProofs** builds on it and proves, for the same constants:

| Theorem | States |
|---|---|
| `OneTaskEach` | `Spec => []OneTaskPerJob` |
| `SettledStays` | `Spec => SettledUntilRequested`, an action property |
| `BackoffIsHonoured` | `Spec => BackoffHonoured`, an action property |
| `LifecycleImplemented` | `Spec => ImplementsLifecycle`: each step maps to one of JobLifecycle or to a stutter |

These hold only before the first `stop()`, and three of them only while no statement fails,
so the invariant `QInv` has three layers, each under the faults it survives:

- `Workers` (no `stop()` yet): one activation of the loop, none and no task beside a queue that is
  not running; each task in use has a row of its own whose id is in `jobIds`; the row being
  marked is not there; p-queue lists every waiting task.
- `Steady` (no failed statement either): a loop reads only when no task is in use, because it
  waits for `onIdle()` after each batch. So what is left of a batch, however stale, is
  nobody's, and only a request can change it. A failed statement sends the loop back to
  reading at once, which is why the layer ends there.
- `Due` (no crash either): a row is queued only with its task, so a batch has pending rows,
  due when they were read; `RetryCounted` delays the task's own row, which is in no batch.

The steps: `Starts` and `Ends` for p-queue, `Adds` and `ReadKeeps` for the loop, one lemma per
action or group of actions, `NextKeeps`; then `LoopRefines`, `TaskRefines` and `TableRefines` map
the steps. `FaultsAreCounted` carries "none so far" from a step's end to its beginning.

**TokenJobProofs** proves, for any tokens, handlers, locales, settings, and any number of
runs, kills and errors:

| Theorem | States |
|---|---|
| `TypeCorrect` | `Spec => []TypeOK` |
| `OneWrite` | `Spec => []OneWritePerToken` |
| `DoneMeansWritten` | `Spec => []DoneIsWritten` |
| `InvalidIsExplained` | `Spec => []InvalidSaysWhy` |
| `RateLimitsCostNothing` | `Spec => MetadataOutlivesRateLimits`, an action property: metadata is lost for nothing only to a rollback, a contract without a URI, documents that have all come and give no row, or an FT's error that will not pass |

From `TokenJobAssumption` only. The invariant follows the code's reasons:

- the row lock of the UPDATE belongs to exactly the handler between its UPDATE and its COMMIT
  (`LockOK`), so the rows its DELETE found are all there are (`OldFound`), so nothing of an
  older run is left beside what it inserts; what it inserts is from one round (`SameRound`),
  as the list of locales is emptied before each, and is parsed only when the round is over;
- a token none of whose handlers has overrun has one handler, its last (`Current`), and
  that ends without an error only if it has written (`Ended`);
- a handler whose contract has a URI writes only when the round has fetched the default and every locale
  it declares (`HasDefault`, nothing left to do), whether or not any of them has a name; or it is an
  FT's, with an error that will not pass (`Fallback`). A 429 is neither.

`QuietOK` covers every step of a handler outside the write: it is enough to say what the new
locals are, and `LeaveOK` those that end the handler. `ReasonIsTheError` is about the data: in `ReasonCases` every subclass comes before its
superclass, so a user error is named by its own case.

**BlockCacheProofs** proves, for any interface and any block:

| Theorem | States |
|---|---|
| `OneTraitEach` | a contract whose functions have names of their own has at most one of the three traits, so the order of the tests in `getSmartContractSip()` does not matter |
| `CacheContents` | what `CacheOf` collects has its type, exactly the contracts that successful transactions deploy, and exactly the tokens that their events mint |

Two traits always disagree on the number of arguments of one function (`Disagreements`), and a
contract cannot have both (`Incompatible`). `CacheOf` is a fold over the transactions of a fold over
the events of each. The library states what a fold computes by its recursion, so the proof first shows
that the intermediate caches are a function on the prefixes (`TransactionsCollected` and its like for
events) and then goes by induction over a set of numbers, which needs no operator parameter.

**ChainhookStoreProofs** proves, for any tree of blocks, contracts, tokens, forks, jobs, imports and
faults, from `ChainAssumption`, `BlockCacheAssumption` and `HistoryAssumption`:

| Theorem | States |
|---|---|
| `Invariant` | `Spec => []IInv` |
| `TypeCorrect` | `Spec => []TypeOK` |
| `ContractsAreTheChains` | `Spec => []ContractsMatchChain` |
| `TokensAreTheChains` | `Spec => []TokensMatchChain` |
| `DeltaOfCache` | the delta that `CacheOf` collects of an FT is the sum over the block's mints and burns |
| `SupplyIsTheChains` | `Spec => []SupplyExact` |
| `NotificationsOfCache` | the notifications that `CacheOf` collects are those of the block's authorised updates, each once, in the order of their positions |
| `NotificationsAreTheChains` | `Spec => []NotificationsMatchChain` |
| `RefreshAloneBlocks` | `Spec => []OnlyRefreshBlocks` |
| `NothingBlocksWhenOneIsDue` | `Spec /\ []OneDue => []NothingBlocksIngestion` |
| `IngestionIsAnIndex` | `Spec => ImplementsIndex`: each step maps to one of TokenIndex or to a stutter |

The properties speak of the moments between payloads, and a payload takes many steps, each a block
of which the rows may or may not depend on others. `IInv` says what a half-done payload leaves:

- `PayloadOK`: the blocks to apply end the target, those to roll back end what was sent, and
  below both the two chains agree, over `Below` blocks;
- `ChainOK`: what the index stood for before the payload, which is the sent chain, its target (when
  it is delivered again) or, without rollbacks, a beginning of the target; `PhaseOK` puts it where
  the transaction is, and keeps it for the snapshot that an abort goes back to (`saved`);
- `RowsOK`: `Lower`, the blocks whose rows must be there, and `Upper`, those that a row may be
  of. Between payloads both are the chain. In a rollback the lower bound is what the chains
  share (`Kept`) and the upper bound also what is still to be rolled back (`Left`): in a payload
  delivered again the target's blocks have been applied before, and are not undone. When blocks are
  applied the bounds close again.

Both bounds are of blocks, and rolling back deletes by name; that it deletes nothing a remaining
block has put there is `DeployedOnce`, and that a mint always finds its contract is
`DeployedBefore` - the two places where `HistoryAssumption` is used. The lemmas `BlockRolledBack` and
`BlockApplied` say what the statements of a block do to contracts and tokens. The rows that the ghosts excuse (`db.dropped`, `db.early`, `db.imported`)
are in the statement of the properties, so the theorem says that nothing else excuses one.

Supplies have an invariant of their own on top, `SupplyInv`. `Exact(d, c)`: a supply in the database `d`
is what the blocks of the chain `c` add up to, and one that is missing has its job pending. In a
rollback the chain is the sent one without the blocks rolled back already, which is why the payload
must not be one delivered again, and why the snapshot's chain must be the sent one. `OwnedOK` says that
every token, and every one that a contract's job is about to insert, has its contract: a supply
changes through the contract's row. Of a block's statements all but the last can only set a token
back or leave its supply alone (`Milder`, which composes); the last adds the delta (`SupplyAdjusted`).
The arithmetic is in three lemmas: a sum over a set splits at any element (`AnyOrder`, since
`MapThenSumSet` picks its own order), the delta collected in the order of the events is
that sum (`DeltaOfCache`), and a chain's supply grows by its last block's (`SupplyStep`).

So have notifications, `NotesInv`. `NotesExact(d, c)`: a token of the database `d` that is not early is
minted on the chain `c`, and unless it is dropped its notifications are those that `c` sends it
(`NotedOn`). The property takes the rows of the whole chain and cuts them after the first that freezes
the token; the code asks before each insertion whether the latest row freezes it. `NotedIsHeard`
reads the property as `Heard(AllOn(c, t))`, and `FrozenHeard` says that the two questions have one answer:
the row that froze a token is itself kept, and is the latest. `NotificationsHeard` then goes through
a block's notifications one by one (`NotificationsInTurn`), each later than all before it
(`NotificationsOfCache`), and `AllOnStep` from one block of the chain to the next. A rollback deletes
by position whatever the token (`Undone`), and `UndoneUnheard` shows that this takes the block's
rows and no other. A token that comes back into the index on the chain that minted it, after the
rollback of a later mint, has lost its notifications: that is the case `db.dropped` names, and the
proof of `ContractJobInsertsNotes` and of the new tokens in `NotesExactApplied` shows that there is no other.
Deleting a row of a token deletes its notifications with it (`NotesOwned`, the foreign key), so a token
that is inserted starts without any. TLC had checked `NotesInv` as an invariant of `chain_safety`'s instance
before it was proved.

What makes a payload fail has a third, `SentOK`. Of the four reasons in the code - a mode, a number, two
notifications of one token at one position, two tokens due for the refresh - the first two are the block's
own (`NotificationStored`, `NotificationsStorable`: what the cache collects is storable if the block
is), and the last is the finding of `chain_dynamic`. That leaves the unique key. `NotesSent(d, c)`: each
row is at a position of an update in the block of its height on the chain `c`. It is weaker than
`NotesExact` where that excuses tokens (dropped and early ones), whose rows can collide
as well as any other's. In a rollback `LastOneLeft` takes one block off `c`, and deleting by position takes
off exactly the rows of its height; so when a block is applied no row is as high, and
the notifications of one block differ in position (`BlockStored`). A payload with rollbacks that is
delivered again does collide: `OnlyRefreshBlocks` excludes it (`resent`), as section 5 says.
`NothingBlocksIngestion`, which `chain_dynamic` refutes, is true exactly as far as the refresh lets
it: `OneDue` is the condition, and it is about what is due at once, not about what is dynamic.

For `IngestionIsAnIndex` the invariant is `MovedOK`. `Moved(d, e, left, entered)` says that the contracts and
tokens of the database `e` are those of `d` without what the blocks `left` brought and with what
the blocks `entered` bring; it holds from the snapshot to the open transaction's database, for the blocks
undone so far (`MovedBack`) and the blocks of the chain above `Base` (`MovedOn`). The second needs that a
block knows the contracts of all that was minted in the payload before it, or a later deployment would
let in a mint that was dropped: `DeployedBefore` again. At a commit the chain is the target (`CommitFollows`),
and `ChainOK` says where it came from. Every other step of the transaction, and the abort, is a stutter
(`OtherStepSeen`); `OwnedOK` says that a contract's job only adds tokens of a contract that is there
(`ContractJobInsertsSeen`).

**TokenApiProofs** proves, for any tokens, URLs and number of writes, from `TokenApiAssumption` and
`NullAssumption`:

| Theorem | States |
|---|---|
| `TypeCorrect` | `Spec => []TypeOK` |
| `TrueNotModified` | `Spec => NotModifiedIsTrue`, an action property |
| `NoBlankAnswer` | `Spec => BlankOnlyIfFailed`, an action property |

A 304 compares two numbers, so the invariant must connect an ETag to all that was read after it.
`ReadOK`: as long as the token has the ETag the request began with, each thing the request
has read is what is there. `KeptOK` is the same of the answer the client keeps. Both survive a
writer because every transaction that touches a token or its metadata leaves it with a stamp of its
own or with none (`Written`), and no stamp or ETag is from a write to come (`Stamped`).
`StatusOK` and `JobsOK` are for blank answers: a job that is done has written the token, so a row
read later than its job's status has been written if that was `done`. `WrittenKeeps` covers the
transactions, `StepKeeps` the SELECTs.

**MetadataBundleProofs** proves, for any runs, documents and rounds, from `MetadataBundleAssumption`
and `NullAssumption` (`Null` is no file and no content):

| Theorem | States |
|---|---|
| `TypeCorrect` | `Spec => []TypeOK` |
| `OnlyOverlapLosesFiles` | `Spec => []FailsOnlyIfOverlapped` |
| `NamedImagesExist` | `Spec => []CachedImagesExist` |

`FailsOnlyIfOverlapped` speaks of the past of a run, so `IInv` says what keeps it true: a run under
way that nobody has overlapped is the only one (`AloneOK`), and the directory holds what its next
step needs (`Ready`): the file closed and whole before it is read, the output before it is uploaded.
A run that failed or was killed may leave anything behind, and the next one opens the file anew,
which is whole only if nobody still writes into it: hence `FilesOK`, that only runs reading a body
have it open. `StepKeeps` reduces a step of one run to what its new record and the directory
satisfy; `RoundFailsKeeps`, `EndKeeps` and `GotoKeeps` are its uses. On top of it `BucketInv`:
an object is replaced and never removed, a thumbnail is uploaded after its image, and a row is marked
after both; only `Upload` and `Write` touch it (`Held` for all others).

**MetadataRowsProofs** builds on it and proves, for any bundles, names, runs and rounds:

| Theorem | States |
|---|---|
| `RowsInvariant` | `Spec => [](IInv /\ BucketInv /\ RowsInv)` |
| `RowsFallBackAlways` | `Spec => []RowsFallBack` |
| `OnlyTheDefaultMayHaveProperties` | `Spec => [](PropertiesOverrideDefault <=> ~LocalizedProperties)`: the comment about properties is kept exactly as long as no locale has any of its own |
| `BucketIsTheRows` | `Spec => []BucketMatches` |

`Merged(bundle, inserts, n)` says what the rows are when the first n - 1 documents have been handled:
which documents have one, in order (`Placed`); what each says, by its own document and the first row's
(`RowSays`); and that a property is the last owner's, in every row (`PropertiesAre`), which is what
the aliased array comes to. `MergedExtends` and `MergedPasses` are its two steps: one more row, or none;
`MergedFallsBack` reads the properties off the end. There the first row's document precedes any other
with a row, so the last owner of a property is the first row's document only if no locale has one: that
is how far `PropertiesOverrideDefault`, which `bundle_properties` refutes, is true. For images, `ImageFollowed` follows the one in hand from the file through its reading to
the object, in a run that nobody has overlapped, until both objects are the last marked row's
(`LastImage`). `BucketMatches` speaks of a run that has ended, which needs `InOrder`: if an older run is
still under way, the younger was overlapped, so nobody uploads behind the back of one that was not.

What the proofs changed in the models: `ChainhookStore` and `BlockCache` state their assumptions
about blocks, and sums and folds are written with the community modules instead of `RECURSIVE`, which
the prover cannot use.

Only model-checked, not proved: the liveness properties of `queue_live` (`RequestServed`, `QueuedLeaves`,
`FirstStopCompletes`), which are out of the prover's reach. `NothingBlocksIngestion` is not true in general
(`chain_dynamic`); what is true of it is proved.

## 5. Where the code and its documentation disagree

Each of these has a run whose counterexample shows it:

| Run | The repository says | The code |
|---|---|---|
| `queue_retries` | `env.ts:76-79`: a recoverable failure is retried so many times | marking the row queued clears `retry_count` (`pg-store.ts:221-225`), so the limit is never reached |
| `queue_lost` | `README.md:34`: automatic refreshes by notification | a notification that arrives while the job runs is overwritten by its `done` |
| `chain_dynamic` | `env.ts:116`: dynamic tokens are refreshed each interval | two due at once break a scalar subquery, and with it every payload from then on |
| `token_hosts` | `env.ts`: a host is left alone until its Retry-After has passed | a row renewed between another handler's SELECT and its DELETE by name is deleted |
| `bundle_properties` | `metadata-helpers.ts:224-225`: "Localized properties only override their default. All others have to fall back to default values." | a locale's properties are the default's array itself (`:226`): what it overrides or adds is shown by the default's row and by every other locale's too |
| `api_locale` | `pg-store.ts`: the ETag is the token's | with `?locale=` the URL's last part is not a number: another token's row is used, or none |

Met while modelling, and left without a run of their own:

- Two loops may exceed `JOB_QUEUE_SIZE_LIMIT` by one (`job-queue.ts:84`); `SizeBound` says by how much.
- A timed-out handler is not stopped (`job.ts:46`, `env.ts:81`): more than the limit may run,
  and the older one may write last.
- A crash between the retry count and the status lets the row run before its `retry_after`
  (`job-queue.ts:115`); a failed statement does the same. `BackoffHonoured` says when it holds.
- `work()` rejects when its row is deleted before the retry is counted (`pg-store.ts:247`).
- `job-queue.ts:31` says the queue "runs continuously", but a `stop()` still waiting for `onIdle()`
  when `start()` is called pauses the queue that call has started (`:66-67`): `isRunning()` is true and
  what the loop adds never starts. `QueuedLeaves` therefore speaks of the time before a stop.
- A second `stop()` while the first waits may never resolve; an `add()` that ends after a `stop()`
  leaves its task in the paused queue.
- Notifications look for the latest dynamic one only, ignoring a later standard or frozen
  (`chainhook-pg-store.ts:314-319`).
- A payload with rollbacks that is delivered again counts supply deltas twice and trips over
  the unique index of notifications. Registration from the tip after a fork skips the rollback.
- The rollback of a repeated mint deletes the token (`chainhook-pg-store.ts:398-425`); SFT
  deltas go to token number 1 (`:269-274`), and of an FT contract that mints other tokens too (in
  the logs of an SFT, say) only that one's supply is kept: `SupplyExact` is about number 1, since the
  proof of anything more would have had to exclude such contracts.
- A job that reads a node that is ahead, or on another fork, inserts tokens the index has not
  seen minted; a notification that comes before a token is inserted is lost.
- Zero decimals are stored as NULL (`process-token-job.ts:91`); token number 0 is asked for
  without its argument (`:191`); a `data:` URI throws (`:197`) although `README.md:38` names it.
- A supply of zero is stored as NULL (`process-token-job.ts:98`), and NULL plus a mint is NULL
  (`ft-events.test.ts:25`: mints adjust the supply). `SupplyExact` leaves out such a read.
- A blank name has no row where a null one falls back. If no document of a token has a usable name, the
  write deletes the metadata there was, inserts none, and the job is done without an error
  (`metadata-helpers.ts:174-178`): `MetadataOutlivesRateLimits` names the case.
- An image that is not text becomes
  `[object Object]` for the locales that fall back to it, and fails their round.
- A locale listed twice breaks the unique key after everything was fetched (`:100`).
- A locale's image replaces the default's object in the bucket, whose name carries no locale
  (`image-cache.ts:136`). `BucketMatches` is about the last image only.
- Two overlapping runs may leave a half-written image, or one's image with the other's thumbnail.
- `cache-images` "uploads results" (`admin-rpc/init.ts:81`), but never does (see below).
- A notification's mode is any text (`sip-validation.ts:350`); one that is no
  `token_update_mode`, or a number of more than 63 bits, makes the whole payload fail, each time it
  is sent. `OnlyRefreshBlocks` leaves those out (`Unstorable`).
- The index joins `metadata` without `l10n_default` (`pg-store.ts:401`): a token with locales is
  listed once for each; it reads no `cached_thumbnail_image`, though `ft.ts` answers one.
- The status and the index are 304 while the tip's height is the same (`cache.ts:17`), though
  `status.ts:18` promises the "current workload".
- An invalid job turns the answer into an error but not the ETag: a client is still told 304.
- A token set back, or whose supply changes, before its first run is answered 200 with
  nothing instead of "not processed" (`pg-store.ts:486-489`).
- A processed image's URL is the text `[object Object]` (`image-cache.ts:183`).

## 6. What is not modelled, and why

- The bytes of a Clarity value, a URL or a document: each is known by what the code tells apart.
  How a gateway's URL is spelt, the parsing of `data:` and JSON5, and Retry-After are inputs.
- Index and status endpoints: they read only, and their ETag promises nothing that could be
  checked (section 5). Metrics: read only.
- The order in which servers start and stop, beyond the shutdown handler's `stop()`.
- Limits of the instances, not of the system: batches of 500 rows, the token limit of a
  contract, and the limits on the size of a response, which no property tells apart.

## 7. Plan

Done: all modules of section 2, with proofs of every safety property and action property that the passing
runs check, and of both refinements. What could follow: the two refreshes of a token that differ in
their `ttl` (the model has one interval), and the index endpoint, once its ETag promises something.

## 8. Running everything

From this directory: `tlc -workers 2 -config <cfg> <module>` for each run of
`PROJECT.json`; `tlapm JobQueueProofs.tla`,
`tlapm JobLifecycleProofs.tla`, `tlapm TokenJobProofs.tla`, `tlapm TokenApiProofs.tla`,
`tlapm BlockCacheProofs.tla`, `tlapm ChainhookStoreProofs.tla`, `tlapm MetadataBundleProofs.tla` and
`tlapm MetadataRowsProofs.tla` for the proofs (some leaves of ChainhookStoreProofs and JobQueueProofs
need most of their time limit: run one at a time). `queue_safety`, `chain_safety`, `bundle` and
`token_write` take about a minute each, the others seconds. A `Mutant:` comment above a
definition marks a plausible bug in the definition after it; `PROJECT.json` pairs each
property of a passing run with a mutant that TLC shows to violate it.
