# Bako Safe API: formal models

TLA+ models of the Bako Safe backend (`src/`), the configurations that
model-check them with TLC, and theorems about them checked by TLAPS.

The backend manages multisig vaults ("predicates") of the Fuel network. Members
of a vault create a transaction, sign or refuse it, and when enough of them have
signed, a worker submits it to the chain and reports the result back.

1. [The system](#1-the-system) - 2. [The modules](#2-the-modules) -
3. [The runs](#3-the-runs) - 4. [The theorems](#4-the-theorems) -
5. [Where code and documents disagree](#5-where-code-and-documents-disagree) -
6. [Abstractions](#6-abstractions) - 7. [Not modelled](#7-not-modelled)

## 1. The system

Four processes: the API (`packages/api`, Express and TypeORM on Postgres), the
worker (`packages/worker`, Bull queues on Redis), the socket server
(`packages/socket-server`) and the Fuel node. The API and the worker share
Redis (Bull queues and caches), Postgres, and the worker's Mongo database.

| Component | State | Operations | Interacts with | Hard behaviour | What makes it correct |
|---|---|---|---|---|---|
| **Transactions** `modules/transaction` | rows: status, resume with one witness per member, `deletedAt` | `create`, `signByID`, `cancel`, `deleteByHash`, `send`, `close`, `notifyResult` | enqueues into the submission queue; is called by its worker | each handler reads an entity, awaits, and saves the whole entity; repeated requests; aborted handlers | status agrees with the answers; SUCCESS only on chain; only a quorum is submitted; no way back from a final status |
| **Transaction submission** `utils/submitTransactionQueue.ts`, `queues/submitTransaction` | Bull jobs `tx_submit_<hash>`, attempts, the worker's position, the chain | enqueue (four Redis calls), process, retry, notify | posts `notify-result` to the API, sends to the node | two producers at once, crash, stalled job, lost answers, last-attempt boundary | the job stays with its worker; success is reported only if included; every job ends; errors in the `try` are reported |
| **Balance cache** `server/storage/balance.ts`, `ProviderWithCache` | cached balances per predicate and chain, invalidation flags | get, set, invalidate (per chain, all chains, everything), warm-up | invalidated by the transaction handlers and an internal route | fetch, invalidate and set interleave; lost Redis commands; a global flag cleared for one chain; chain id 0 | no reader that begins after an invalidation is served an older balance; the cache catches up with the chain |
| **Transaction cache** `server/storage/transaction.ts`, `modules/transaction/utils.ts` | cached deposits of a vault per chain, a refresh mark each | list, fetch, store, mark; merge with the rows of the database into pages | marked by the transaction handlers | marks, fetches, stores and expiries interleave; lost commands; two offsets of one page | a page that misses what an invalidation asked for is fetched again; paging skips nothing |
| **User block sync** `queues/userBlockSync` | cursor of a user in Redis and Mongo, job data | schedule, sync a range, persist deposits, login, logout clean-up | Hypersync, Mongo, Postgres; moves the block of the balance queue | budget shared by the user's vaults, retries, clean-up during a job | the cursor does not go back; every vault is read to the tip |
| **Predicate balance** `queues/predicateBalance` | recorded block and balances of a vault in Mongo | schedule, read from the recorded block, record, store | Hypersync, Mongo | crash or error between block and balances, error answers | a transaction is counted once; its amounts add up |
| **Sessions** `modules/auth`, `server/storage/session.ts`, `utils/token` | one row per user in Postgres, copies in Redis | authenticate, renew, update, change network and settings, sign in, sign out, clean every minute | every authenticated request | look-ups put copies back, saves of entities read before, times to live | a sign-out lasts until the next sign-in; a renewal is not forgotten; sessions end |
| **Recover codes** `modules/recoverCode`, `auth/.../code.ts` | code, uses, validity | create, validate, use | sign-in, connector | check-then-save | a code is used as often as it allows |
| **Connector and socket server** `packages/socket-server` | rooms; codes in the database | relay, request of a dApp, confirmation | sign-in codes, transactions | ordering of events | an answer reaches the dApp that asked |
| **Ramp and webhooks** `modules/meld`, `modules/webhook` | ramp orders | create, provider events | transactions | events twice or out of order | an order does not go back |
| **Bridge**, **assets value**, **quotes**, **predicates**, **users, workspaces, address book, tokens, dApps**, **notifications**, **clients and migrations** | records of the database | one statement per request, periodic refresh | | none to speak of | |

`PROJECT.json` lists every component with its sources, and, under "hazards",
the places in the code where things can go wrong that a test would hardly reach.

## 2. The modules

| Module | Models |
|---|---|
| `TransactionStatus` | the pure part: witnesses, `validateStatus`, `validateSignature`, what a sign and a cancel do to the witnesses |
| `SubmitQueue` | producer, Bull job, worker, chain, and the `notify-result` requests in flight |
| `TransactionSystem` | composes the two with the rows of the table and the request handlers of the API |
| `TransactionLifecycle` | abstract specification: the life of a transaction without witnesses, queue and requests |
| `BalanceCache` | the cached balances of a predicate, the requests that fill and the requests that invalidate them |
| `TransactionCache` | the cached deposits of a predicate, the listings that fill them and the invalidations that mark them |
| `TransactionPages` | pure part: the pages a client is shown of rows and deposits |
| `BlockSync` | the balance queue, the user block sync and the logout queue over the same collections |
| `PredicateBalances` | pure part: the amounts a job stores for the transactions of an answer |
| `Sessions` | the row of a user's token, its copies in Redis, the requests and the cleaner |
| `MCSubmitQueue`, `MCTransactionSystem`, `MCBalanceCache`, `MCTransactionCache`, `MCBlockSync`, `MCSessions` | values of the constants for TLC; `MCTransactionCache` and `MCBlockSync` join a model with its pure part |
| `SubmitQueueProofs`, `TransactionSystemProofs` (the system, the answers and the refinement), `BalanceCacheProofs`, `TransactionCacheProofs`, `TransactionPagesProofs`, `BlockSyncProofs`, `PredicateBalancesProofs`, `SessionsProofs` | theorems and proofs |

### SubmitQueue

* `producer[p]` is where request `p` is in `enqueueTransactionSubmit`. `getJob`,
  `getState`, `remove` and `add` are separate Redis calls, so each is an action
  of its own (`GetJob`, `GetState`, `Remove`, `Add`), and any two producers, the
  worker and Bull may step between them. `EnqueueFails` is the `catch` that
  swallows a Redis error; `RemoveRefused` the error of removing a locked job.
* `jobs[h]` is the Bull job with id `tx_submit_h`: its state, the attempts made,
  how often it was found stalled, and the fat job it carries. `Throw` is what
  Bull does when the processor throws (delay or fail), `Promote` the end of a
  delay, `Stalled` the recovery of an active job whose worker died.
* `worker` is where `processSubmitTransaction` is, one action for every await:
  `Take`, `SetupDone`/`SetupThrows` (`getChain`, `JSON.parse`, `new Vault`:
  outside the `try`), `SendAccepted`/`SendRefused`/`SendUnanswered`
  (`vault.send`), `WaitDone`/`WaitThrows` (`waitForResult`), `PostResult`/
  `PostFails` (`notifyTransactionResult`), `Complete`. `Catch` is the catch
  block: `isTransientError` decides by a substring of the message, so an error
  may fall on either side (the parameter `retriable`).
* `chain[h]`: unknown, pooled, included or reverted. `Settle` and `SqueezeOut`
  are the node's own steps.
* `Faults` selects the failures the environment produces. With "network" both
  `vault.send` and `waitForResult` may lose their answer, with "late" `waitForResult`
  only.

### TransactionSystem

* `rows[r]` is a row of `transactions`: status, witnesses, soft-delete flag.
  `handler[h]` is a request in progress: its operation, its row and the
  **entity it read**. A handler is cut where it awaits the database: `findOne`
  and everything computed from its result is one action (`CreateFind`,
  `SignFind`, `CancelFind`, `DeleteFind`, `NotifyFind`), the save is another
  (`CreateInsert`, `SignSave`, `Save`, `NotifySave`).
* `WriteBack`: TypeORM's `save()` loads the row again and writes every column in
  which the entity differs, so the row becomes the entity that was read, whatever
  was saved meanwhile (a delete included). This is what makes the interleavings
  interesting.
* `SignSave` saves and, if the status the handler computed is `PENDING_SENDER`,
  starts `enqueueTransactionSubmit` with the fat job taken from its entity.
* `Close` is one `UPDATE` and needs no handler state. The resume it stores has no
  witnesses: `LostWitnesses`.
* `HandlerAborts`: a handler that throws or is cut off at an await.

### TransactionLifecycle

What a user of the service is told: one live row per hash, a row is approved
before its hash settles on the chain, SUCCESS and FAILED as the chain decided,
final statuses are final. `TransactionSystem` is mapped to it by
`Lifecycle == INSTANCE TransactionLifecycle WITH status <- ..., settled <- ...`.

### BalanceCache

* `cache[c]` and `flags` are the Redis keys `balance:<address>:<c>` and
  `balance:invalidated:<address>[:<c>]` of one predicate; the keys of another are
  disjoint. A balance is abstracted to a version, `balance[c]` on the chain.
* `request[q]` is what a request holds across its awaits. One action is one Redis
  command or one call of the node: `ReadChainFlag`, `ReadAllFlag`, `ReadEntry`
  (`get`), `Fetch`/`FetchThrows`, `Store`, `ClearFlags` (`set`), `DeletePage`/
  `DeleteFails`, `SetFlag` (`invalidate`), `PatternDone` (`invalidateAll` deletes
  entries, then flags). `getBalances` returns a hit and stores every fetched
  answer; a balance check (`check`) always fetches, and stores only an answer that
  differs from the entry it found.
* `FlagKey` is `buildInvalidationKey`: chain 0 is falsy, so its flag is the flag of
  all chains, and invalidating it invalidates every chain.
* Both Redis clients swallow errors: every command may `Fails` (a read finds
  nothing, a write does nothing), at most `MaxFailures` times.
* `ExpireEntry`, `ExpireFlag`: times to live. A flag (1 hour) set over an entry
  (5 minutes) outlives it; `covered` remembers which flags were set over an entry.
* `Overlap` says whether an invalidation may run while other requests do, `Operator`
  whether the operator calls `invalidateAll`.
* History: `promised[c]` is the version the invalidations so far ask for, `asked`
  what of it a reader is promised when it begins: nothing while an invalidation is under
  way (`Promise`). An invalidation asks for the balance of when it began (`asks`), from
  when its entry is deleted or, if the delete is lost, its flag is set. A lost delete of a *global* invalidation asks for nothing:
  a `set` for any chain clears its flag (`balance.ts:362`).

### TransactionCache and TransactionPages

* `pages[c]` and `marks` are the Redis keys `tx:<address>:<c>` and the refresh mark
  of that entry, of one predicate. The transactions of the address are numbered; a
  page is the set of the deposits among them that it holds.
* A listing is `ReadEntry`, `ReadMark` (`getWithRefreshCheck` reads the entry first),
  `Fetch` or `FetchThrows` (the node), `Store`, `ClearRefreshFlag` (`set`). A page
  that is found but marked is completed with the newest `IncrementalLimit`
  transactions and merged; otherwise `FetchLimit` are fetched.
* An invalidation is `markForRefresh`: `InvalidateChain` marks one chain,
  `InvalidateAll` (no chain id, or chain id 0) what `Keys` finds, one `SetMark` each.
* Every command may be lost, `MaxFailures` times. `ExpirePage` and `ExpireMark`: both
  live 10 minutes, so a mark outlives the entry it was set over.
* History: `promised[c]` is the length of the history a page has to cover: what there
  was when the last mark was set. `behind` are the requests that will store or clear too
  late: a mark was set after their fetch (`Filling`), or the write of their page was lost.
  `unguarded` are the chains whose page such a request has stored, or has removed the mark of.
* `TransactionPages` writes `TransactionPagination.paginate`, the filter of recorded
  deposits, the sort and `mergeTransactionLists` as operators. A sorted list is a set of
  items, each of which has its `Rank` in the order of `sortTransactions`; `skip` and `take`
  is the `Slice` of those ranks. `Walk` is a client that asks for one page after the other
  (`NextPage`) while rows and deposits come.

### BlockSync and PredicateBalances

* One record per job: `balance[p]` (read a vault from its recorded block), `sync` (read
  the vaults of the user from the user's cursor), `logout`. Each is cut at its awaits:
  `TakeBalance`, `FetchBalance`, `RecordBalance`, `StoreBalance`; `TakeSync`, `ReadTip`,
  `FetchSync`, `RecordSync`, `StoreSync`, `PersistDeposits`, `SaveCursor`; `PersistBlock`,
  `CleanUp`. An insert is a step of its own.
* `block[p]` is the document of `predicate_blocks`, which both queues write; `counts` says
  how often the transaction of a block was stored in `predicate_balance`; `userBlock`,
  `loggedIn`, `persisted` are the user's keys in Redis and the document of
  `user_block_control`.
* `Throw` and `Stall` are what Bull does with a job that throws and with one whose worker
  died. A failed write may have been applied or not. `Crash` stops all three queues.
* `FetchBalance` may return an answer that carries an error and no `next_block`: it is
  recorded as null and read as 0. `ReadTip` may fail and go on with a made-up tip.
* `ScheduleBalance` needs more than one vault in the database: `PsqlClient` returns one
  row as an object, over which the scheduler does not iterate.
* `Loop` is the pair of loops over vaults and blocks: the budget and the tip reached are
  shared, so the first vault alone is read.
* History: `excused[p]` are the blocks `CountedOnce` says nothing of.
* `PredicateBalances` writes `groupByTransaction`, `makeDeposits` and the amounts of
  `syncBalance` as operators on inputs and outputs; each loop of the code (`reduce`,
  `filter`, `for`) is a function that is defined recursively on its index.

### Sessions

* `row` is the user's row of `user_tokens` (`user_id` is unique) and `session[t]` the copy
  of a token's row in Redis. The terms of a token (`expired_at`) are numbered in the
  order they end; `Grant` gives one that has 40 minutes or more left, at a sign-in and at
  a renewal, and of two at the same time the later one may give the shorter. The rest of a
  session is left out.
* `request[q]` is what a request holds between its awaits: `GetSession`,
  `FindOnDatabase`, then `Refuse`, `Accept` or `AcceptAndRenew` (`recoverToken`,
  `renewToken`), `RenewSave`, `RenewRead`, `RenewAdd`, and what the handlers do
  (`UpdateSession`, `PutSettings`, `NetworkFind`, `NetworkSave`, `Reload`,
  `AddReloaded`). The `SET` that puts a row back is not awaited: `PutBack` happens in
  the step that follows.
* `SignIn` revokes the user's row, inserts a new one, reads it and stores it (`Revoke`,
  `Insert`, `SignRead`, `SignAdd`). `createAuthToken` verifies the signature, but neither
  compares its digest with the recover code nor refuses a signature that was used
  before, so any token may sign in at any time, one that was signed out included.
  `SignOut` is `RemoveRow`, then `RemoveCopy`.
* The cleaner (every minute) is `CleanerFinds`, `CleanerDeletes`, `CleanerDrops`. A run
  that found nothing and whose `DELETE` meets a row that ended in between is
  `CleanerDeletesUnseen`.
* Time is `old` (terms with less than 40 minutes left: they are renewed) and `past`
  (terms that have ended). A copy lives 40 minutes, so one that was stored earlier
  (`early`) is gone before its term ends.
* History: `removed` are the tokens whose row `removeSession` has deleted, until they sign
  in again; `closed` those of them whose copy was then deleted and met nobody who was
  about to store one (`Holds`);
  `unsettled` those whose copy a failed command, or a stale copy stored in the last
  40 minutes, left behind the row.

## 3. The runs

| Run | Question | Instance |
|---|---|---|
| `queue` | Is the queue right on its own, under every fault? | one hash, two producers, a payload with and one without a quorum, 3 attempts, all six faults of the queue |
| `concurrent` | What survives handlers that save over each other? | 2-of-2 vault, one row, two handlers, all six kinds of request, repeated answers, lost answers of the node, aborted handlers |
| `serial` | Does the system implement its life cycle when requests come one after the other? | 1-of-2 vault, two rows of one hash, one handler, answers with and without signatures, 2 attempts, a node that drops transactions |
| `balance` | Do deleting and flagging back each other up, and does the cache catch up with the chain? | chains 0 and 9889, two requests, `invalidateAll` too, one change of each balance, one lost Redis command, no overlapping invalidation |
| `history` | Is an incomplete page marked, does the cache become complete, and does paging show everything? | mainnet (9889), two requests, three transactions, two invalidations, one lost Redis command, an incremental fetch of 1 and a full one of 3; all histories of five transactions, ten pages |
| `sync` | Is a transaction counted once, and what becomes of the user's cursor? | the one vault of a user among others, two blocks, a budget of two, two attempts, one login, two failures; all transactions of up to two inputs and two outputs |
| `access` | Does a sign-out last until the next sign-in, is a renewal remembered, does every session end? | two tokens, two ends of terms for the first and one for the second, two requests at a time, three in all, one failure |
| `lost_answer`, `setup_throws`, `repeated_answer`, `recreated`, `stale_balance` | the disagreements of section 5 | one or two rows, one handler; one chain, two requests, overlapping invalidations |

The properties:

* `QueueTypeOK`, `TypeOK`: the type invariants. `QueueTypeOK` bounds the attempts
  of a job by `MaxAttempts`.
* `WorkerHoldsItsJob`: `Catch` and `Complete` look the worker's job up again long
  after it was taken. Producers remove and add jobs with the same id meanwhile,
  the stalled check fails jobs; the job the worker works on is still its own.
* `SuccessIsIncluded`: "success" is posted only about an included transaction.
* `CaughtErrorsAreReported`: a job becomes `failed` (where nobody is told) only
  for an error outside the `try`, or a dead worker. The worker's `isLastAttempt`
  and Bull's count are two separate computations that must agree.
* `EveryJobEnds` (liveness): a waiting job is completed or fails.
* `SuccessOnlyOnChain`: a row says SUCCESS only if its transaction is included,
  although a handler may write back what it read before the report, and although
  `send` enqueues rows of any status. A row closed by its client is excepted.
* `StatusMatchesAnswers`: lost updates lose answers, but never tear a status from
  the answers it was computed from.
* `SignEnqueuesQuorum`: what `signByID` enqueues carries a quorum of signatures.
  Clients that sign what they approve are assumed (`PlainAnswers`): the validator
  of the sign route is commented out, and the API counts approvals without
  looking for a signature.
* `ImplementsLifecycle` (refinement) and `SubmittedRowSettles` (liveness).
* `CacheTypeOK`: a request only stores a balance the chain has returned.
* `HitAfterInvalidationIsFresh`: a reader that begins after an invalidation has finished
  is not answered from the cache with a balance older than when that began, although one Redis command may
  be lost (the delete, the flag, a read of a flag) and fills overlap each other.
* `EventuallyFresh` (liveness): once a balance has changed for the last time, the
  cache holds it or nothing from some time on.
* `PagesTypeOK`: a page holds deposits of its chain only.
* `StalePageIsMarked`: a page that misses what an invalidation asked for keeps its mark,
  although listings, marks, expiries and one lost command overlap. These cases are
  excepted, because the code has them: a request that had fetched before the mark was set
  stores its page, or removes the mark, after it; a request whose page could not be written
  removes the mark all the same (both `unguarded`); what is missing is not among the
  newest `IncrementalLimit` transactions (`Fresh`); the mark itself could not be set.
* `EventuallyComplete` (liveness): all of those are made good, when the entry expires.
* `PagingIsComplete`: a client that asks for page after page is shown every transaction
  that was there when it began, though rows and deposits come meanwhile; with one
  exception, `MovesRecorded` (section 5). `PagingIsTheList`: when nothing changes, each
  once and in order.
* `SyncTypeOK` bounds the attempts of each job.
* `CountedOnce`: the balance queue stores a transaction below the recorded block once and
  none above it, whatever throws, dies or is retried; the exceptions are those that a run
  had recorded when it failed, and the vaults whose block a user sync or an error answer
  has moved.
* `CursorMovesForward`: runs, retries, attempts of a logout and crashes overlap, and the
  user's cursor only goes back when a logout deletes it.
* `EventuallyRead` (liveness): every vault is read to the tip.
* `BalancesAddUp`: what is stored for a transaction is what the coins of the vault gained
  or lost in it, however the answer is cut into pages; a failed transaction adds nothing.
* `SessionsTypeOK`: the row is of a term its token was given.
* `SignedOutIsRefused`: row and copy of a signed-out token do not come back until it signs
  in again, unless a request was about to store a copy when they were removed: a renewal,
  a change of network, a late answer of the database, a restart must not do it.
* `LiveTokenIsNotRefused`: the copy that `recoverToken` believes does not end before the
  row, unless a command failed or a stale copy was stored in the last 40 minutes.
* `SessionsEnd` (liveness): when no more requests come, nothing is left of any session,
  even if requests that have come hang.

**Why these bounds.** One hash is enough for the queue because job id, lock,
removal and duplicate test are all per hash and the one worker runs one job at a
time; two producers are needed for the look-up/remove/add race. Three attempts
are a first, a middle and a last one. Two handlers are what a lost update takes,
two members what it takes for one answer to overwrite another; two rows of one
hash are what `create` allows after a failure. `MaxAttempts` is 120 in the code;
it is 1 in `concurrent`, whose questions do not depend on retries. In `balance`,
one lost command is the most the two-fold invalidation can stand, and a second
request is what it takes to fill the cache under the first; two chains are needed
for the flag they share. In `history`, a second request fills the page under the first, a
first invalidation may be lost and a second one not, and an incremental fetch of one
transaction against a history of three leaves the hole that ten leave in a longer one;
two chains do not share anything but the loop over the marks. Five transactions are what
it takes for one that is skipped (two recorded, a deposit before and after, a new row); a
client asks for twice as many pages, one for each of both lists (`PagesAssumption`). In `sync`, two blocks
make a batch before and one after the cursor; one of two failures is made good by a retry,
the second one ends the job; one login is followed by a logout that a sync overlaps (a
second one does not end within the time a run is given).
The vaults of a user after the first are never read, so one is enough; `OtherPredicates`
stands for the others of the database. In `access`, a second token is what it takes to
revoke the first, a term and its renewal what it takes for one copy to be older than
the row, and of three requests two cross and the third meets what they have left. A request
takes the first place that is free, since places are interchangeable.
The theorems of section 4 hold for all values.

**Deadlock** is checked in `queue`, `history`, `sync` and the balance runs. The system
runs say `CHECK_DEADLOCK FALSE`: when every row has ended and its hash cannot be
created again, nothing is left to do; so does `access`, where `MaxArrivals` requests
come and no more.

**Symmetry** (members, handlers) is used in `concurrent` only, which has no
liveness property.

**Fairness.** `QueueFairness`: Bull polls, promotes delayed jobs and runs its
stalled check; a processor that runs goes on (an await of it returns or throws);
the chain decides a pooled transaction; `enqueueTransactionSubmit` runs on.
`Fairness` adds the handlers and the delivery of posted `notify-result` requests
to the API. All of it is weak fairness; clients and faults have none, so a client
may never answer, and a fault never has to happen. `CacheFairness`: a request that
has begun runs on (its awaits return or throw), and the time to live of an entry
ends. Redis starts that time anew with every `set`; after the last change of the
balance only a request already under way can still store an old one, so an old
entry is not renewed for ever. `FairPagesSpec`: the same for the listings, the marks
and the time to live of a page. `FairSyncSpec`: the balance scheduler runs again and
again, a job that runs goes on, and a waiting balance job is given its turn; this is
strong fairness, because the queue runs one job at a time and the turn is not open
throughout; Bull's waiting list is first in, first out. The user's logins have none.
`FairSpec` of `Sessions`: the cleaner is started every minute, and time passes, while
nothing makes a request come, nor go on: one may hang at any await.

## 4. The theorems

Checked by TLAPS for every vault, any number of rows, hashes, producers, handlers
and attempts, every choice of requests, answers and faults. The assumptions are
those named in the modules: `SignersAssumption` (finitely many members, a quorum
of at least one), `SubmitQueueAssumption` (types of the constants),
`SystemAssumption` (the queue's payloads are the fat jobs of the API),
`BalanceCacheAssumption` (chain ids are numbers, the key of all chains is none),
`TransactionCacheAssumption` (an incremental fetch asks for at least one transaction and
for no more than a full one), `PagesAssumption` (a client asks for as many pages as the two
lists can have entries), `BlockSyncAssumption` (a positive block range, at least one
attempt) and `SessionAssumption` (every token is given at least one term).

| Theorem | States |
|---|---|
| `QueueTypeCorrect`, `WorkerAlwaysHoldsItsJob`, `ReportedSuccessIsIncluded`, `CaughtErrorsAreAlwaysReported` | the four safety properties of the queue, of `QueueSpec` |
| `TypeCorrect`, `SuccessIsAlwaysOnChain` | `TypeOK` and `SuccessOnlyOnChain`, of `Spec` |
| `ValidateStatusMatches` | `validateStatus` returns the status the answers call for |
| `StatusAlwaysMatchesAnswers` | `StatusMatchesAnswers`, of `Spec` |
| `SignAlwaysEnqueuesQuorum` | `SignEnqueuesQuorum`, of `Spec`, if clients sign what they approve |
| `CacheTypeCorrect` | `CacheTypeOK`, of `CacheSpec` |
| `FreshAfterInvalidation` | `HitAfterInvalidationIsFresh` (readers that begin after the invalidation has finished), of `CacheSpec`, if no invalidation overlaps and `MaxFailures <= 1` (`Quiet`) |
| `SerialImplementsLifecycle` | `ImplementsLifecycle`, of `Spec`, for an API that handles one request at a time (`Serial`) |
| `PagesTypeCorrect`, `StalePageIsAlwaysMarked` | `PagesTypeOK` and `StalePageIsMarked` with the exceptions it names, of `PagesSpec`, with any number of lost commands |
| `WalkIsComplete` | any growing views, page size, order: a client that asks for as many pages as the last view has rows and deposits is shown all that was there at first, if nothing is recorded or no row comes that the order puts before others |
| `WalkPagesTheList` | any one view without recorded deposits: page *k* of size *n* is what has rank *(k-1)n* to *kn-1* in the list of rows and deposits |
| `PagingIsAlwaysComplete`, `PagingIsAlwaysTheList` | `PagingIsComplete` and `PagingIsTheList`, of `PagesSpec`, for a history of any length |
| `DepositsAddUp` | any inputs and outputs with amounts of any size, if messages bring the base asset and the vault gets no more change than it spent: the rows of `makeDeposits` sum to what the outputs brought less what the coins took |
| `BalanceOfPages` | the same for the rows that `groupByTransaction` gathers from any pages, of those after the last one that says that the transaction failed |
| `TransactionsAddUp`, `BalancesAlwaysAddUp` | `AddsUp` for any number of inputs and outputs of the run's kinds; `BalancesAddUp`, of `SyncSpec` |
| `SyncTypeCorrect`, `CursorOnlyMovesForward`, `EveryTransactionCountedOnce` | `SyncTypeOK`, `CursorMovesForward` and `CountedOnce`, of `SyncSpec` |
| `SessionsTypeCorrect`, `SignedOutStaysOut`, `RenewalIsNotForgotten` | `SessionsTypeOK`, `SignedOutIsRefused` (until the token signs in again) and `LiveTokenIsNotRefused`, of the `Spec` of `Sessions` |

**The queue** (`QueueInv`). `WorkerHoldsItsJob` is not inductive: a worker holds
its job because only `Throw`, `Complete` and `Stalled` take an active job away
and none of them can do it to a locked one, and because the job carries the hash
of its id (`JobsAreTheirOwn`), which needs what producers carry
(`ProducersCarryAPayload`). `SuccessIsIncluded` needs that the worker's outcome is
already true before it is posted (`WorkerTellsTheTruth`) and that an inclusion is
not undone.

**The system** (`SystemInv`). `SuccessOnlyOnChain` speaks of rows, but a handler
may write back an old entity at any time. The invariant therefore also says that
every entity a handler holds tells the truth (`EntitiesSayTheTruth`), and contains
`QueueInv`. What the API does to the queue is the one shape `ApiStepInv` treats:
it starts producers and takes requests away.

**The answers** (`AnswersInv`). A row or entity is `Consistent` if its status is
the one its answers call for and, under `ApprovalsAreSigned`, every DONE is
signed. Consistency of all rows and of all entities in flight is inductive,
because an entity is written whole.

**The balance cache** (`FreshInv`). An entry is `Stale` if it is older than what
was promised. The invariant says where stale entries can be: only after the one
failure was used up (`StaleIsFlagged`), under a flag of their own that was set over
them, or in what `invalidateAll` has still to delete; a reader past the flag, a
fill past its store, and `invalidateAll` past its scan see none
(`StaleIsNotInUse`). A lost read of a flag is then harmless, because there was
nothing stale before the one failure. `ReadersAreUpToDate` ties what a reader was
promised to what is promised now, which needs that an invalidation has the cache
to itself (`InvalidationsAreAlone`); `PromisesAreKnown` says that a fetch returns no
less than was promised or an invalidation under way asks for; `FailedDeleteIsCounted` that
a promise kept by a flag alone has used the failure.

**The refinement** (`SerialInv`). `Serial` says what is assumed: one handler; creates, signs,
cancels and deletes (not `send` and `close`, which do not look at the status); members
answer once; attempts may throw, transactions be squeezed out and Redis fail, but no
report is lost and no handler cut off. Each step then is a step of `TransactionLifecycle`
or a stutter. The invariant adds to `AnswersInv` what a step needs to know: a hash has
one live row (`OneLive`); the row a request has read is still as it was read, and what it
will save follows from it (`Ready`); a report in flight is that of the worker, who waits
(`PostedInv`); what a producer or a job submits is a row in PENDING_SENDER until its
outcome is reported (`SubmittedInv`); what is pooled has a worker that waits for it, and
what is included is being reported or has a SUCCESS row (`ChainIsWatched`). A second
handler breaks `Ready`, a lost report `SubmittedInv`.

**The transaction cache** (`FreshPagesInv`). That a stale page is marked is not inductive: the
mark must have been set over the page, since only then it cannot expire first
(`StalePageIsCovered`, but for `unguarded` pages); what a request is about to store, and the
page whose mark it is about to clear, must be fresh unless the request is `behind`
(`FillsAreFresh`); and nobody is promised a transaction
that has not come (`PromisesHaveCome`), which is what a fetch is compared with.

**The pages** (`WalkInv`). Ranks are cardinalities of finite sets, and `Walk` is a recursive
function: an induction over its pages unfolds it. (`NatSetInduction` comes from the library's
`WFMin` for the naturals, since the provers cannot instantiate an induction theorem that takes
an operator.) The invariant names a set *D* of items that is closed under what precedes; what
of it was there at first has been shown. It says that the offsets are no greater than the numbers of rows
and of deposits in *D*, in this view and in any later one: what comes meanwhile only adds
to those numbers, so that an offset never points behind something that was not shown. Each
page adds one to an offset, until all that was there at first is in *D*; so as many pages
as there are items show all. If rows come last, the offset of the rows is exactly their number
in *D*, and then a page that leaves out a recorded deposit has its row behind *D*; otherwise
the row may be in *D* already, which is the exception `MovesRecorded`.
`PagingIsTheList` adds that the offsets are the numbers of rows and of deposits among the
first *(k-1)n* of the merged list, so that the next *n* of both lists contain the next *n*
of the merged one.

**The balances.** Every number of `PredicateBalances` is shown to be a `Total`: a sum over the
rows of a value that depends on the row only (`AmountIn(kinds, asset)`). Sums, filters and
the loop over the pages are recursive functions; that each exists and is what its recursion
says is `IterationExists`, from which all follow by induction. The change is taken off
down to nothing (`LeftIsTheRest`), which is the difference where the transaction is
`Ordinary`; a message that was spent is received as well, so that it cancels out;
there is one row for each asset that was touched, and an asset that was not touched has no
amount (`NotTouched`). The theorems bound neither the rows nor the amounts nor the pages.
`BalancesAlwaysAddUp` needs nothing of the job: the property is about what the job calls, and
its content is `TransactionsAddUp`.

**The block sync.** `CursorMovesForward` needs that a run that has begun has read a cursor no
smaller than the one it will overwrite (`RunKnowsCursor`); a logout can only delete it.
`CountedOnce` (`CountInv`): a vault whose blocks are not all excused
is counted precisely (`Precise`): a run holds just the transactions from the recorded
block to the one it will record, the recorded block is not above what the indexer has
answered for, and no other block has a count; a sync stores only after it has
recorded, which excuses its vault (`StoreIsExcused`).

**The sessions.** `KnownInv` says that what a request or the row holds is a term the token was
given. `SignedOutIsRefused` (`ClosedInv`): a removed token has no row (`RemovedHasNoRow`),
so that nobody can read it again before or after its copy is deleted, and a closed one no
request that still carries a copy (`Carries`); a sign-in ends both.
`LiveTokenIsNotRefused` (`RenewalInv`): where a copy may end before the row of its token,
there is a request that covers it (`Covers`): it will read the row and store it, or has
read it; a renewal, an update, or the sign-in that wrote the row.

**Only model-checked**: `EveryJobEnds`, `SubmittedRowSettles`, `EventuallyFresh`,
`EventuallyComplete`, `EventuallyRead`, `SessionsEnd` (liveness under fairness is out of
the prover's reach, as is `ENABLED`); and the five violations. Every invariant of a passing run
is a theorem, and so are the action
properties and, for serial requests, the refinement.

## 5. Where code and documents disagree

Each is a run that TLC must find violated; `PROJECT.json` quotes the lines.

* `lost_answer` / `FailedNotOnChain`: `vault.send` goes through, `waitForResult` times
  out, and the retry sends again without asking the chain. The node refuses what it
  knows, and the row ends as FAILED though the transaction is included.
* `setup_throws` / `PendingSenderSettles`: an error of `getChain` on the last
  attempt is outside the `try`; no result is posted, the row stays
  PENDING_SENDER.
* `repeated_answer` / `AnswerIsFinal`: a second request of a member who has
  signed turns the answer into REJECTED and drops the signature.
* `recreated` / `PendingSenderSettles`: `notifyResult` saves FAILED while the
  worker's job is still active. A new transaction with the same hash, created and
  signed in that window, is not enqueued ("already in queue"); the old job is
  then removed and the new row stays PENDING_SENDER.
* `stale_balance` / `HitAfterInvalidationIsFresh`: a request that fetched a balance
  before an invalidation stores it after the entry was deleted, and deletes the flag the
  invalidation has set; readers that begin after both are served
  the old balance until the entry expires, though the invalidation is "to ensure
  fresh data".

What breaks in `concurrent` without being a promise of the code: an answer can be
lost to a later save, a canceled row can be submitted, two rows of one hash can
be live at once (`ImplementsLifecycle` is checked, and proved, for serial requests).

What the other models had to allow for, because the code does it; each is in a model as
the code has it, or kept out of a property by the exception its comment names:

* Transaction cache. A mark that is set between a reader's fetch and its `set` is removed
  unseen (`storage/transaction.ts:225`). A marked page is completed with the newest 10
  transactions, so that of more a hole stays until the entry expires. The mark is removed
  though the write of the page was lost. A node that throws ends the deposits of a listing
  early. A recorded deposit is shown twice if its row is on another page than its cached
  deposit.
* Pages. A deposit that the database records is left out of a page of deposits only if that
  page of rows has its row (`transaction/utils.ts:139`), but counts for the offset of the
  deposits where it is not. If a client walks from the newest transaction and a new row
  comes, all rows move by one place and the row of a recorded deposit may come back into the
  next page: the deposits of that page are then one fewer, and one that was never shown is
  skipped. The smallest history is deposit, deposit, recorded, recorded, row, the last of
  which comes between two pages of one entry.
* Balance queue. The block is recorded before the balances are stored
  (`predicateBalance/queue.ts:64`), although the comment at its head
  (`queue.ts:32-34`) has it the other way round: an error in between loses them. An error
  answer records null, and the vault is read and counted again from the first block. If
  the database has one vault, it is never scheduled.
* User sync. The vaults after a user's first are never read. The cursor counts
  `BLOCK_RANGE_SIZE` per answer, whatever was read; if the height endpoint is down, it runs
  ahead of the chain. The sync moves the block of the balance queue, and a retry stores
  again. `depositExists` takes the empty array for a row, so no deposit is ever created. The
  clean-up of a logout does not stop a running sync, which writes the cursor again. What a
  logout saves goes over what an earlier one has saved, even if that was more: after a
  second login the cursor starts from nothing, and an attempt that failed after it had deleted
  the cursor is repeated. The functions the API is to call, `registerLoggedUser` and `triggerLogoutSync`, have no
  callers in the repository, nor has `getPersistedUserBlock`, which would read what a
  logout has saved.
* Balances. Change of an asset that was not spent counts as nothing; change beyond what was
  spent makes the stored amount no number. `Ordinary` leaves such transactions out.
* Sessions. A signature that was used, and signed out, signs in again
  (`utils/token/utils.ts:183-236`): the digest it is verified against comes from the
  request and is not compared with the recover code. `changeNetwork` saves the expiry it has read over a renewal in between. A sign-in
  deletes the old row, while the old token's copy is accepted until it expires. A request
  that found no copy puts one back without waiting, so one that has read the row before a
  sign-out restores the session. `updateSession` that read a copy that has ended removes a
  row that was renewed meanwhile. The late `SET` of one renewal may put an older term over a
  newer one. The cleaner looks up and deletes separately, and a copy whose row the delete
  alone has met stays.

## 6. Abstractions

* A signature is reduced to whether the vault's predicate accepts it; timestamps,
  names, assets, and the content of the transaction are left out.
* Time is left out: a backoff, a lock or a poll may end at any moment. Bull renews
  the lock of a job while its worker lives, so only a dead worker's job stalls.
* The worker processes one job at a time, as configured. One environment and one
  queue are modelled; the audit documents of the attempts in Mongo are not.
* The reports in flight are a set: two identical ones that have not been
  answered are one.
* The order of the keys in a Redis scan is arbitrary, its page size too
  (`DeletePage`). The warm-up reads through `getBalances` like any reader.
* Notifications, e-mails, socket events, cache invalidations and the transaction
  history are effects that these components do not read back.
* The deposits of a page are numbers in the order of the chain; the node is taken to return the
  newest first. In `TransactionPages` no two transactions have the same time.
* A block holds at most one transaction of a vault. The jobs of a queue for one vault (one
  user) carry the same data and run one after the other, so one record stands for them.
  The asset records of `syncAssets`, the value in dollars and the login times, which only
  give priorities, are left out.
* Amounts are integers of any size: that `toNumber()` throws above 2^53 - 1
  (`makeDeposits.ts:28-42`) and that `syncBalance` formats by the decimals of the asset, and
  stores 0.0 for one that is not verified, are left out.
* Of a session only its expiry is kept. `RenewSave` is `findOne` and `save`: a row that is gone
  by either is not written (it was read without its workspace, which is NOT NULL). The two
  `SET`s of a change of settings are one, and so are the two look-ups of a sign-in.
* The bounds: `MaxAttempts`, `Hashes`, `Rows`, `Handlers`, `Members` of the transactions;
  `Chains`, `Requests`, `MaxVersion`, `MaxFailures` of the balance cache; `FetchLimit`,
  `IncrementalLimit` (57 and 10 in the code), `MaxTransactions`, `MaxInvalidations`,
  `MaxFailures`, `MaxTime`, `MaxPages` of the history; `BlockRange`, `MaxBlocks`, `MaxHeight`,
  `MaxLogins`, `MaxAttempts`, `MaxFailures` of the sync, where `Once` counts no further than
  two; `MaxTerms`, `MaxArrivals`, `MaxFailures` of the sessions.
* Outside `src/`: Bull (job states, lock, stalled check, unique ids), TypeORM's
  `save`, the Fuel node. They are modelled as `src/` uses them and marked
  external in `PROJECT.json`.

## 7. Not modelled

* Of the modelled components: the legacy `sendToChain`, the listings and the permission checks of
  the transactions, which only read; the audit documents of the attempts; the codes a
  sign-in spends and the signature it is recovered from; `clear`, `forceDelete`,
  `getBalancesForceRefresh` and the statistics of the caches, which nothing calls or reads
  back.
* **Recover codes and connector**: a code is one row that each use finds, changes and saves.
  Overlapping uses lose each other's count, so there is no bound to check but the
  sequential one.
* **Ramp and webhooks**, **bridge**: an order or a transaction row is inserted per event of a provider;
  what it may become is decided by the provider's payload. A notification that comes twice
  while the first is handled makes a second row (`webhook/services.ts:76`). A row of the bridge
  starts in AWAIT_REQUIREMENTS and is then a row like any other.
* **Socket server**: relays events between rooms; its state is that of socket.io.
* **Predicates**, **users, workspaces, address book, API tokens, dApps**: records that are written
  by one statement per request and do not depend on each other's order. What a dApp does
  to a session is in `Sessions`, except that its disconnect calls `removeSession` without a
  token when the user has no live one (`dApps/controller.ts:150-152`).
* **Assets value**, **quotes**, **notifications**: periodic overwrites, and output nobody reads back.
* **Redis, Postgres and Mongo clients**: wrappers; their failures are faults of the models.
* **Migrations, contracts, infrastructure**: schema, generated bindings, containers.
* The composition of the caches with the handlers that invalidate them: an invalidation is an action
  that may happen at any time, which allows more than the handlers do.
