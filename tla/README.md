# MatchForge coordination: specification, model checking and proofs

MatchForge collects football data, derives canonical records, forecasts and
public reports from them, and lets an operator start, watch and stop that
work. Most of its code transforms data inside single database transactions. The
part that is hard to get right and hard to test is the *coordination*: work
that is leased to workers that may die, runs of an operator whose commands may
outlive the process that started them, worklists that must not lose an entry,
and PostgreSQL transactions that take many locks. This directory models that part
in TLA+, checks it with TLC on small instances and proves its safety properties with TLAPS for all instances.

Paths below are relative to the root of the repository; migrations are in
`infrastructure/migrations`. Where a migration replaces a function of an earlier
one, the last definition is the one that is modelled.

## 1. Inventory

### Modelled

**Shared work queue** (`202610180700_work_orchestration.sql`, replaced in part by
`202610181300`, `202610181600`, `202610181800`, `202610182000`, `202610190200`;
`football/work/storage.py`, `contracts.py`).
*State*: rows of `work_items` (state, fencing generation, attempt, lease owner,
token and expiry, next eligible time) and of `work_dependencies`, sealed by the
transaction that requests the item.
*Operations*: `enqueue_work`, `claim_work` with the cleanup of exhausted items,
`heartbeat_work`, `lock_work`, `finish_work`, `fail_work`, `cancel_work`,
`release_blocked_work`; in Python `WorkRegistry.progress` and `.publication`, which
check ownership at both ends of a transaction that writes domain rows.
*Hard*: a worker that lost its lease still computes; workers die at every point;
cancellation against an open publication; two transactions that build
dependencies at once; the attempt budget at its limit.
*Correct when*: results appear once, with the success of the item, written by the
holder of the lease; outcomes are final; nothing runs before what it depends on
succeeded; every request is decided in the end.

**Ordered transaction locks** (`202610180800_transaction_lock_order.sql`,
`202610181700_history_work_registration.sql`, `202610190200_work_metrics.sql`,
`football/storage/locks.py`).
*State*: a ledger of the locks of a transaction in the transaction-local setting
`matchforge.lock_order`, and PostgreSQL's advisory locks behind it.
*Operations*: record a request in the ledger, refuse it when it breaks the order
or upgrades a shared lock, acquire it, waiting or not; savepoints and their
rollback; the end of the transaction.
*Hard*: lock orders across many helpers and nested blocks; the ledger must not
diverge from what PostgreSQL holds after rollbacks and failed requests.
*Correct when*: no deadlock, no conflicting holders, the ledger is honest.

**Operator sync runs and their publication fence**
(`go/api/internal/app/admin_sync.go`, `202610181300_worker_fence_lock_order.sql`,
`202610182000_domain_work_adapters.sql`).
*State*: rows of `product_sync_runs`, the work item of each run, the row locks and
the advisory fence of a run, the goroutine that executes it, its command.
*Operations*: request, start, heartbeat, report, fail, stop, expire; `cancel_work`
on the run's work item; `authorize_worker_publication` in the command's sessions;
death of the API process, which its command survives in a process group of its
own.
*Hard*: a stop in the middle of a publication; an orphaned command of an expired
run while the lane is handed on; a heartbeat against expiry; two lock orders.
*Correct when*: nobody publishes for a run that is not running, one run of a lane
publishes at a time, run and work item agree, an abandoned run frees its lane.

**Forecast refresh worklist** (`202610130200_forecast_refresh_worklist.sql`,
`202610181400_scoped_history_locks.sql`, `football/product/forecast_work.py`,
`football/product/sync.py`).
*State*: a row per fixture with the requested and the completed generation, a work
item per generation, forecasts.
*Operations*: triggers on fixtures and on history decisions that list the
fixtures concerned; `refresh_pending_forecasts`: capture the pending generations,
prepare forecasts without locks, lock fixtures, claim and lock what is still
the same generation, publish, complete.
*Hard*: a batch prepares before it takes a lock; rows that are locked are skipped;
generations that are written, rolled back or committed between two statements of a
batch; items that were cancelled.
*Correct when*: no change of a fixture or its history is lost to a live fixture,
completions belong to items that succeeded, a pending fixture is worked off in the
end.

**History work execution** (`202610040400_product_history_sync_queue.sql`, `202610181700`,
`202610181800_history_work_execution.sql`, `202610181900_history_work_heartbeat.sql`,
`football/product/history_work.py`, `history_worker.py`, `sync.py`).
*State*: a queue row per competition season with status, request time and attempts; an
immutable binding of each request to a work item; what a worker remembers of its batch.
*Operations*: the operator run enqueues requests and recovers those that were claimed before
bindings existed; workers list candidates, register a request, claim, renew, complete and fail it;
every change of the item is projected on the row in the same transaction; operators cancel
with or without the row.
*Hard*: registration reads the row and the binding in two statements; a renewal or a completion
locks the item and may then wait for a row that an operator run holds, past its own
lease; a claim is rolled back if the row is busy; a cancellation that misses the row.
*Correct when*: row and item tell one story after every commit, at most one request of a job is open,
a batch takes a job once, every request is decided.

**Provider scope work** (`202610120300_provider_history_scopes.sql`,
`202610182000_domain_work_adapters.sql`, `football/product/provider_history_scopes.py`,
`operational_provider_sync.py`).
*State*: a row per league and season with status, claim token and times; the bound work item;
the claim token in the session of a runner.
*Operations*: enqueue, refresh, claim (the trigger makes or retries the item), publications that
take the row at their first write and check the item at their end, the final outcome, `cancel_work`.
*Hard*: a runner that was paused past its lease; a scope that is claimed while a cancellation is on
its way; a cancelled item that must not be replaced.
*Correct when*: what is published is published under the claim on the row, row and item agree,
cancelled work stays cancelled, a claim ends.

### Not modelled

| Component | State and operations | Why not |
|---|---|---|
| Report refresh worklists (`product/public_reports.py`) | generations with `retry_at` | the protocol of the forecast worklist; its own part, the source fingerprint, is a function of tables outside these components |
| Resolution recovery and stages | claims, publications, a REPEATABLE READ rehearsal | its queue use is what `WorkQueue` models; the domain decisions are rules over one snapshot |
| Provider request budgets (`product/api_football.py`) | daily and minute counters of one client object | right or wrong against the provider's own counter, which is not in the repository |
| `work_retry_seconds` | real-valued exponential with a cap | logarithms of reals; `WorkQueue` takes the delays as arbitrary constants, so its properties hold for all of them |
| Work metrics | counters and samples | no guard reads them |
| Identity admission, corrections; decision chains | rows and append-only chains | rules over data, each in one transaction under the identity lock class |
| Ingestion, normalization, canonical storage | single transactions | no interleaving beyond the locks and the queue |
| Forecasting, evaluation, Rust simulation | floating point | out of TLC's reach |
| Go read API, administration endpoints, web | read-only projections, input checks | state changes go through the queue and the runs above |

Most of the repository's lines are in the last rows and in acquisition scripts; the part that is
modelled is small in lines and is where the interleavings are.

### How the components interact

Everything meets in PostgreSQL. A run is requested by one insert whose trigger
enqueues a work item; status updates of the run drive the item through triggers
(`drive_sync_run_work`); a command gets the id of its run through `PGOPTIONS` and each
of its transactions takes the run's fence before it publishes. Workers claim items
with filters on type and id, write domain rows between two ownership checks and may
request downstream work in the transaction that completes theirs. Triggers list the
fixtures whose forecasts a fact makes outdated in the transaction that stores the
fact; batches of the forecast command work them off through the queue. All of these
take the advisory locks of the ordered ledger.

## 2. Modules

| Module | What it is |
|---|---|
| `WorkQueue` | the shared queue and its workers |
| `WorkQueueProperties` | its invariants, action properties, fairness and liveness |
| `WorkPromise` | the abstract specification: what the queue promises its users |
| `MCWorkQueue` | its instance for TLC |
| `WorkQueueProofs`, `WorkQueueRefinement` | its theorems; that it implements `WorkPromise` |
| `LockPromise`, `RunPromise`, `ForecastPromise`, `HistoryPromise`, `ScopePromise` | what the other components promise |
| `LockOrder`, `LockOrderProperties`, `MCLockOrder`, `LockOrderProofs` | ordered transaction locks |
| `RunFence`, `RunFenceProperties`, `MCRunFence`, `RunFenceProofs` | sync runs and their fence |
| `ForecastRefresh`, `ForecastRefreshProperties`, `MCForecastRefresh`, `ForecastRefreshProofs` | the forecast worklist, its triggers and batches |
| `HistoryWork`, `HistoryWorkProperties`, `MCHistoryWork`, `HistoryWorkProofs` | history requests and their workers |
| `ProviderScopes`, `ProviderScopesProperties`, `MCProviderScopes`, `ProviderScopesProofs` | scopes, their runners and their cancellation |

Every component is shown to implement its promise, an abstract specification without the machinery that keeps
it. The `...Properties` module of a component has the refinement mapping (`Promise == INSTANCE ... WITH`) and a
property `Keeps...Promise`.

| Promise | What it says | What the mapping forgets |
|---|---|---|
| `WorkPromise` | a request is accepted once, decided once, and its effects appear with its success, after what it depends on | leases, attempts, workers, transactions |
| `LockPromise` | a transaction gets its locks in the order of their ranks, never in conflict, and gives them back from the last one on | the ledger, the queue of waiters, savepoints |
| `RunPromise` | a lane has one run at a time, a run starts once and ends once, is published for only while it runs and ends only when nobody publishes | heartbeats, row locks, the fence, processes |
| `ForecastPromise` | a fixture is stale from the commit of what its forecast is made of until a forecast of what is then known is published | generations, work items, transactions, what batches prepared |
| `HistoryPromise` | a job has one request at a time, which is decided once; its row shows the decision, and the job is asked for anew only then | workers, leases, bindings, the draft of an operator run |
| `ScopePromise` | claims of a scope are numbered upwards, none is taken over while it is live, all that is committed is committed under the live claim, unless that was cancelled, and cancelled work is claimed again only in a reopened scope | runners, items, what a claim or a canceller has read |

A definition whose name ends a comment "Mutant of X" is X with a plausible mistake; it is
used by nothing here except to show that a property notices the mistake. `PROJECT.json`
pairs each property with one, and maps every other definition to its lines.

### WorkQueue and the code

`item[w]` is the row of `w`, `deps[w]` its sealed dependencies. `locked[w]` is the worker
whose open transaction locked the row, `draft[p]` the downstream item that `p` inserted
and has not committed. `claim[p]` is the `WorkClaim` that `p` remembers, `step[p]` how far it
has come. `writer` and `published` are ghosts: the attempt that last committed domain rows,
and the attempts whose publication committed.

A transaction that locks one row, checks and commits is one action: `Enqueue`, `Claim`,
`ReapOnly` (a claim that finds nothing but cleans up), `Heartbeat`, `Fail`, `Cancel`,
`ReleaseBlocked`. The transactions that stay open are split: `Begin` (first ownership check),
`EnqueueDownstream`, `EndProgress` or `FinishWork` (second check), `CommitPublication`;
`Abort` and `Crash` may end them at each point, `LoseLease` when a check fails.

Deadlines are stored as the time left, and `Tick` brings them nearer, so the clock needs
no bound; a lease that ran out `Horizon` ticks ago gets no older, which no guard can tell
because every expiry delay is at most `Horizon` (`DelayTypes`).

Simplifications: `progress` commits right after its second check; a publication requests
at most one downstream item; a heartbeat needs the row free and so does not renew
a lease whose own transaction has the row locked; the token of a lease is the number of its
attempt, where the code draws a uuid; hashes, texts, parent lineage and metrics are left out.

### LockOrder and the code

`ledger[s]` and `last[s]` are the transaction-local setting of session `s`; `held[s]`,
`pending[s]` and `ahead[s]` are PostgreSQL's side: what was granted, what is waited for, and who
waits for the same lock longer. `Acquire` and `TryAcquire` are `acquire_transaction_lock` with
and without waiting, in shared and exclusive mode; both call `record_transaction_lock`
(`Allowed`, `Record`). Before either, a worker's session takes the fence of its run
(`authorize_worker_publication`, `202610182000:171-187`): `Authorize` lists it in the ledger and asks
PostgreSQL for it, and `Acquire` and `TryAcquire` come only after it (`Authorized`). `Fence[s]` is the fence of
the run whose command session `s` works for. `Declare` is a call of `record_transaction_lock` without an advisory
lock: the claim token of a scope, a work item, a detail row. `SetSavepoint`, `ReleaseSavepoint` and `RollbackToSavepoint` are nested
blocks: a rollback restores the setting and releases the locks taken since. `Wake` and
`Grantable` describe PostgreSQL's lock queue and are marked external: a request waits for
conflicting holders and for conflicting requests that came earlier, unless its session
already holds the lock.

The ledger does not say of every lock how it is held. The fence of the own run is recorded with the three-argument
form, so it is listed as exclusive while it is held shared (`202610182000:178-179`), and two sessions of one run list it
as exclusive at once; the keys of rows (`RowKey`) are listed for their place in the order and have no advisory lock, what protects them
is a row lock. `HeldAs` says how each entry is held, and `LedgerHonest` that it is held so. Controls of
a run take its fence exclusively, and are refused in a session with a run id (`Requested`).

Simplifications: `Authorize` is an action of its own, before the request, because it may wait; a later call finds the
fence listed and held and changes nothing. A call that finds the run over raises, which ends the nested block
or the transaction (`RollbackToSavepoint`, `End`); whether the run is over is `RunFence`'s part. Row locks are left out, in the components
that use them they are modelled. Class and key are one `Rank`; hashes of different keys are different;
one savepoint at a time; a key is always used with the same class.

### RunFence and the code

`status[r]` is the run's row, `work[r]` the state of its item, `left[r]` what is left of
heartbeat and lease, which are renewed together. `row[r]` is the control transaction that has
the row locked, `fence[s]` the run whose fence session `s` holds shared, `cancelling[r]` how far
`cancel_work` is. `host`, `stopped` and `alive` are the goroutine, its context and the command.

A status change is two steps, because PostgreSQL locks the tuple before it fires the trigger
that takes the fence: the `Lock...` actions are the matching rows of the updates in
`admin_sync.go`, `ChangeStatus` is the trigger chain with the fence and the commit. `cancel_work`
takes the same locks in the opposite order (`CancelFenced`, `CancelCommitted`). Both may be
given up between the steps. `Authorize` is the first statement of a publishing
transaction; what it takes stays until `EndPublication`.

Simplifications: a run id is requested once (a retry is another run); the API process
is one goroutine per run, which may die alone; changing the `worker_id` of a run and deleting runs,
which migrations and retention do, are left out.

### ForecastRefresh and the code

`generation[f]` and `completed[f]` are the worklist row of `f`, `item[f][g]` the work item of its
generation `g`, `issued[f]` its forecasts and `latest[f]` the one that was created last, which
readers are served. `team[f]` stands for the inputs of the fixture row that
select history, `history[t]` counts the decisions about a team: a forecast is the pair of both
that it was made of. A writer is a transaction that changes a fixture (`ChangeFixture`, under the
exclusive identity lock) or decides on history (`Decide`, shared): its trigger
finds the fixtures to list when the statement starts, writes their rows one by one in the order of
their ids (`Write`, which waits for a locked row) and everything becomes visible with
`CommitWriter`. A batch goes through `Capture`, `ReadFixtures`, `ReadHistory`, `LockFixtures`,
`Claim`, one `LockDetail` per claim, `CommitBatch`; `RollBackBatch` ends it anywhere. Between
these, each statement sees what has been committed (READ COMMITTED). `ReadHistory` may see any of what was
committed after the cutoff was taken, because a decision may have been timed
before the cutoff and committed after it.

Simplifications: an item is claimed, finished or failed inside one uncommitted transaction, so
nobody sees it RUNNING; `SUPERSEDED` is the state CANCELLED with the error
`SUPERSEDED_GENERATION`, kept apart from an operator's cancellation; rows of competitions and
the limit of 32 only make a batch take fewer fixtures, which `LockFixtures` may always do;
`refresh_forecasts`, which publishes without the worklist, and fixtures with a blocked identity are
left out.

### HistoryWork and the code

`queue[j]` is the committed row of job `j`, `draft[j]` what an open operator transaction has made of
it; `work[j][q]` is the item bound to request `q` of `j` (request numbers stand for `queued_at`),
`worker[p]` what session `p` is doing and remembers, `taken[p]` the jobs its batch has
claimed. `EnqueueRow` and `RecoverRow` are `_enqueue_history_jobs` and
`_recover_abandoned_history_jobs`; `OperatorCommits` and `OperatorRollsBack` end their transaction.
`BeginBatch`, `ReadCandidates`, `Choose` and `NoneLeft` are `_claim_history_job`; `ReadBinding`,
`Register`, `RegisteredMeanwhile` and `SkipRegistration` are `register_history_request` after its
first read; `Claim`, `Reap`, `ShowTerminal` and `ClaimNothing` are the outcomes of `claim_history_work`. `BeginRenewal` and `BeginEnd` lock and change the item, `CommitRenewal`
and `CommitEnd` go on with the row (`Claim` and `CommitRenewal` keep the branch that raises, which
`NeverContradicted` says is never taken); `LoseLease` is a check that fails. `Cancel` is the
administration endpoint, which calls `cancel_work` alone, `CancelShown` is `cancel_history_work`.

`Projected` is `project_history_work`. `updated_at` is kept as the set of workers whose batch began
before the last update, which is all that is asked of it, and as a flag for the
registrations that read the row before.

Simplifications: a lease is live or over and a retry due or not (`Lapse`, `FallDue`); of the three differences for which
`claim_history_work` raises, `Contradicts` leaves out those that cannot occur: another competition or season than the
request's (`202610181800:150-151`; both are fixed for a job and its requests), and a retry time of the row that is not the item's (153;
a projection writes both in one transaction); `BLOCKED`
work, which no history worker reports, and the fence of the operator run are left out.

### ProviderScopes and the code

`row[s]` is the row of scope `s` with the token of its claim, `bound[s]` and `item[s]` its work
items, `runner[r]` a process in `run_scopes` with the token in its session, `operator[o]` a
`cancel_work` that has read a token and not yet locked anything. `published[s]` is a ghost: for each kind of
commit under a claim, the claim, the one on the row at that time and the state of the item.
`LookForScope` is the snapshot of `claim_scope`'s statement, which finds a candidate and sees its item; `ClaimScope` its row
lock, the test of the row as it is then against the item as it was seen (READ COMMITTED evaluates the condition again for the row it
locked, and for nothing else), and the trigger, which reads the item anew (`CalledOff`) and calls `claim_work`
(`Takeable`); `ClaimNothing` any of these that fails. `BeginPublication` is the first
write of a transaction, which locks the row (`authorize_worker_publication`), `EndPublication`
its last statement (`check_provider_scope_work`); `Settle`, `SettleCancelled` and `LoseScope` are what
the final update of `run_scopes` may meet. `ReadToken` and `CancelScope` are the two parts of
`cancel_work`.

Simplifications: `claimed_at` and `lease_until` are written together, half an hour apart, and are one flag; a
heartbeat renews what is in date and leaves the flag alone; the attempt budget of an item (2^31 - 1) is
never used up; which scope is taken first is left open. From the row lock of a claim to its trigger is one step: an item
that changes between them, which only a cancellation that has read another token can do, is one that changed before the lock.

## 3. Runs

| Run | Instance | States | Question |
|---|---|---|---|
| `work_queue` | 2 items (budgets 2 and 1, priorities 1 and 0), 2 workers, leases of 1 and 2 ticks, deadlines now or in 1 tick, with fairness | 54 952 | Is an item published once, by its holder and after its dependencies, do rows only advance, are budget and promise kept, is every request decided? |
| `lock_order` | 2 sessions of one run's command and 1 without a run; its fence, a claim token, a lock; with fairness | 69 791 | Honest ledger, no deadlock, is the promise of exclusive, ordered locks kept; is every waiting request served or given up? |
| `run_fence` | 2 runs of a lane, 2 sessions, heartbeats of 2 ticks | 224 293 | Who may publish, do run and item agree, does a run end once and with nobody publishing? |
| `run_abandoned` | 1 run, 2 sessions, with fairness | 1 396 | Does a run whose process died free its lane? |
| `run_row_cycle` | as `run_fence` | - | A violation: two control transactions can wait for each other |
| `forecast_refresh` | 1 fixture, 1 team, 2 writers, 1 batch, with fairness | 21 298 | Is the forecast of a live fixture that is not pending made of its present inputs, do completions, items and generations agree, is no change lost, is a pending fixture worked off? |
| `forecast_items` | 2 fixtures, 1 team, 1 writer, 1 batch | - | A violation: the item of a busy generation that is superseded waits for ever |
| `forecast_reverted` | 1 fixture, 2 teams, 1 writer, 1 batch, 3 generations | - | A violation: inputs that change back leave an older revision as the latest |
| `history_work` | 1 job, 2 workers, 2 requests of 2 attempts, with fairness | 221 188 | Do row and item agree after every commit, is a request decided once and shown, does a batch take a job once, is every request decided? |
| `history_race` | as `history_work` | - | A violation: a registration raises instead of skipping a request another worker claimed |
| `provider_scopes` | 1 scope, 2 items of 2 attempts, 2 runners, 1 administrator, with fairness | 81 805 | Do row and item agree, is everything published under the live claim on the row, is cancelled work claimed again only in a reopened scope, does a claim end? |
| `scopes_cancel` | as `provider_scopes` | - | A violation: a cancelled item beside a row that says it runs |

Why the bounds are enough to be interesting. Two attempts are the least with a retry, a
takeover after expiry and a final attempt; the other item has a budget of one, so that
exhaustion on the first attempt is there too. Two workers are the stale and the current holder.
Leases of two lengths make a heartbeat matter, delays of 0 and 1 make an item both eligible
at once and later. A publication of one item requests the other; chains of three items and publications
that request work side by side are covered by the theorems. The fence, a lock and three sessions have a deadlock to
avoid (a control of the run that holds the lock and asks for the fence), a waiter behind a waiter, and two sessions that share a fence both list as exclusive; cycles of three locks are covered by `LocksDeadlockFree`. A window of two
ticks separates a fresh heartbeat, an old one, the instant at which only the lease is over,
and expiry. The second run of a lane is requested when the first is over, while a session of the
first may still be publishing.

Two generations are a change that meets another one in work, and one decision per
team is a batch that read too little. Two writers are one that commits while the other writes. The runs of the
worklist have one fixture, since fixtures only meet in the order of their rows, and `forecast_refresh` one team:
with two it exceeds the time a run has. Changes of teams and several batches at once are covered by
the theorems (`ForecastsFresh`, `CompletionsAgree`), which hold for any number. Three generations are the least in which inputs
change back.

Two requests of a job are an old item that must not touch the row of a new one; two workers are the
race of registrations and a stale holder against its successor; an initial row with one attempt is one from
before the bindings. In the scopes, two items are a replacement, two attempts a takeover, two runners a
paused one and its successor, or two claims with the same look at the item, and the administrator a cancellation with an old token; several
cancellations at once are covered by the theorems.

`CHECK_DEADLOCK FALSE` is set for the queue only: it rests when every item is decided and no
worker has a claim. All others are checked for deadlock.

Symmetry is used for the sessions and runs of `run_fence` only, a run of safety properties.

### Properties worth pointing out

* `OnlyHolderWrites`, `PublishedOnce`: domain rows are committed for the attempt that holds
  the lease row. A stale worker, a cancelled item, a lost lease write nothing.
* `KeepsPromise`: the queue implements `WorkPromise`, in which there are no leases or
  workers: a request is accepted, decided once, and its effects and its downstream request become
  visible in the step that decides it.
* `RowsAdvance`: the trigger `guard_work_transition` is there to catch a wrong update, and no interleaving makes one;
  the fencing epoch moves with every lease that is lost.
* `KeepsLockPromise`: a request is compared with the setting, which nested blocks restore, and is granted later, when
  PostgreSQL wakes it; still every grant ranks above what is held then, and no lock changes its mode.
* `KeepsRunPromise`: whatever fails, expires or cancels a run finds no publication open for it in the step that ends it.
* `KeepsForecastPromise`: a batch prepares before it locks, yet what it publishes is made of the facts at its commit, and
  only then does a fixture stop being stale.
* `KeepsHistoryPromise`: registration, renewal, ending, recovery and a bare cancellation come together as one decision
  per request; the draft of an operator run, read before, never undoes one.
* `KeepsScopePromise`: although `check_provider_scope_work` passes when the token is gone from the row, the
  row lock of the first write keeps every stale runner from committing; a cancelled claim commits nothing more. A claim that
  acts on an old look at the item, on a row another runner or an administrator has changed since, neither takes over a
  live claim nor brings cancelled work back: the trigger looks at row and item again.
* `NoDependencyCycle`: over all sets of items, whatever transactions interleave.
* `NoLockDeadlock`: over all sets of sessions.
* `WriterActive`, `OneWriterPerLane`: with orphaned commands.
* `Fresh`: relates what is committed about a fixture, what was decided on its history and
  what was published, over steps of three transactions; it needs the identity lock, the row lock of the
  worklist and the comparison of generations at once.
* `RowShowsItem`, `NeverContradicted`: two tables, changed by four kinds of transactions that lock them in one order
  and may wait in between, agree after every commit; the one gap, an item cancelled alone, is named and is closed
  by the next claim (`EventuallyAnswered`).
* `LedgerHonest`: over nested blocks, busy requests and waits, with the entries that are held in another mode than they are listed in.
* `ExpiryStands`: a run that is being failed as expired has not been renewed meanwhile.

### Fairness

* `work_queue` (`Fairness`): database time passes; an idle worker polls `claim_work`; a failed
  lease check is noticed; a worker that holds a live lease over and over settles it in the end
  (strong fairness). No fairness for heartbeats, begins, crashes or operators. An item that is `BLOCKED`
  waits for an operator, which the property allows.
* `lock_order` (`LockFairSpec`): a transaction that runs again and again ends (statements and
  transactions have timeouts), and PostgreSQL wakes a waiter whose turn has come.
* `run_abandoned` (`RunFairness`): time passes, publications end, requests for the lane keep coming
  (an expired run is cleaned up by the next request only, `admin_sync.go:285`), a transaction
  does not fail for ever, and PostgreSQL ends a deadlock by giving up one side.
* `forecast_refresh` (`RefreshFairSpec`): transactions and batches end, and some runner
  starts batches over and over, for which no single obstacle (a failure, a busy row) comes every time (strong
  fairness of each step). `EventuallyRefreshed` speaks of behaviours in which writers rest: while changes
  keep coming, a batch may find a newer generation each time, in the code as in the model.
* `history_work` (`HistoryFairSpec`): batches keep being started (each operator run does), a worker that can act
  does, a job renews its lease finitely often before its outcome, operator transactions do not roll back for ever,
  a retry falls due and a lease nobody holds runs out. `EventuallyAnswered` speaks of behaviours in which two disturbances
  that use up no attempt stop at some time: workers that die before they hold a request, and operator runs that touch
  an open row, which keeps it out of the batches that have begun.
* `provider_scopes` (`ScopesFairSpec`): a runner that can act does and ends its scope, runs come to a scope
  that stays a candidate, a claim nobody works on runs out. `EventuallyReleased` excepts a row whose item was
  cancelled, which `scopes_cancel` shows to be stuck.

### The findings

`run_row_cycle` checks `NoRunRowCycle`, which `docs/architecture.md:493-495` states of control
transactions. It is violated in four steps: a run is requested, its start locks the row,
`cancel_work` is called on its work item and gets the fence. `cancel_work`
(`202610182000_domain_work_adapters.sql:243-245`) takes the fence before the row, every other
status change the row before the fence. PostgreSQL detects the cycle and aborts one side, so
safety is kept: `WriterActive` and the rest hold with both orders in the model.

`forecast_items` checks `SupersededCancelled`: "A superseded generation is cancelled"
(`docs/architecture.md:350`). `claim_forecast_generations` cancels only an item whose
generation it sees replaced between two of its statements. If the row is busy, the item goes back
to `RETRY_WAIT`; when the writer that made it busy commits, later batches ask for the newer
generation only, and nobody asks for or cancels the old item. Forecasts are not affected (`Fresh`).

`forecast_reverted` checks `LatestIsCurrent`: the forecast builder "publishes immutable revisions only
when its predictive inputs change" (`docs/architecture.md:853`). A revision is keyed by the hash of its
inputs and inserted with `ON CONFLICT DO NOTHING` (`sync.py:2112`): a kickoff that is postponed and restored,
or teams that are corrected back, publish nothing, and readers, who take the greatest `created_at`, are
served the revision of the inputs in between. `Fresh` holds: the right revision exists.

`history_race` checks `RegistrationSkips`: "the waiter skips it without interfering with its ownership"
(`docs/architecture.md:306-308`). A registrar that read the row before another one bound and claimed the
request, and looks for the binding after it, raises `WorkConflict` (`history_work.py:73`). The claim is made
outside the `try` of the batch (`sync.py:745`), so the worker ends. No data is wrong; the batch is cut short.

`scopes_cancel` checks `CancellationProjected`: "Shared cancellation projects a failed scope"
(`docs/architecture.md:334`). `cancel_work` reads the claim token without a lock
(`202610182000_domain_work_adapters.sql:250-252`) and updates the row only where it still has it. A scope that
waits for its retry may be claimed in between: the item is cancelled under the new claim, the row stays RUNNING, and
if its runner does not end with FAILED nothing releases it, since a claim takes over only items that run and a
refresh skips rows that run. Related, and in the model without a property of its own: an item that is
cancelled after a refresh has set its row to PENDING is replaced by the next claim, which takes the
refresh for a newer request than the cancellation.

## 4. Theorems

All are proved for every value of the constants under the named `ASSUME`s of the module, which
only type the constants and keep the null values apart (`WorkersNamed`, `NullsNamed`,
`ScopeType`, `PriorityType`, `BudgetType`, `DelayTypes`; `RankType`, `RankTotal`, `FenceType`, `LockNulls`,
`SessionsFinite`; `RunNull`, `WindowType`; `FixtureType`, `TeamNull`, `GenerationBound`,
`HistoryBound`, `ChangeNull`; `NullsNamed`, `BoundTypes`, `NullRow`; `CurrentScopes`, `ScopeBounds`).

**WorkQueueProofs.** The properties are not inductive: that a publication is final needs that
the worker in it still owns the row it locked. `IInv` therefore adds `RowShape` (what a row of each state
looks like), `ClaimKnown` (a claim is an attempt the row has made), `LockHeld` and `LockOwner` (a row is
locked exactly by a worker inside a transaction on its claim, who still owns it), `DraftShape` (an
uncommitted item is absent, names present items and is nobody else's) and `DepsPresent`. `Invariance`
proves `Spec => []IInv`, conjunct by conjunct, from lemmas that say what any step does to a row
(`RowStep`), to a session (`SessionStep`) and to the dependencies (`DepsStep`). From it follow
`TypeCorrect`, `PublishesOnce`, `BudgetKept`, `DependenciesRespected`, `DependenciesAcyclic` and the
action properties `HolderWrites`, `RowsOnlyAdvance`, `OutcomesFinal`, `DependenciesStaySealed`. `RowsOnlyAdvance` goes through
the ways of `RowStep` one by one and shows that `guard_work_transition` lets each pass. Acyclicity is proved over sets:
an item added in a step names items that are present, and no present item names it.

**WorkQueueRefinement.** `QueueKeepsPromise`: `Spec => Promise!Spec`, each action mapped to a step of
the promise or a stutter.

**LockOrderProofs.** `LInv` adds that compatible modes are all that is held (`HeldCompatible`), that the
last lock of a ledger ranks highest (`LedgerRanked`) and is the one waited for (`WaiterLast`), that a
savepoint restores an honest ledger of locks that are still held (`SavedHeld`), that no ledger lists a fence as shared
(`FencesExclusive`: who lists the fence of a run without working for it holds it exclusively), and that the queues are
acyclic (`QueueShape`, `QueueFirst`). `LocksDeadlockFree`: in a set of waiting sessions consider those that
wait for the lock of highest rank, and of them one that nobody of them queues before; whoever blocked
it would hold that lock while it waits for a lock of higher rank, which the choice excludes.
`LedgerIsHonest`: an entry is held as `HeldAs` says, for any mix of requests, waits and rollbacks. `LocksExclude`, about what two
transactions list and not about what PostgreSQL holds, follows from it and `HeldCompatible`: entries that conflict are the fence of the run both work for. `LocksKeepPromise` maps a lock to the
mode in which it was granted: a grant, at once or on waking, is the promise's `Grant`, a rollback its `Release`. For the
rollback the invariant `Prefixed` is needed (the place a savepoint remembers is that of a lock it lists, and it lists all that is
listed up to there): only then does a rollback take away exactly the locks above one rank.

**RunFenceProofs.** `FInv` relates fence, row locks and status: an open publication excludes a held
fence and belongs to a running run whose item runs, a start locks a queued run, an expiry an
expired one, and active runs of a lane are one. It yields `RunTypes`, `WritersAreActive`,
`LanesHaveOneWriter`, `WorkAgreesWithRun`, `ExpiryIsFinal`. `RunsKeepPromise` maps a run to its status
and its open publications; a change of status maps to a step of the promise because what locked the row pins down the
status it had, and to one without writers because it holds the fence alone.

**ForecastRefreshProofs.** `Fresh` is not inductive: that a batch may complete a generation needs
that what it prepared is still true. `RInv` adds `Prepared`: if the generation a batch captured is the
committed one, what it read is current. That survives commits of writers because of `Listed` (a
writer lists every live fixture that it makes outdated, which rests on `Identity`, the
shared and exclusive identity lock) and commits of batches because of `Locks` (a row that is selected is
not being written). `Asked`, `Batches` and `Claims` bound the generations. `RInvariant` proves
`Spec => []RInv`, a lemma per action; `RefreshTypes`, `ForecastsFresh`, `CompletionsAgree`,
`NoneSupersededEarly` and the action property `OutcomesStand` follow. `ForecastsKeepPromise` maps a pending generation
to a stale fixture: `Listed` gives that the commit of a writer makes every fixture stale whose facts it changes,
`Prepared` that the commit of a batch is a `Refresh`, with a forecast of the facts at that moment.

**HistoryWorkProofs.** `HInv` relates the tables (`RowShowsItem`, `OneOpenRequest`, `AbsentAhead`: requests not
asked for have no item; `DraftShape`: an open operator transaction holds the row as it was, touched, recovered or asked for
anew; `ItemShape`) and the sessions (`SessionShape`, `LockHeld`: a session in the middle of a renewal or an
ending still owns the item, whose row lock it has; `BatchMarks`: a job a batch has taken is marked newer than the batch).
Why a draft is needed: the row an operator run commits was read earlier, and `RowShowsItem` must survive
what happened to the item since, which it does because no projection passes a locked row. `HInvariance` proves
`Spec => []HInv`, a lemma per action; `HistoryTypes`, `RowsShowItems`, `RequestsOneAtATime`,
`NoneContradicted` and the action property `BatchesClaimOnce` follow. `HistoryKeepsPromise` shows each operation to be one
decision, one request or a stutter. Most that commit are written with one lemma, `EndingIs`: whoever gives an
item up leaves one that ended, waits, or had ended before, and projects it. For an operator run `DraftShape` says that
what it commits is open, and has the number of a request only if the row shows that request open: so the commit either asks
for an ended job anew or changes nothing that is shown.

**ProviderScopesProofs.** `SInv` says of each scope what its row and items allow (`RowFollowsItem`, `OneOpenItem`,
what has been published), of each runner that its token is, while it has a publication open, the token of a RUNNING
row, whose lock it has, and of each operator that the item it is about to cancel exists. An open publication is why
`PublishedUnderClaim` holds: `EndPublication` finds the row it locked, so its check cannot pass for want of a row.
`ScopesInvariance`, `ScopesTypes`, `RowsFollowItems`, `ItemsOpenOneAtATime` and `ClaimantsPublish`
follow. `ScopesKeepPromise` maps a scope to the token of its row (item and attempt), whether its claim is live, lapsed or over,
whether the item was cancelled, whether the row is PENDING, and the claims that committed. A claim never takes over a live one, however old its look: the
row runs beside a running item, which `claim_work` refuses while its lease is in date, or beside a cancelled one, which the trigger refuses. That claims are numbered upwards rests on `SInv`,
by which the token is the bound item with its attempts, that nothing is committed under another claim on the lock of an open publication.

Some theorems state properties that no run lists, because listed ones catch the same mistakes: `OutcomesFinal` and
`DependenciesStaySealed` (`KeepsPromise`, `RowsAdvance`, `OnlyHolderWrites`), `LocksExclude` (`KeepsLockPromise`),
`RequestsOneAtATime` (`KeepsHistoryPromise`, `RowShowsItem`), `ClaimantsPublish` (`KeepsScopePromise`).

Only model-checked: the liveness properties `EventuallyDecided`, `EventuallyServed`,
`AbandonedRunEnds`, `EventuallyRefreshed`, `EventuallyAnswered`, `EventuallyReleased` (fairness is out of the
prover's reach), and the violations.

## 5. What is left

* *Report refresh*: the worklist of reports repeats generations and completion of the forecast worklist; a module
  of its own would implement `ForecastPromise` too, and would have to give the source fingerprint a meaning.
* *The limit of 32* of `refresh_pending_forecasts` (`sync.py:1909`): pending rows whose items were cancelled keep their
  places. It needs more fixtures than a batch holds, which two fixtures with liveness already exceed.
* *`refresh_forecasts`* beside a batch (`sync.py:1843`): needs the order of cutoffs beside the order of commits.
* *RunFence*: a replaced `worker_id`, deletion of runs.
* *Resolution recovery*, *decision chains*, *identity admission*: rules over rows rather than protocols.
