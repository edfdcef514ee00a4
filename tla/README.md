# A formal model of the zveltio engine

TLA+ modules that model the concurrent core of the zveltio engine
(`packages/engine/src`) and of its sync client (`packages/sdk/src`), TLC
configurations that check them on small instances, and TLAPS proofs of the main
safety properties for instances of any size. Source paths below are relative to
`packages/engine/src` unless they start with another top-level directory.
`PROJECT.json` maps every definition to the lines it models.

## 1. The system

The engine is a Bun/TypeScript HTTP server over Postgres, optionally with Valkey
(Redis). It serves collections over REST, isolates tenants by row-level security
in a per-request transaction, runs automations (webhooks, flows, jobs), loads
extensions, some of them in workers, changes the schema of tables in use, and
feeds offline clients. Several engine processes ("replicas") may share one
database; without Valkey only one may serve at a time.

### Inventory

| Component | State it keeps | Operations | Interacts through |
|---|---|---|---|
| Single-instance mode (`lib/runtime/single-instance.ts`) | a row per process in `zv_instances`; `retired`, the interval and the grace timer of a process | beat (one upsert/delete/select statement), tick with a catch, retire, refuse requests | the table; the clock |
| Advisory locks (`db/advisory-lock.ts`) | `holding`/`waiting` per process; the lock table of Postgres; a holder transaction with a heartbeat | `withAdvisoryLock`, `tryAdvisoryLock`, `withXactAdvisoryLock`, `withSessionAdvisoryLock` | the connection pool (`db/bun-sql-dialect.ts`), other replicas |
| Transaction sequencer (`db/trx-sequencer.ts`) with savepoint blocks (`lib/savepoint.ts`) and role windows (`lib/role-window.ts`) | a promise chain per open level, `closed` flags, the savepoint stack and the role on the connection | `run`, `exclusive`, SAVEPOINT/RELEASE/ROLLBACK TO, SET ROLE and back | all code of one request sharing a connection |
| Request transaction (`middleware/tenant.ts`, `lib/tenancy/tenant-manager.ts`, `lib/tenancy/tenant-context.ts`) | the pinned connection, the async-local store, the after-commit queue, the joined work, the response | acquire, publish, handle, settle, COMMIT/ROLLBACK, drain, record | the pool; jobs of `lib/data/write-pipeline.ts`; extension calls |
| Webhook delivery (`lib/webhooks.ts`, `lib/webhook-worker.ts`, `routes/webhooks.ts`) | the cache's queue, retry set and dead-letter list; `zvd_webhook_deliveries` | trigger, worker pass (pop, deliver, file, move due), direct delivery, replay | Valkey commands of every replica; endpoints |
| Ghost DDL (`lib/data/ghost-ddl.ts`) and its queue (`ddl-queue.ts`) | ghost table, changelog with its trigger, old copy, cleanup timers; job rows | create, copy in batches, replay, lock and swap, undo, cleanup, boot sweep | the table's writers, the advisory lock, names in the catalog |
| Flow scheduler (`lib/flows/flow-scheduler.ts`, `flow-executor.ts`) | `next_run_at`, `is_active`, run rows, the claim transaction, `_writeTurn` | poll, claim, execute, advance, commit, run AI tasks, close abandoned rows | row locks of Postgres, other replicas |
| Query cache (`lib/data/query-cache.ts`, `time-travel-count.ts`) | cached pages and the key indexes of a collection and of a user, each with a life | get, set (SETEX, SADD, EXPIRE), invalidate (SMEMBERS, DEL) | Valkey; writes, role changes, `lib/tenancy/rls.ts` |
| Worker extensions (`lib/worker-extension-host.ts`) | `RequestTxn`: connection, role, window, savepoints, scopes, timer | open or join a transaction, statement, scope, service call, end | the bridge to the worker, sequencer, request transaction |
| Offline sync (`routes/sync.ts`, `packages/sdk/src/sync-manager.ts`) | tombstones, sealed cursors; the client's copies, cursor and outbox | pull, purge, push, apply | HTTP; clock and open transactions of Postgres |
| Connection pool (`db/index.ts`, `db/bun-sql-dialect.ts`) | the reserved connections, at least 2 in all | reserve with a deadline, BEGIN, COMMIT, ROLLBACK, release | every component that talks to Postgres |
| Write pipeline (`lib/data/write-pipeline.ts`) | none of its own | revision, webhooks, broadcast, cache invalidation, flows after a write | after-commit queue |
| Extension jobs (`lib/extensions/job-runner.ts`) | job rows, pg-boss queues | enqueue, claim, retry, cancel | request transaction |
| Extension lifecycle (`lib/extensions/`) | registry rows, loaded modules, migrations | install, enable, load, disable | advisory lock, schema artifact |
| Realtime (`lib/runtime/realtime-bus.ts`, `routes/realtime.ts`, `routes/ws.ts`) | subscriptions, last event ids | publish, fan out, replay | Valkey pub/sub |
| Rate limits, cron, backups, permissions, step-up, schema artifact, edge functions | counters, schedules, policies, grants, plans | see `PROJECT.json` | cache, advisory locks |

`PROJECT.json` lists every part, the ones that are left out too, with the reason.

### What is hard here

- *Interleavings inside one process.* A handler's branches share one
  transaction and one async context; a branch nobody awaits goes on after the
  handler answered, while the transaction ends and after it.
- *Interleavings between replicas.* Beats, locks, claims, sweeps, invalidations
  and dead-letter replays of several processes meet in Postgres or Valkey.
- *Resource bounds.* Every request, claim and lock holder pins a pooled
  connection; work that needs a second one can starve a full pool.
- *Failures half way.* Answers are lost, backends and processes die, one of
  several commands fails, COMMIT is refused after the response was built, a
  client stops in the middle of a page.
- *Ordering.* Writes that commit late carry early dates, changelog ids are
  taken before their commit, outcomes nobody awaits are written in any order.
- *Belief and fact.* The host remembers a role, a savepoint depth or a
  transaction state that a failure has changed on the server.

The hazards, each with its line and the property that covers it, are in
`PROJECT.json`. What makes each modelled part correct is stated by the
properties in section 3.

## 2. Modules and their correspondence to the code

Each component has a module with its state, one action per operation, its
specification and its properties; an `MC…` module with the constants of the TLC
instances; and a `…Proofs` module (`ReplicaProofs` for `AdvisoryLock` and
`SingleInstance`, `TransactionProofs` for `RequestTransaction` and `TrxSequencer`,
whose definitions therefore carry names of their own: `TurnsInit`, `TurnsSpec`,
`TurnsTypeOK`). Definitions commented "Mutant" are plausible bugs of the definition
below them; no specification uses them. They show that the property named with them
in `PROJECT.json` can fail.

A property that cannot hold in all circumstances names its exceptions by a
history variable (`spoiled`, `excuse`, `backdated`, `strayed`, …) that is set in
exactly the step that makes the exception, so it still speaks of every
other state. Section 3 says what the exceptions are in the program.

### SingleInstance

`started` and `age` are the rows of `zv_instances` (`started_at, instance_id` as
one place in an order, `last_seen_at` as an age), `phase`, `due` and `grace` the
closure of `startHeartbeat`. Time is counted in heartbeat intervals: within a
round the due beats run in any order, `Tick` ends the round. The statement of
`beat` is one action part (`WriteBeat`, `GoneRows`, `Upserted`, `SeesNewer`):
its data-modifying CTEs share one snapshot. A beat that throws either never ran
(`TickFails`) or committed with its answer lost (`TickAnswerLost`). `first` is
history. `MaxOutage` is how long a process may be cut off from the database.

### AdvisoryLock

`holding`/`waiting` are the module variables of `advisory-lock.ts`, `holder` the
lock table of Postgres, `pinned` the pooled connections. `pc` follows a call
through slot, connection, try, work and end. `TakeHolderSlot` is one turn of its
loop: a woken caller tests the cap again, since a newcomer may have come first.
A call may be made by the work of another (`ParentOf`). A backend may die at any
time (`BackendDies`), which frees its lock in Postgres while the work runs on;
`Beat` is the heartbeat that notices. Deadlines are chosen to strike or not
(`MayTimeout`, `MayRefuse`).

### TrxSequencer

A level is the transaction or one scope; `parent` says where a scope was queued,
`inside` all that it is nested in. `queue[l]` is the level's promise chain, `wire`
the statements sent and not answered, `log` the writes Postgres keeps, `marks` its
savepoints and `role` the role it runs under. `Exec…` is a statement's execution
together with the settling of its promise, which starts the next of its level
before anything else runs, as the chain of `.then`s does. What a chain does is
said by operators on a record of wire, queues and states (`Start`, `Enqueued`,
`Settle`), so that a step which moves two chains is their composition. The code in
a level is arbitrary: it may send a statement or open a nested scope whenever
`Sending` allows, also from a branch that its scope left behind. `strayed` remembers
that such a branch queued something at a level that was just ending.

### RequestTransaction

`phase` follows `tenantMiddleware` and `withTenantIsolation`; `qstate`/`jobs` are
the `AfterCommitQueue`; `jstate`, `wstate` and `landed` are the jobs and the
joined work (`beforeRequestTransactionEnds`). `fate` is what Postgres did with
the writes, `answer` what the client is told. Jobs and work arrive at any time
after the store was published, also late. A statement may fail and its error be
swallowed (`aborted` without `threw`), a COMMIT may be refused, or carried out
with its answer lost.

### WebhookDelivery

`queue`, `retry`/`due` and `dlq` are the three keys of the cache. Passes of all
replicas are members of `Passes`: what they share is only the cache, so whether
two run in one process or in two makes no difference to it. Each command of the
cache is a step of its own (`Pop`, `FileRetry`, `DeadLetter`, `Trim`, `ReadDue`,
`ClaimDue`, `PushDue`, the replay's `ReplayPush` and `ReplayRemove`). A POST and
its answer are one step, as no state depends on one being in flight. `outcomes`
are `recordOutcome` calls on their way to the delivery row (`row`), which may be
lost. A fault (a failed command, a process that dies) may strike at every step;
a dying process is modelled one pass at a time.

### LiveTable and GhostDdl

`LiveTable` is what an online schema change promises: a table that answers
writes row by row, and whose shape moves on at one moment without a row being
touched. `GhostDdl` is `ghost-ddl.ts`: `createGhost` statement by statement,
`CopyBatch` from the cursor on, the two replays (`ReadChangelog`,
`ReplayChangelog`), the lock, the swap, the undo of a failed run, the minute-late
`Cleanup` and the boot sweep. `catalog` holds the objects by name, as the code
finds them by name; `logOid` and `oldOid` say which object has the name, which is
what the cleanup compares. A write executes and takes its changelog id in one
step and commits in another (`pend`), so ids commit out of order. A statement may
fail, the swap may commit with its answer lost, and an instance may end anywhere.
The row count before the renames (`SameCount`) refuses no swap here: the ghost is
the table by then (`NothingIsMissed`). It guards against rows that row-level
security hides from the copy, and those are not modelled.

### FlowScheduler

`Poll` is a tick's claim (`FOR NO KEY UPDATE SKIP LOCKED`), `claim`, `staged` and
`setting` its transaction, `task[t][f]` the place of each claimed flow. Standard
flows run inside the open claim and then advance in it, one pair of setting and
write at a time (`turn` is `_writeTurn`); AI tasks are advanced first and run
after the COMMIT. The claim's backend may be killed while it sits idle, an
advance may be refused, a run's row may fail to be inserted or closed, a COMMIT's
answer may be lost, a replica may die and come back. `eras`, `starts`, `unrun` and
`excuses` are history: due times, runs, runs given up, failures a flow had itself.

### QueryCache

`page` and `index` are the keys in Valkey with their lives (`left`). A filing
(`fill`) is one command after the other: SETEX, then SADD and EXPIRE for each
index. A change (`change`) commits and then reads and deletes index by index; an
authorization change works on a user's index, a row or column rule drops the
caches before and after its commit. Any command may fail, which ends the filing
or the invalidation; a failed GET is a miss. A rule's change first collects the
tenants' indexes (`Scan`, `named`) and then drops each that it named, also one that
is empty by then. Versions stand for what a page
holds. `excuse[p]` remembers the races that the code leaves open.

### WorkerTxn

One request of a worker extension's route, its service call into another
extension, and the inline code that shares a joined transaction. `ext`,
`window`, `savepoints`, `scopes`, `over`, `closing` are the fields of
`RequestTxn`; `db` is the server: role, savepoint marks, writes, and whether the
transaction is aborted or its backend gone. An operation is accepted, waits for
its turn, prepares (role, window), performs, and settles. `within` is the scope an
invocation was called in: a service's operations take their turn there until it
opens a scope of its own, and inline code that a worker calls inside its
`db.transaction()` takes its turn in that scope (`InlineLevels`). `Reply` is the route's
answer or throw, `TimerFires` its own timer, `Close` the COMMIT or ROLLBACK.

### SyncPull

The server's rows and tombstones carry the start time of the transaction that
wrote them (`open` holds the starts of those still open). A pull reads the
horizon, the watermark, the rows and the tombstones in separate steps, cuts a
page in the order of (time, id) and seals a cursor; the client drops or applies
change by change and then saves the cursor, and may stop anywhere (`Stop`).
`Purge`, `Tick`, `Rotate` (cursors that no longer open) and `MarkBlind` (a session
the watermark cannot see) are the environment.

## 3. What the runs check

| Run | Result | What it shows |
|---|---|---|
| `single_instance` | passes | `NoBlackout`: unless a process was killed, one serves that is not on its way out. `NewestWins`: a process drains only for one that came after it. `EventuallyOneAnswers`: once beats come in time, at most one goes on answering. |
| `advisory_lock_replicas` | passes | `OverlapIsReported`: two works on one key that ran side by side are never both told that they ran, whichever holder died when. |
| `advisory_lock_slots` | passes | `EveryCallEnds`: holders that are not nested lose no wake-up and leave each other's works a connection. |
| `advisory_lock_nested` | violation of `EveryCallEnds` | A holder inside a holder's work waits for its own slot. |
| `trx_sequencer` | passes | `ScopeAlone`, `BlocksAreAtomic` (a failed block leaves nothing, and nothing else undoes an accepted write), `RoleOfItsLevel`, and `EverythingRuns`: no scope waits for itself. `TurnsTypeOK`. |
| `request_transaction` | passes | `JobsOnlyAfterCommit`, `NoJobLost`, `ToldTheTruth`, `NoSecondConnection` (no job works on a second connection while its request pins one), and `EveryRequestEnds` with a single connection left in the pool. |
| `webhook_delivery` | passes | `KeptOnce`: a payload is neither doubled nor lost. `DlqBounded`, `AttemptsBounded`, `EveryPayloadSettles`. |
| `ghost_ddl` | passes | `NothingMissed`: no write is missing in ghost and changelog together. `ImplementsLiveTable`: the table refines `LiveTable`. `RefusalHasACause`, `OldCopyIsReclaimed`. |
| `flow_scheduler` | passes | `NoOverlap`, `OneRunPerDue` (neither too often nor lost, but for failures of the flow itself), `AiOncePerDue`, and `EveryDueIsTaken`. |
| `query_cache` | passes | `PageReachable`: a cached page stays in its indexes. `StaleExplained`: what outlives an invalidation has one of the named causes. `StaleGoes`: nothing stale stays for good. |
| `worker_txn` | passes | `RunsAsItself`, `AnswerTells`, `SavepointsMatch`, `NothingAfterEnd`, `RequestEnds`, `TypeOK`. |
| `sync_pull` | passes | `CursorIsFinal`, `RowsBehind`, `DeletesBehind`: nothing behind a cursor is missing. `Converges`: a client that keeps pulling ends with the server's rows. |

A property that TLAPS proves for every instance is left out of the runs where no
question about the small instance remains: the type invariants of all modules but
`TrxSequencer` and `WorkerTxn`, `HoldersLeaveRoom` and `NothingAfterTheEnd`.

### Disagreements between code and documentation

One has a run of its own and is listed under `findings`. **Nested advisory locks**
(`advisory_lock_nested`): with `DB_POOL_MAX=2` the holder cap is 1, and a holder
whose work takes a second lock never ends, since `takeHolderSlot` has no deadline.
An extension load that applies a schema does that. The same happens with three
connections as soon as another holder sits in the remaining slot while it polls
for the outer key.

The others are the named exceptions of the properties; taking the exception out
of the property, or the assumption out of the instance, makes TLC show them.

1. *Single instance.* `beat` deletes rows not seen for an hour and inserts its own
   again with a fresh `started_at`: a process cut off for longer returns as the
   newest, and the newer one drains for it. `single-instance.ts:86-87`: "Our row
   ages meanwhile, which only makes a newer instance ignore us — never the
   reverse." The model assumes `MaxOutage <= GoneAfter`.
2. *Stray scopes* (`strayed` in `TrxSequencer`). `level.closed` is set when the
   scope's promise settles. What a branch nobody awaited sends while the scope's
   RELEASE is out queues on the ending level and then runs beside the outer one.
   `trx-sequencer.ts:14-15`: "`exclusive` runs a scope alone on it".
3. *Swallowed errors* (`Swallowed` in `RequestTransaction`, `spoiled` in
   `WorkerTxn`). COMMIT of an aborted transaction is answered ROLLBACK without an
   error, and nobody looks at the tag (`bun-sql-dialect.ts:421`): the after-commit
   jobs run and the success stands. In a worker's transaction the refusal of a
   scope's rollback is part of this: once a statement has failed, an operation of
   another extension begins with a switch of role (`onConnection`,
   `worker-extension-host.ts:2150-2156`), which an aborted transaction refuses, and
   so neither a ROLLBACK TO that needs the switch nor `abandonScopes` is sent. The
   savepoint then outlives its scope.
   `tenant-context.ts:64`: "Work that must not
   start until the transaction has COMMITTED"; `worker-extension-host.ts:2164-2168`
   says that `endRequestTxn` resolves true "when what the request wrote stands".
4. *Lost COMMIT answers.* The client of a request whose COMMIT was carried out and
   whose answer was lost is told that it was not committed.
5. *Replay.* `POST /dlq/replay` pushes first and does not read LREM's answer
   (`routes/webhooks.ts:189`): two replays at one time queue a dead letter twice.
   The instance has one replayer. `webhook-worker.ts:150-153` says why the worker's
   own claim reads it: "a webhook receiver has no idempotency key".
6. *Outcome rows.* `void recordOutcome` (`webhooks.ts:438`) lets the outcome of an
   earlier, failed attempt overwrite a later success; the row of a delivered
   webhook then says that it was not.
7. *Ghost trigger left behind* (`"trigger_left"`). `ghost-ddl.ts:835` says "Trigger
   first: dropping the changelog while the capture trigger still fires made every
   write to the original table fail", but an error of DROP TRIGGER is logged
   (842-849) and the changelog dropped all the same (859).
8. *Boot sweep* (`"log_swept"`). `ghost-ddl.ts:893-896` calls the sweep "safe even
   while another instance is running"; it drops the changelog by its name (933),
   which a new migration of the table may be writing to.
9. *Flow claims.* `flow-scheduler.ts:154` calls the held connection "the price of
   the guarantee" that no other tick runs the flow. The pool sets
   `idle_in_transaction_session_timeout` (`db/index.ts:127-146`), and the claim is
   idle while a flow runs: past it, the rows are free and the flow runs twice at a
   time. `NoOverlap` and `OneRunPerDue` name the dead claim.
10. *Query cache.* `query-cache.ts:15-16` says that all keys are dropped on any
    write. A page read before the commit and stored after the invalidation stays
    until its TTL, and so does one whose SADD an invalidation overtakes. A list
    filed later sets the life of the user's index, which a time-travel count
    (`time-travel-count.ts:43-49`) relies on for 300 seconds, to its own
    (`query-cache.ts:90`).
11. *Worker scopes.* `abandonScopes` (`worker-extension-host.ts:2281`) rolls back
    what a service "left open when it ended" (2275-2279). A scope whose begin
    still waits for its turn at that time is not open yet; it opens afterwards,
    and nobody ends it before the request does.
12. *Sync.* `routes/sync.ts:806-807` reads the horizon "on the clock the collector
    purges by" once, at the start: a purge under a longer pull takes a tombstone
    the pull was to send (`purged`). And a row deleted and put back by a
    transaction older than the deleting one is sent before its tombstone
    (`backdated`; 978: "a delete and a later re-insert of one id must apply in
    that order").

`docs/engine/webhooks.md:70` calls `retry_attempts` the maximum of delivery
attempts, where the code makes that many *re*tries after the first attempt;
`docs/engine/webhooks.md:226-227` says that without Valkey nothing is retried,
where `_deliverWithRetries` does retry.

### Bounds

- `SingleInstance`: three processes (a chain of two retirements, and a crash in
  it), a live window of 3 rounds, deletion after 4, at most 4 inserts. Only the
  order *live window < deletion threshold* and *outage ≤ threshold* matter, and
  `MaxOutage = GoneAfter` is the tightest case. No symmetry, since a liveness
  property is checked.
- `AdvisoryLock`: the replica run has one call of each kind, two processes, one
  key, the smallest pool and two dead backends, so two deaths may overlap. The
  slot run has a pool of three and four holders: two slots, two queued, and one
  of them giving up on a shared key.
- `TrxSequencer`: two blocks and a window, nested or side by side in every way,
  and two statements: enough for one inside and one beside each scope.
- `RequestTransaction`: two requests and one connection (the rest of the pool is
  taken by other requests), so every second connection would be missed; two jobs
  in one request for the order of the queue, a piece of joined work, one job in
  the other request.
- `WebhookDelivery`: two payloads and a dead-letter list of one, so the list
  overflows; two overlapping passes with a batch of one; one retry; one replay;
  one fault, at any step, and deployments with and without a cache. One webhook
  has no delivery row.
- `GhostDdl`: three rows in batches of one, so writes fall behind, at and ahead of
  the cursor; one row is missing at first and may be inserted; two writes; two
  runs by two instances, so that what the first left meets the second; two
  failing statements (a run that fails and whose undo fails, so the next run meets
  its trigger) and one crash.
- `FlowScheduler`: a standard flow, one of another firm whose cron expression
  never comes again, and an AI task; one tick of each of two replicas; two due
  times; one failure. (With two failures the safety properties were checked as
  well; that run takes longer.)
- `QueryCache`: lists of two tenants and a count of one user, so that two kinds
  share an index with lives of 1 and 3; two filings and a change of any kind, one
  failing command.
- `WorkerTxn`: six operations, scopes two deep, one fault: enough for a service
  inside a route's scope with a scope of its own, inline code beside it, and a
  failure of any one statement.
- `SyncPull`: two rows and pages of one change, so every page is full and ends in a
  group of equal times; four moments, tombstones kept for one; two commits; one
  cut, blind or rotated pull.

### Fairness

- `SingleInstance`: timers fire (`WF` of `Tick` and `Retire`). `SF` of
  `TickBeat`: of the beats a process attempts for ever, some are answered, which
  is what the code relies on when it retries on the next interval.
  `EventuallyOneAnswers` also assumes that outages as long as the live window
  come to an end (`BeatsInTime`).
- `AdvisoryLock`: `WF` of what the event loop runs. `SF` of getting a connection,
  a lock and a statement's connection: the pool serves waiters in turn, and a
  lock that comes free again and again is got by one that polls for it. Nothing
  forces a deadline to strike, so that `EveryCallEnds` does not rest on one.
- `TrxSequencer`: the connection answers. A scope's body ends only once nothing
  it awaits is left (`AwaitsNothing`), so a scope that waited for itself would stay.
- `RequestTransaction`: the request's own steps, started jobs and joined work
  come to an end (`endRequestTxn` refuses what it had queued). Nobody has to
  register a job or join work.
- `WebhookDelivery`: the loops and passes go on, scores pass, a POST is answered
  or times out (`AbortSignal.timeout`). The number of faults is finite; no
  endpoint has to answer well, nobody has to replay.
- `FlowScheduler`: the interval fires, the steps of a tick and its flows go on
  (a flow's steps time out), a replica that died is restarted, and the garbage
  collector runs daily.
- `QueryCache`: seconds pass, and a filing that was begun goes on to its end.
  No change has to come or to finish.
- `WorkerTxn`: statements end (`statement_timeout`), the request's and the
  transaction's timers fire, and what they settle is carried out. No worker has
  to answer, return, or end a scope.
- `SyncPull`: transactions end, the clock runs and the application pulls again.

Deadlock is not checked in `advisory_lock_nested`, whose violation is temporal,
and in `ghost_ddl`, `flow_scheduler`, `query_cache`, `worker_txn` and `sync_pull`,
which really stop: the finite number of writes, due times, changes, operations or
moments is used up and nothing is under way. The other modules mark those states
with a `Terminated` step.

## 4. What is proved

TLAPS checks these for every value of the constants that satisfies the named
assumptions of the modules.

**ReplicaProofs**, on `SingleInstance` (`BeatAssumption`, `MaxOutage <= GoneAfter`):
`HeartbeatTypeCorrect`, `NeverABlackout`, `TheNewestWins`. The invariant is `BeatInv =
BeatTypeOK /\ RowsKept /\ DrainedForASuccessor`. `NoBlackout` alone is not inductive: a
process about to drain needs to know that the row it sees belongs to one that is
not draining itself. `RowsKept` says that a serving process still has its first
row (this is where the bound on outages is needed; without it the theorem is
false), and `DrainedForASuccessor` that whoever drained has a successor with a
later first row. Were no process serving, the newest drained one would have to
have a successor that is newer still.

**ReplicaProofs**, on `AdvisoryLock` (`ConstantsAssumption`: finitely many calls, a
pool of at least 2): `TypeCorrect`, `OverlapReported`, `RoomForWork`. The invariant adds to
the types: `QueueOK` (the queue lists queued callers, each once), `SlotsOK` (the
counter equals the number of calls between taking and giving a slot), `LockOK`
(a call between taking the lock and its end has the lock, or its backend died),
`OneOfTwoTainted` (of two overlapping works one has a dead holder or was told
something else than success) and `OutcomeAtEnd`. `RoomForWork` then follows by
counting: pinned holders are a subset of the slot holders, of which there are at
most `Cap < PoolMax`.

**TransactionProofs**, on `RequestTransaction` (`ConstantsAssumption`): `TypeCorrect`,
`JobsAfterCommit`, `JobsAccountedFor`, `AnswersAreTrue`, `JoinedWorkStaysInside`,
`OneConnectionEach`, with every fault allowed. The invariant says what each phase
implies for the queue, the writes and the answer (`PhaseOK`), whose jobs a queue
holds (`QueueOK`), where a job can be (`JobOK`) and that joined work is over
before the end begins (`WorkOK`). It rests on the queue's state changing in the
same step as the transaction's fate, which is why a late job can be decided from
it.

**TransactionProofs**, on `TrxSequencer` (`TurnsAssumption`: the root is no scope):
`TurnsTypeCorrect`, `ScopesStayAlone`, `BlocksStayAtomic`,
`RolesStayOfTheirLevel`, for any number of scopes and statements and any way of
opening them. The invariant is `TurnsInv = Always /\ (~strayed => Straight)`.
`Always` holds whatever a branch left behind does: the scopes are a `Tree`, every
level is nested in one where its code may queue (`Nested`, so that `Nearest` is
defined), savepoints are in the order of the log (`MarksInOrder`), and `Chains`
says what queues, wire and states promise each other. The statements sent are
heads of different queues (`WireHeads`), a scope under way is the head of the
queue it waited in (`AtTheHead`), and it ends by one statement of its own
(`LastItems`, `EndedOnce`). `Chains` has a parameter, the levels whose head is not
started yet: a step takes an item off, closes a scope, adds an item or starts a
head, one lemma for each, and between them that set is not empty. `Straight` is
what `ScopeAlone` and the others need and a stray item breaks. The scopes under way
are nested in one another and one statement at most is on the wire (`Line`), so the
statement executed is of code inside every scope under way. From that, what comes
after an open block's savepoint is of code inside it (`AfterMark`), what came
before any is not (`BeforeMark`, so that a ROLLBACK TO undoes all of the block and
nothing else: `Failed`, `Kept`), and the role is the engine's while a window is
under way (`RoleNow`), windows and savepoints knowing what it was before
(`PrevRole`, `MarkRole`: a rollback puts back the role of the savepoint).
`TurnsInv` was tried with TLC on the run's instance before it was proved; no run
repeats that.

**GhostDdlProofs** (`ConstantsAssumption`: a finite table): `TypeCorrect`,
`NothingIsMissed`, `Refinement`, `RefusalsHaveACause`, `OldCopyReclaimed`. The
invariant `IInv` adds to the types: `Ids` (a row's entries carry different ids,
the write under way the greatest), `Held` (one run at a time, nobody writes under
the swap's lock), `Prepared` (what each statement of `createGhost` has put in
place), `Ordered` (what was read of the changelog is older than what is still in
it) and `NothingMissed` itself. At the swap nothing is pending and the last
entries have been replayed, so the ghost is the table, which is the step the
refinement of `LiveTable` needs. For the causes of refusals `OlderLogs` (a pending
cleanup names an older changelog than the one a trigger writes to), `Standing` and
`LogThere` join in.

**SyncPullProofs** (`ConstantsAssumption`, `MarkersAssumption`): `TypeCorrect`,
`CursorsAreFinal`, `NoRowIsMissed`, `NoDeleteIsMissed`. No open transaction is
older than a watermark, so what lies below one changes only by moving above it
(`Finals`). A read therefore still tells the truth about the rows below its
watermark when the page is cut (`ReadOK`), and the page about those up to its end
when the client applies it (`PageOK`): a row behind the new cursor is in the page,
or was behind the old one.

**FlowSchedulerProofs** (`ConstantsAssumption`: finitely many ticks):
`TypeCorrect`, `NoFlowBesideItself`, `OneRunForEachDueTime`, `AiTasksRunOnce`. A
flow in an open claim is locked by it (`Locks`). The advance whose turn it is
finds its own firm set (`Turns`), so that it fails only for a reason of its own.
Runs are then counted: a run still to come, of the claim that has the row, of the
next one or of a claim that lost its backend, is paid for by a due time or by an
excuse (`RunsPaid`); a row moves forward only past a run (`Past`, `NoDueLost`); an
AI task waits for its run only once its due time is used up (`AiPaid`).

**QueryCacheProofs** (`ConstantsAssumption`, `NoneAssumption`): `TypeCorrect`,
`PagesAreReachable`, `StalePagesHaveACause`. A page is in an index, or its filing
has still to add it, or it is excused (`Reached`); an index a page is in outlives
it, or the filing has still to see to that (`Outlived`), which is why expiry does
no harm. When the members of an index are read, every older page is thereby among
them or excused, and every older filing is marked late, so that what it stores is
excused (`Seals`).

**WebhookDeliveryProofs** (`DeliveryAssumption`: finitely many passes at one
time): `TypeCorrect`, `DeadLettersBounded`, `PayloadsKeptOnce`,
`AttemptsAreBounded`. The bound of the dead-letter list follows from `BoundInv`,
which adds to the types what a pass holds in each of its states (`PassKept`); the
trims a pass still owes are then counted item by item. The other two rest on
`IInv`. A payload is in one of eight places (`Kind`), and every step is shown to
move a set of payloads from one place to another (`Moves`), or out of the worker
through a fault or a trim, which keeps them apart (`Apart`) and somewhere
(`Covered`). `Once` says that within its place a payload is once. For that the
dead letters have to be told apart by `failedAt` (`DlqOnce`), and what a replay
has read and not yet queued has to be on the list still, or on none (`RawOnce`):
it pushes an entry it read a while ago. `Budgeted` bounds the posts made by the
attempt a payload carries, so that a payload which returns to the queue cannot
have more attempts left than the trigger and the replays gave it. `OneReplayer`
is a hypothesis of the last two theorems: two `POST /dlq/replay` at one time, or
one after a request that ended between RPUSH and LREM, queue one dead letter
twice, and neither claim is true then. `IInv` was tried with TLC on
the run's instance before it was proved; no run repeats that.

**WorkerTxnProofs** (`ConstantsAssumption`: `None` is no actor, operation or job):
`TypeCorrect`, `EachAsItself`, `AnswersAreTrue`, `SavepointsAgree`,
`NothingIsSentLate`, with no other hypothesis. The invariant is `IInv = Control /\
Data`. None of the five is inductive alone, since each step acts on what the host
believes of the server and not on the server. `Control` says what the host's own
lists promise each other: an operation that waits or runs fits the scopes as they
are now, though it was accepted earlier (`QueueFits`, `JobFits`: turns let nobody
else change the scope in between), one invocation has one scope (`OneScopeEach`),
every savepoint was an operation sent (`Counted`, for the bounds), and savepoints
lie in their scopes, the scopes on each other (`Nested`; the gaps only a refused
rollback leaves are what `spoiled` excuses). `Data` relates them to the server:
its savepoints are the host's (`Server`), its role is the one the host believes
in, if it believes in one (`RolesFit`: `txn.ext` is cleared before a switch that
may fail, and a joined savepoint is taken as the caller, so that a rollback to it
lands there), and what the workers were told adds up to the server's writes at
every savepoint (`BooksBalance`) and at the end (`EndFits`). `AnswersAreTrue` is
then the account of the last moment. The invariant was tried with TLC (five
operations) before it was proved; no run of the project repeats that.

Only model-checked: the liveness properties of the runs, which are outside this
prover's reach. Every safety property of a passing run is a theorem, under
the assumptions named above.

## 5. Not modelled

Data is abstracted: payloads, SQL, tenants, policies, signatures and headers do
not appear. Left out of the modelled parts:

- `transactionTurns`/`before` (the worker bridge's hook into the sequencer; its
  effect is part of `WorkerTxn`) and `joinedTransaction`;
- the CRUD and test routes of webhooks;
- the job states of the DDL queue (a run is what holds the table's lock) and the
  SQL of `ddl-manager.ts`;
- of webhooks, the LPOP loop of a server without LMPOP
  (`webhook-worker.ts:86-93`): a batch is popped at once. And every command is
  carried out at most once: a command whose answer is lost with the connection and
  which the cache client sends again (`maxRetriesPerRequest`,
  `lib/runtime/cache.ts:53-60`) is no step. A resent RPUSH or LPUSH would double a
  payload, so `KeptOnce` holds only where none is;
- of ghost DDL, the death of the advisory lock's backend under a run that goes on:
  `Start` takes the lock as exclusive for the whole run. `AdvisoryLock` models that
  death (`BackendDies`), but the two modules are not composed, and two runs of one
  table side by side do not occur here;
- the steps of a flow, data-event triggers and the dead-letter list of flows;
- worker transactions outside a request, the bridge protocol, SQL policies;
- of the sync: the push, the outbox, conflicts and CRDT merges, realtime updates
  of the local store, what a reader may see of a row. One client, one pull at a
  time and no edits of its own. A transaction's start is visible to the watermark
  as soon as it is taken; a rotated secret makes every old cursor unreadable.

A process crash is part of `SingleInstance`, `WebhookDelivery`, `GhostDdl` and
`FlowScheduler`. A crash between COMMIT and the in-memory jobs loses them by design
(listed as a hazard).

Studio, client, CLI, framework SDKs and deployment files hold no shared state;
the permission engine, the schema planner, request validation and the marketplace
are large, mostly sequential code over data, where a model checker has little to
find. They are most of the repository's lines; `PROJECT.json` lists each with its
reason.

## 6. Plan

Done, in this order: `RequestTransaction`, `TrxSequencer`, `AdvisoryLock`,
`SingleInstance`, `WebhookDelivery`, `LiveTable` and `GhostDdl`, `FlowScheduler`,
`QueryCache`, `WorkerTxn`, `SyncPull`.

Next, in the order of what they would add:

1. `Outbox`: the sync client's pending operations, their retries and the realtime
   updates of the local store, composed with `SyncPull`.
2. `ExtensionLifecycle`: install, enable, load and disable under the extension
   lock, with a failure between phases.
3. `RealtimeBus`: publish, echo filter, reconnect and replay across instances.
4. The DDL queue's job states and their recovery at boot; the write pipeline as a
   composition of `RequestTransaction`, `QueryCache` and `WebhookDelivery`.
5. Rate limits and the once-per-schedule rule of cron and backups.

Abstract specifications still worth stating: a mutex whose holders may be revoked
(for `AdvisoryLock`); a nested-transaction log where scopes are atomic (for
`TrxSequencer` and `WorkerTxn`); at-least-once delivery with loss only by faults
(for `WebhookDelivery`).
