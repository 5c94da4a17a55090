# Formal model of the image gateway

This directory specifies the GPT image gateway in TLA+: the running service
(`src/src/main/java/com/gptnet/image/`, Java 21, Spring Boot, PostgreSQL, Redis),
the two pages it serves to browsers (`src/public/script.js`, `src/public/admin.js`)
and its predecessor (`src/backend/src/`, NestJS, Prisma, BullMQ). It
model-checks them with TLC on small instances, and proves the main results with
TLAPS for every instance. `PROJECT.json` maps every definition to the lines it
models and lists the runs, the mutants of the code that each property rejects,
the hazards and the theorems.

Paths of Java files below are relative to `src/src/main/java/com/gptnet/image/`.

## 1. The system

A customer buys images with credits. A request creates a *task*, holds its price
in the wallet and lists the task in Redis. Worker threads of one or more server
processes take tasks from the list, call an upstream provider (the *gateway*),
store the images and charge the hold, or fail the task and refund it. Customers
and administrators use pages that poll, cache and edit what the service stores.

| Component | Source | State | Operations | Modules |
|---|---|---|---|---|
| Task ledger | `service/ImageService.java`, `service/Db.java`, `service/AuthService.java` (wallet lock), migrations V5, V7, V12 | rows `ImageTask`, `ImageResult`, `WalletEntry`, `UsageRecord` | create, claim, count and store images, complete, requeue, fail and refund | `TaskLedger`, `CreditAccount` |
| Image queue | `service/QueueService.java` | Redis: list `image:waiting`, sets `queued`, `waiting:set`, `delayed:set`, `active`, sorted set `delayed`, hashes `attempts` and `active:started`, list `dead`, keys `lock:<task>` | enqueue, worker loop, delayed retry, stalled-task recovery, recovery at the start, dead letters, heartbeat | `ImageQueue` |
| Start of an instance | `GptnetImageApplication.java` | none of its own | seed, `recoverPendingTasks`, `startWorker` | `ImageQueue`, `Administrators` |
| Request endpoints | `controller/PublicApiController.java`, `controller/ImageController.java` | none of their own | create (sync or async, idempotency key), read | `TaskLedger`, `ImageQueue` |
| Redemption codes | `controller/OperationsController.java` 279-316, `service/AdminService.java` 849-930 and 1512-1534, migrations V2, V13; codes tab of `admin.js` | rows `RedemptionCode`, `RedemptionUse`, `WalletEntry` | redeem, create, patch, delete a code, delete a user | `Redemption` |
| Accounts and administrators | `AuthService`, `AdminService` | rows `User` and all they own | register, seed, patch, delete, adjust credits, warn | `Administrators`, and partly `Redemption`, `AdminUsers`, `AccountWarnings` |
| Workspace page | `src/public/script.js` | who is signed in, list of jobs, poll timer, options and draft, reference images, warnings, credit entries | submit, poll, select, refresh, sign in and out, reload, upload, acknowledge, load more | `Workspace`, `Composer`, `References`, `AccountWarnings`, `CreditsView` |
| Administration page | `src/public/admin.js` | lists, drafts, selection, refresh timer, drawers, gallery page, rules, channel form | load, edit, save, check, delete, bulk adjustment, page, import rules, test a channel, codes | `AdminConsole`, `AdminUsers`, `AdminGallery`, `AdminRules`, `CallSquare`, `Redemption` |
| Older backend | `src/backend/src/modules/` | the same rows, BullMQ jobs, captchas in memory | tasks, refunds, recovery, gateway failures, registration, redemption, administrators | `NestTasks`, `NestAccounts` |
| Gateway selection and health | `ImageService` 489-545, 1112-1183; `AdminService` 322-426, 1022-1055 | row `Gateway` | select, count failures, health check, patch, delete | `GatewayHealth` |
| Sensitive word rules | `service/SensitiveWordService.java` | rows of rules, a cache per instance | check a prompt, create, patch, delete, invalidate | `SensitiveRules`, `AdminRules` |
| Upstream calls | `ImageService` 569-1100, `service/UpstreamClient.java` | none that survives a call | batch, fallback, polling, error classification | outcomes only |
| Rate limits and captcha | `service/RateLimitService.java`, `service/CaptchaService.java` | Redis counters per minute | check, create, verify | not modelled |
| API keys, sessions | `service/SecurityService.java`, `AuthService` | rows `ApiKey`, signed cookies | issue, validate | not modelled |
| Image storage | `service/StorageService.java` | files or S3 objects | put, get | the slot of an image, in `TaskLedger` |
| Metrics, readiness, galleries | `OperationsController`, `Db` | none | read-only views | not modelled |

`src/blogs.lovart.ai/` (a saved web site), `src/scripts/` and the agent
directories are not part of the system.

### How they interact

* A request thread runs `createTask` (PostgreSQL), then `queueTask` (Redis) or,
  in sync mode, `processTask` on its own thread with no entry in Redis at all.
* A worker thread pops a task (Redis), locks it (Redis), runs `processTask`
  (PostgreSQL, upstream, storage), then reports the outcome to Redis. What it
  reports is decided from the row that `processTask` read back.
* Any worker runs the maintenance for all instances. An instance that starts
  recovers the pending tasks of all instances.
* Administrators and `redeem` write the same wallets and codes; administrators,
  requests and workers write the same rows of gateways.
* Every instance keeps the enabled rules in two volatile fields, which all its
  request threads read and load.
* The pages talk to the service by `fetch`: a handler of a page is suspended at
  each `await`, other handlers, timers and clicks run meanwhile, and answers
  arrive in any order or not at all. `localStorage` survives a reload.
* The older backend keeps the same wallets in PostgreSQL without row locks and its
  jobs in BullMQ, which delivers a stalled job again.

No transaction spans PostgreSQL and Redis, and only the enqueue script makes
several Redis commands one.

### What is hard about it

Many writers of one row under READ COMMITTED; two stores that a crash leaves
apart; a lease (the lock) that is released without its owner's name; leftovers of
one Redis key taken for the state of another; retries counted in Redis that
outlive their worker; recovery that cannot tell a dead worker from a live one;
transactions that lock the same rows in different orders; handlers of a page that
continue with what they read before an `await`. The hazards are listed in
`PROJECT.json`, each at the line where it bites and with the properties that
cover it.

### What makes each component correct

* Ledger: a price is held once, against a balance that covers it, and ends as one
  charge or one full refund; a charged task has its images; a settled task stays;
  an idempotency key has one task; recorded images count for later attempts.
* Queue: at most one worker at a time per task; no pending task is forgotten; the
  attempts are bounded; a dead letter has failed; nothing stays locked or active
  afterwards; the tasks that were let in by the limit fit it; every accepted task is
  settled in the end.
* Codes: a redemption is allowed by the code as it is when it commits; the array
  of a code, the uses and the wallet entries tell the same story.
* Gateways: a gateway that a worker calls exists as long as the task does; its failures, health and cooldown
  follow from the outcomes in the order in which they were recorded.
* Rules: no rule that is enabled is skipped by a check for longer than the cache
  lives, and not at all but for the races of the cache.
* Administrators: one is always left, but for two that remove each other at once.
* Workspace page: one poll timer, and none without a job; no silent end of the
  waiting; no more announcements than submissions; what is shown (price, gateway,
  previews, entries) is what will be used.
* Administration page: edits are not lost to refreshes; a bulk adjustment gives
  each user its amount once; the pager names the page that is shown; buttons do what
  they say; a masked key never replaces a real one.
* Older backend: the credits taken for a task follow from its status; one grant per
  use, activity, captcha and registration; tasks end.

## 2. Modules

| Module | Models |
|---|---|
| `CreditAccount` | abstract: what the credit system promises a customer |
| `TaskLedger` | PostgreSQL side of the service: requests, workers, transactions, faults |
| `MCTaskLedger` | instances of it for TLC |
| `TaskLedgerProofs` | theorems about it |
| `ImageQueue` | Redis side: requests, workers, instances, faults, time |
| `MCImageQueue` | instances of it for TLC |
| `MCQueueLimit` | instances that begin with a task that is settled, a late instance, or a worker that is lost |
| `ImageQueueProofs` | theorems about it |
| `Redemption` | redemption codes: transactions with their row locks, and the codes tab |
| `GatewayHealth` | a gateway's row: selection, outcomes, health checks, administrators |
| `SensitiveRules` | the rules' rows and the cache of an instance, field by field |
| `ServiceProofs` | theorems about these three |
| `Administrators` | disabling, enabling, deleting and seeding administrators |
| `Workspace` | `script.js`: sign-in, jobs, result card, polling |
| `WorkspaceProofs` | theorems about it |
| `Composer` | `script.js`: options, price, draft, gateways; the service's price |
| `References` | `script.js`: reference images, previews, object URLs |
| `AccountWarnings` | warnings of an account: service and dialog |
| `CreditsView` | `script.js`: two lists of credit entries that grow at the top |
| `AdminConsole` | `admin.js`: gateway table, drafts, refresh timer, session |
| `ConsoleProofs` | theorems about it |
| `AdminUsers` | `admin.js`: selection, bulk adjustment, drawer |
| `AdminGallery` | `admin.js`: pages of the gallery |
| `AdminRules` | `admin.js` and `SensitiveWordService`: rows, buttons and import of the rules tab |
| `CallSquare` | `admin.js` and `AdminService`: channel form, masked key, tests |
| `PagesProofs` | theorems about the other pages and the administrators |
| `NestTasks` | older backend: tasks, wallet, jobs, workers, gateway failures |
| `NestAccounts` | older backend: captcha, registration, codes, administrators |
| `NestProofs` | theorems about both |
| `MCParts` | all of these but ledger and queue side by side, for TLC |
| `PartsProofs` | what the proof modules say of any instance, brought to the parts of `MCParts` |

Operators named `X_Something` beside an operator `X`, with a comment that starts
with *Variant*, are mutations of `X`. No specification uses them; they show which
bug a property would catch.

### TaskLedger

A *thread* is a request or a worker's turn; `th[p]` is its program counter and
the locals that survive a step. An autocommitted statement is one step. A
transaction is one step unless other threads can tell its statements apart, and
two transactions are split there:

* `createTaskRecord`: `OpenWallet` takes the row lock of the user
  (`SELECT ... FOR UPDATE`) and reads the balance; `InsertTask`, `RejectCreate`
  or `DuplicateCreate` ends the transaction. Between the two other threads run.
* `failTaskInTransaction`: `FailBegin` is the guarded UPDATE, which locks the row,
  and the DELETE of the images committed by then; `FailCommit` refunds under the
  wallet lock, writes the usage record and commits. An image stored in between
  by a late worker is visible to neither (READ COMMITTED), and the model has it.

`processTask` is `PickUp`/`StartSync`, `NoGateway`, `Claim`, `CountExisting`, the
gateway call (`FallBackToSingles`, `PersistImage`, `SkipImage`, `EndCall`,
`CallFails`), `Tally`, and then `Requeue`, `Complete` or `FailBegin`. What escapes
from it is caught one level up, in `processOnce` (`Rescue`) and then `workerLoop`
(`FailBegin` again); the `rung` of a thread says which levels are left.
`RecoverProcessing` is the recovery of an instance's start and of stalled tasks;
it may happen at any time, and a worker may pick up any queued task at any time.
That is more than Redis allows, so what is shown here holds whatever the queue
does, also after lost locks and repeated recoveries. `DatabaseError` and
`CaughtError` fail any statement; `Crash` ends a thread anywhere and rolls its
transaction back. `AdjustCredits` stands for `credits()` and `redeem()`.

Abstracted: prompts, sizes and prices (`Cost`, `ImageCount` are arbitrary
functions), which gateway is used, the content of images (a url is the slot
`StorageService` names, or an external one), error texts (an error is retryable
or not).

Left out because it cannot happen: `completeTaskSuccess` refunds a shortfall, but
`processTask` reaches it only with all images present.

### ImageQueue

Every Redis command is a step. A handler's decision (`CheckPopped`, `TryLock`,
`BeginAttempt`, `EndAttempt`, `Release`, ...) leaves the commands it leads to in
the `todo` of its thread; `Execute` runs the first one. The procedures of
`QueueService` that are nothing but commands (`forceWaiting`, `clearActive`,
`releaseQueueMembership`, `moveToDead`, `scheduleRetry`) are sequences of
commands in the order of the code; a look-up of `hasPendingQueueState` (`Seek`) drops
the commands that follow when it finds the task. The six sets and keyed structures are
one function `member`; the list `waiting` keeps its order and its duplicates. The reads
with which a worker begins (`CheckPopped`, `BeginAttempt`, `RecoverStalledActive`) are
one step with the decision they lead to.

`SyncTasks` are the tasks whose request waits for its images: it creates the row without
a look at the limit and runs `processTask` itself (`ClaimInRequest`, `EndInRequest`),
with nothing in Redis. Such a row is counted when other requests are checked, and a
repeated request or a recovery may list it while its request runs it; a worker that then
finds it `processing` concludes FAILED and buries it although it is still running. So
`NothingForgotten`, `WithinLimit` and `DeadLettersHaveFailed` are about the other tasks:
with sync requests the pending tasks do exceed the limit. `OneWorkerPerTask` is about
workers; the thread of a request takes no lock.

The database is `status` with the guarded updates of `processTask`, `failTask`
and the recoveries. Instances start (`Boot`, after which the instance answers requests;
then `PendingTasks` reads the rows, `RecoverPendingTask` takes them one by one in any
order, `StartWorkers`) and crash with all their threads; Redis and the locks
survive. `ClientError` and `WorkerError` fail any command and go where the code's
catch and finally blocks go, including the two places where an error leaves the
loop and the worker is gone (`QueueService` 208 and 212-213).

A worker's heartbeat (`Beat`) writes the time of its task in `image:active:started`
from the end of `HoldTask` to the finally block. For the tasks of `SlowBeats` its check
and its write are two steps, with anything between them: the write may come after the
worker has cleared the entry, and the leftover stays until `recoverStalledActive` comes
across it. `NothingHeldAfterwards` allows that leftover and nothing else.

Time is abstract: `DelayElapses`, `EntryStales` and `LockExpires`. Assumptions:

* A live worker's heartbeat renews its lock and its entry in time (a third of the
  lease), so neither expires while the worker has the task. What a late EXPIRE adds
  to the lock of another worker is within what `LockExpires` leaves open.
* With `SlowFinish = FALSE`, a retry does not come due before the worker that
  scheduled it has finished its last commands: they follow the ZADD within
  milliseconds, and the delay is a second or more (`scheduleRetry` 262). With
  `SlowFinish = TRUE` it may; then a popped retry finds the lock taken and the
  task still active, and is dropped (`QueueService` 180). That is listed as a
  hazard; `OneWorkerPerTask` and `WithinLimit` are checked without the assumption.

Left out: `image:recovered` and the other counters, the heartbeat of a worker whose
attempt an error ended before it was counted, `stats()` (it runs the maintenance, like any worker), `IMAGE_WORKER_ENABLED=false`.

### Redemption

Transactions run at READ COMMITTED; a step goes from one row lock, or one read, to
the next, and a transaction's writes appear when it commits. `redeem()` is `Redeem`
(the request), `LockUserWallet`, `ReadCode` (`SELECT ... FOR UPDATE` and all its
checks) and `Commit` (the unique indexes, then the three writes). `deleteUser` is
`DeleteUser` (the wallet entries go), `DeleteUses` (locks the codes that name the
user) and `DeletionEnds` (locks the user's row; a foreign key rolls it back when an
entry came in between). `Deadlock` is the one cycle of locks the two can form,
and either of them is rolled back. `patchCode` and `deleteCode` read the row
without a lock (`ReadRow`) and write it later (`PatchCode`, `DeleteCode`), which
waits for the row's lock. The codes tab sends its calls through the same `net` as
another administrator, and a lost call may have been carried out.

Abstracted: amounts, expiry and the text of a code (activity keys stand for it);
the entries of a page's row are the code, whether it is active and whether it has
been used.

### GatewayHealth

A row has what the code decides by: enabled, failures, health, whether a cooldown is
set and whether it is over. Every statement is autocommitted, so each is a step. A
request reads the list (`SelectGateway`) and inserts its task later
(`InsertTask`); a worker reads its task's gateway (`ReadTask`), perhaps takes
another (`SelectReplacement`), calls it and records the outcome (`RecordFailure`,
`RecordSuccess`); an administrator's request is a read and a later write
(`patchGateway` writes back what it has read, `deleteGateway` counts the pending
tasks first, a health check reads, calls and writes). `streak` and `touched` are
history: the failures in a row that were recorded, and whether a patch has written
back another count or health since the last success. `DeleteUser` deletes a task with
its user at any moment (`deleteUserRows`, `AdminService` 1513-1535): what keeps the
task's gateway is gone, its worker finds no row (`FindNoTask`), and until then it may
call a gateway that is deleted, which `CalledGatewayExists` says.

Left open: which of the usable gateways comes first, exclusive users and keys.

### SensitiveRules

`activeRules` and `activeRulesLoadedAt` are two variables (`activeRules`, `loaded`),
and `loadActiveRules` goes through `ReadList`, `CheckTime`, `Synchronize`, `Reread`,
`Query`, `StoreList` and `StoreTime`; `invalidateCache` is two steps
(`InvalidateTime`, `InvalidateList`) inside of the transaction, before its `Commit`.
Checks start and end while transactions are anywhere, and the cache may expire at
any time. A rule stands for its pattern: matching is left out.

### Administrators

`patchUser` and `deleteUser` first count the other enabled administrators
(`LastAdmin`) and write afterwards; a restart runs `seedAdmin`. `raced` marks that the
request that has just removed an administrator was overtaken (`Overtakes`): since it
counted, another removal was written, or since it read an account as disabled, that
account was enabled.

### The pages

Each module has the state of a part of the page as variables and the requests that
are under way in `net` (`sent`, `answered`, `failed`). A handler is one step up to
an `await` and continues when its answer is delivered, with the values that it
kept across the `await` in the request's record, and with the current values of
everything it reads again. Answers come in any order with each other, with timers
and with clicks. The service's side of a call is a step of its own (`Serve...`), so
an answer may be old when it arrives; a call that fails may have been served.

* `Workspace`: one operator per function of the script (`ScheduleJobPoll`,
  `StartJobPolling`, `StopJobPolling`, `Hydrate`, `RenderJobs`, ...) on the record
  `page`; a handler composes them in the order of the code. `net` is a bag: the same
  request may be under way twice. `Patience` stands for the length of
  `POLL_INTERVALS`; a poll's wait is not measured.
* `Composer`: the page's table of prices and the service's (`Charge`, translated
  from `normalizeSize` and `createTask`) side by side; lists of gateways arrive late
  and differ from load to load.
* `References`: files and results are values; decoding, the size of a file and drag
  and drop are left out.
* `AccountWarnings`, `CreditsView`: the service's queries with their limits and
  offsets, and the handlers that merge the answers. Entries that are credited while
  the page is open shift the offsets; what the lists may not lack are entries older
  than their first row (`GonePast`).
* `AdminConsole`: a row has one text field, the switch and its health; the load of
  all lists is one object that concurrent callers join, with its three stages.
* `AdminUsers`: adjustments are of one amount and counted per user.
* `AdminGallery`: images are numbers, the newest first; they come, and they go with
  their users (`ImagesGo`, `DeleteUser`). An answer's offset is taken as the page takes
  it (`Taken`, `payload.offset || offset`): the 0 of an answer that fell back to the
  first page does not replace the offset that was asked for. The range that is shown is
  then wrong ("3-2"), so `PagerIsTrue` reads the offset only when there are several pages.
* `AdminRules`: a rule is its text and its switch; a row remembers what was typed in
  it until the next rendering, which also forgets the disabled buttons.
* `CallSquare`: a key is blank, the mask, or a real one; the text of the form is
  valid or not.

### The older backend

`NestTasks`: a request's steps are its statements and its call of `queue.add`; a
job of BullMQ is waiting, delayed, active, failed or gone, is delivered again when
its worker stalls, and gives up at its second stall; `runs` are the workers, also
those whose job has been given to another. Statements of different transactions
interleave, so a value that was read may be old when it is written (whether a task
has been refunded, the gateway's failure count). `disturbed` marks the tasks whose
`queue.add` was reported as failed although the job exists: the code fails and
refunds such a task while a worker has it.

The recovery at the start goes from task to task: `FindPending` reads them, `ResetTask`
sets one that was read as `processing` to `queued`, `AddRecovered` adds its job; between
these steps the worker, which has started before, takes waiting and stalled jobs
(`image.module.ts` 18-21, `image.service.ts` 292-305). Requests come afterwards
(`Serving`). A task whose stalled job is delivered after the read and ends before the
reset is queued with a job that has ended, and BullMQ adds no second job of its id: it is
`Stranded`. `MoneyFollowsStatus` and `EveryTaskEnds` leave such tasks out.

`NestAccounts`: registration behind an in-memory captcha, `redeem`, `patchCode`,
`deleteCode` and the disabling of administrators, one step per `await`, unique
indexes at the write.

### MCParts

The parts of the pages, the codes, the rules, the gateways, the administrators and
the older backend are modelled without state that they share, so they are checked
next to each other in one run: an initial state chooses a part (`part`), which alone
takes steps. `Workspace` is EXTENDed with its own variables;
the others are INSTANCEs whose variables are `x1` to `x15` in the order of their
declarations, and what a part does not use keeps its value. The reachable states of a
part are exactly those of its module under the constants of its INSTANCE, and a
property of a part is guarded by `part = ...`. The parts are instances of the proof
modules, so that `PartsProofs` can cite the theorems under the constants of the parts.
A proof module holds the theorems of several components, each with its constants and
variables, and an instance of it is several parts: `Service` and `Contest` are
`ServiceProofs` (the codes, with the rules as `Filter` and the gateways as `Health`),
`Pages` is `PagesProofs` (`Options` is `Composer`, `Tray` is `References`, `Warning` is
`AccountWarnings`, `Credits` is `CreditsView`, `People` is `AdminUsers`, `Gallery` is
`AdminGallery`, `RulesTab` is `AdminRules`, `Channel` is `CallSquare`, `Staff` is
`Administrators`), `Console` and `Table` are `ConsoleProofs`, `Older` is `NestProofs`
(`NestAccounts`, with `NestTasks` as `Gen`), `Failing` and `Switching` are
`WorkspaceProofs`. A part uses the variables of one component of its instance.

## 3. Runs

All bounds are constants in the `.cfg` files or in the INSTANCEs of `MCParts`.
`CHECK_DEADLOCK FALSE` is used where the system may really stop: every task settled
and no request to come, or a user who does nothing more.

| Run | Instance | Shows |
|---|---|---|
| `ledger_money` | 3 tasks (2 with one key), 2 threads, price 2, 3 credits, adjustments of 1 either way | `SettledExactlyOnce`, `CreditsConserved`, `OneTaskPerKey`, `HoldNeverOverdraws`, `SettledIsFinal`, `ImplementsCreditAccount` |
| `ledger_images` | 1 task of 2 images, 2 threads, stored and external urls | `LedgerInvariant`, `SuccessDelivers`, `RowsKeptUntilFailure` |
| `ledger_retry_gap` | 1 task of 2 images, 1 thread | **violates** `EveryImageIsKept` |
| `queue_steady` | 1 instance, 2 workers, 2 clients, 2 tasks, 3 attempts (the default), no repeated request, fair | `TypeOK`, `NothingForgotten`, `AttemptsBounded`, `DeadLettersHaveFailed`, `NothingHeldAfterwards`, `EventuallySettled` |
| `queue_bounds` | 2 instances, 2 workers, 2 clients, limit 1, slow finish, repeated requests; one task to come and an instance late, a failing call anywhere, a crash anywhere, or a slow heartbeat; or a worker lost and two tasks to come, both queued or one of them sync | `OneWorkerPerTask`, `WithinLimit` |
| `queue_late_start` | 2 instances (one late), no fault | **violates** `DeadLettersHaveFailed` |
| `queue_restart` | 1 instance, 1 worker, 1 crash | **violates** `RecoveredAtStart` |
| `queue_forgotten` | 1 instance, 2 workers, 1 client that repeats its request, 1 task, 3 attempts, no fault | **violates** `NothingForgotten` |
| `parts` | 21 parts, 2.2 million states together | the safety properties of the pages, the rest of the service and the older backend, below |
| `parts_settle` | 5 parts, fair | `PollingEnds`, `CachesCatchUp`, `LoadedWarningsDrain`, `EveryTaskEnds` |
| `last_admin` | 2 administrators, 2 requests, no restart | **violates** `AdminRemains` |
| `rules_in_effect` | 2 rules, one of them enabled before, 2 checks, no change | **violates** `RulesInEffect` |

What `parts` checks of each part (`PartsTypeOK` is the conjunction of their type
invariants):

| Part | Instance | Properties |
|---|---|---|
| page | 1 user, 2 tasks (one of an earlier visit), 2 clicks of submit, select, history | `OneTimer`, `PageKeepsWaiting` |
| failing page, switching page | 1 task, 1 lost call; 2 users who sign in and out | `PageKeepsWaiting` |
| composer | 2 gateways of different price, 4 lists, 2 loads, counts below, in and above the range | `BriefIsTrue` |
| references | limit 2, 3 selections, 1 result, 3 requests | `TrayShowsFiles` |
| warnings | 3 warnings, 2 per answer, 2 refreshes, 1 lost call | `WarningsAreRead` |
| credits | 5 entries (2 of them earlier), pages of 1, 5 loads | `PagesAreTrue` |
| console, channels | 1 gateway, another administrator, 1 lost call; 3 gateways, one yet to be made | `TimerIsWanted`, `DraftsSurvive` |
| users | 2 users, 2 clicks, 1 change by others, 1 lost call | `BulkIsExact` |
| gallery | pages of 1 and 2, 3 images, 3 clicks, 1 lost call | `PagesAreTrue` |
| rules tab | 1 rule and 1 to be imported, 2 texts, 2 clicks, 1 change by others, 1 lost call | `PagesAreTrue` |
| callsquare | 3 clicks, 1 change by others, 1 lost call | `KeysAreReal` |
| nest tasks | 2 tasks of 2 images, 3 credits, 2 attempts, 1 crash, 1 failing call | `MoneyFollowsStatus` |
| nest accounts | 2 users, 2 codes of one activity, 2 captchas, 2 administrators | `GrantedOnce`, `OnlyRacesLockOut` |
| redemptions, codes tab | 2 users, 3 codes, 2 activities, 2 requests, 1 click; 1 user, 2 codes, 2 clicks; 1 lost call | `RedemptionsAreSound` |
| rules | 2 rules (one there), 2 checks, 1 change | `OnlyRacesSkip` |
| gateways, contested gateways | 2 gateways, 3 outcomes, threshold 2: 2 workers and 1 request; 1 worker and 2 requests | `GatewaysAreSound` |
| administrators | 2 (one of them seeded), 3 requests, 1 restart | `OnlyRacesLockOut` |

Why the bounds are enough to be interesting. Ledger: with price 2 and 3 credits
two orders compete for one balance, an adjustment decides between them, and two
of the three tasks share a key; two threads suffice for every pair of a request,
a worker, a late worker and a failing transaction, and attempts are unbounded.
Two images are the fewest for a partial result, a fallback and a gap. Queue: two
workers are the fewest that compete for a lock, and three attempts are what the
service is configured with: the last one, one that leaves a retry, and one between
two retries. Two tasks meet in the list and at the limit; each has its own keys.
`ListCap` stops repeated requests once the list has that many entries: it is 0 in
`queue_steady`, because what a repeated request can do is finding 4, and 1 or 2
elsewhere. `queue_bounds` spends its one crash, one error and one late start from
different beginnings, so that each is combined with every interleaving of the rest.
`MaxCrashes` and `MaxErrors` bound the faults, and `CreditCap` the adjustments.
Parts: the hazards of the pages are races of two handlers and of one handler with a
click, so two clicks (three where the first two only set the stage) beside loads
and timers that need none; two rows, tasks or users are the fewest that can be
mixed up; lists are one or two entries longer than a page. For codes, two
requests cover a redemption against a second one of the same user, code or
activity, and the click adds a deletion, a change or a creation that races both. For
the rules, two checks are the fewest of which one reads what the other stores, and
one change gives the invalidation that races them; for the gateways, three outcomes
reach the threshold and a success after it, by two workers or against two
administrators. The mutants show that the bounds reach the case each property is
about.

Fairness. `ImageQueue.FairSpec`: weak fairness for every thread (the JVM schedules
its threads, and a gateway call ends by its timeout), for delays and for leases. A
worker whose turn it is takes some step; which one is not assumed. Requests need
not come, and `EventuallySettled` is checked without faults. `FairPartsSpec`
(for five parts): a call that was sent is answered, an answer reaches
its handler, a timer fires (the event loop runs them), a task of the service
progresses, the older backend's requests, queue and worker go on, checks and changes of rules
progress, and the cache expires (a clock). Nothing is
assumed of the user, with one exception: a warning's dialog, which is modal, is
closed.
`EveryTaskEnds` excludes what the code gives up: a job that has stalled twice, and a
request that ended with an error after the task was stored.

### Findings

1. *A retry overwrites a delivered image* (`ledger_retry_gap`). `callGateway`
   numbers new images from the count of stored ones. If image 0 of a one-by-one
   fallback failed and image 1 was stored, the retry uses slot 1 again.
2. *A late instance makes a live task a dead letter* (`queue_late_start`).
   `recoverPendingTasks` requeues running tasks; the worker that finishes the last
   attempt reads `queued`, returns FAILED, and the task is buried while pending,
   with its credits held.
3. *A crash after BRPOP survives the restart* (`queue_restart`). The leftover in
   `image:waiting:set` makes `hasPendingQueueState` true, so neither the start nor
   a repeated request lists the task again.
4. *A repeated request makes a task forgotten* (`queue_forgotten`). It looks for the
   task while `releaseDueDelayed` moves it from the delayed set to the list, finds it
   nowhere, and its `forceWaiting` comes after the next attempt has scheduled a retry:
   it deletes the retry, and the entry that it lists instead is dropped by a worker
   that finds the task locked and active. The task stays queued, with its credits
   held, until a restart or another repeated request.
5. *Two administrators remove each other* (`last_admin`). The service refuses to remove
   the last usable administrator (`AdminService` 217 and 236), but `patchUser` and
   `deleteUser` count in one statement and write in another without a common lock: two
   requests both find one left. `parts` checks that only such races lock everybody out
   (`OnlyRacesLockOut`), there and in the older backend.
6. *A check may use the list from before the first load* (`rules_in_effect`).
   `loadActiveRules` reads the list, then its time, without a lock. A first check
   that overlaps another one's load returns the initial empty list, and a prompt that
   an enabled rule forbids passes.

### Observed, without a run

What the code does and no document, comment or test contradicts, so that there is
nothing for a run to refute; the first ones are notes of the hazards too.

* Administration page: the on/off switch of a gateway's row goes into the draft, but
  `rowPatch` collects only inputs with `data-field`; a save is confirmed, clears the draft
  and leaves the stored switch as it was; an edit typed while the save of its row is under way is
  dropped; a row is saved with all its inputs, also those that are stale; a late
  answer lists a deleted row again; `visibilitychange` arms the timer behind the
  locked panel; the drawer's switch keeps its label while its click inverts the
  current value; "enable all healthy" re-enables what another administrator has
  disabled meanwhile; a bulk adjustment that fails in the middle and is repeated
  pays the first users twice; codes whose creation is answered after a load are
  listed twice; a failed page of the gallery leaves the offset ahead, and one that fell
  back to the first page shows a range that begins beyond its end; a late read of
  the channel's settings overwrites the form being typed; what is typed in a row of the
  rules is lost at the next rendering; a lost answer of an import leaves its box
  ticked; while a load waits for the settings of the call square, a rule's button
  shows the old list and its click inverts the new one.
* Workspace page: two polls of one job that overlap (submit A, open A from the
  history, submit B, then C) can each announce its completion, with the flag of B and of
  C, and the first of them ends the wait for B (`script.js` 1304-1315); the announcements
  stay within the number of submissions (`ToastsAreCovered`); a poll of the first of two jobs that ends stops the polling of the
  second until the list is loaded again; files added while a submission waits for
  its answer are dropped; a warning's dialog closes although the acknowledgement
  failed; a double click on "more" skips a page of credits (`CreditsView` with
  `Patient = FALSE`).
* Older backend: two concurrent `createTask` overspend; reference files are stored
  after the transaction, so a crash between the two leaves a task that is generated
  without them after a restart; a lost answer of `queue.add` fails and refunds a task
  that runs (`disturbed`); `recordGatewayFailure` writes back a stale count; `redeem`
  may exceed `maxUses`; two racing `patchUser` may leave no administrator (`raced`); a
  recovery that comes after a redelivered job has ended strands the task (`Stranded`).
* Java service: an error of Redis between the ZREM and the LPUSH of
  `releaseDueDelayed` forgets a due retry, and one between `moveToDead` and `failTask`
  leaves a dead letter pending; `patchCode` checks the uses of a code before it locks the row, so a
  code may change its activity after it was redeemed; `patchGateway` ignores the
  `disabledUntil` that the page sends (`admin.js` 2711-2733) and writes back a stale
  count; failed health checks never open the cooldown; an alert for a rule that was
  deleted meanwhile cannot be stored, and the prompt is refused with an error;
  `seedAdmin` does not enable a disabled seed account again; a request that read an
  account while it was disabled may remove the last one that is enabled when it writes;
  sync requests exceed the queue limit, and a sync task that is listed while its request
  runs it becomes a dead letter that may still succeed; a deleted user's task may still
  call a gateway that is deleted too; a late heartbeat leaves an entry of a settled task
  in `image:active:started`.

## 4. Proofs

Everything below holds for every value of the constants that satisfies the named
assumption of the module: any number of tasks, threads, instances, gateways, codes and
rules, any prices, limits and numbers of faults. `ledger`, `queue` and `parts` name the
runs in which TLC has checked the same invariants on small instances.

### The ledger: `TaskLedgerProofs`

From `TasksAssumption`, `ThreadsAssumption` and `CreditsAssumption`:

* `Invariance`: `Spec => []LedgerInvariant`;
* `TypeCorrect`, `SettledOnce`, `PaidIsDelivered`, `Idempotent`: its conjuncts;
* `NoOverdraft`, `SettledForGood`, `RowsAreKept`: the action properties;
* `Conserved`: `Spec => []CreditsConserved`;
* `Refinement`: `Spec => ImplementsCreditAccount`.

The properties are not inductive alone. `SettledExactlyOnce` survives
`FailCommit` only if the task is still pending then: `RowLocked` says that the
thread in the middle of a failing transaction owns the row, and all other writers
of the status wait for that lock. `HoldNeverOverdraws` needs the balance that was
read to be the balance when the hold is inserted: `WalletLocked` says so, and
every writer of a wallet waits for its lock. `SuccessDelivers` needs
`ReadyToSettle`: a thread about to complete a pending task has counted enough
images, and only the step that fails the task removes any. `OneTaskPerKey` needs
`CreatorsAlone`, since a creator's row must still be absent. `LedgerInvariant` is
the conjunction, `ledger_images` checks it, and the proof has a lemma per action
or per kind of action. For the refinement the account of a task is `none` without
a hold, `refunded` with a refund, `charged` when it is a success and `held`
otherwise; `AccountFacts` derives it from the status by `SettledExactlyOnce`, and
each step is a `Hold`, `Charge`, `Refund` or `Adjust`, or changes nothing.

`CreditsConserved` is about a sum over the tasks that have a price to pay. What the
sum of a set with one task more or less is (`PriceAdds`) would be an induction over
the set; it is proved by a smallest counterexample instead (`Smallest`): the sets for
which the recursive definition behind `Price` and the sum differ have a least
cardinality, and the set without the task that the definition chooses is a smaller
one. `Balanced` then follows each wallet through the steps that hold, charge and
refund.

### The queue: `ImageQueueProofs`

From `QueueAssumption`:

* `Invariance`: `Spec => []QueueInv`, with `TypeCorrect`, `OneWorker`
  (`OneWorkerPerTask`) and `AttemptsAreBounded`, whatever crashes, fails or starts late;
* `LimitHolds`: `Spec => [](crashes = 0 => WithinLimit)`;
* `NothingIsHeld`: `Spec => [](NoFaults => NothingHeldAfterwards)`;
* `DeadLetters`: `DeadLettersHaveFailed`, without faults and late instances;
* `NothingIsForgotten`: `NothingForgotten`, without faults, late instances, repeated
  requests (`ListCap = 0`), slow finish and slow heartbeats.

`SyncTasks` and `SlowBeats` are any sets of tasks; the properties say what they do not
promise of them.

The conditions are what the code needs. A crash of a request that was about to refuse
its task lets the task in, so `WithinLimit` is about executions without one (TLC checks
it also with a crash, where what was created before the crash keeps the limit).
`queue_late_start` shows what a late instance does to dead letters, and
`queue_forgotten` what a repeated request does to a retry; an error between two
commands of one procedure leaves either half done.

`QueueInv` has four parts. `Typed` has, beside the types, `ThreadOK`: which commands a
thread may still have to run at which label, that only a worker that took the lock is
at a label behind it, and that DEL of the lock is the last command of its script
(`Scripts`). `Hosted`: the threads of an instance that is not up are down.
`LocksHeld`: a worker that took the lock and has not yet deleted it is the one that the
lock names. That is inductive because the lock expires only without such a worker and
only its owner deletes it, and two workers at the gateway for one task would both be
named. `AttemptsCounted`: a task that has used up its attempts and is not settled is
with the worker that makes the last one, and that worker knows the number.

Without faults more is known. `HeldByWorkers`: what Redis shows of a task (lock,
active, and start time but for slow heartbeats) belongs to a worker that still has the
command to remove it.
`DeadInv`: all instances are up; every task that is listed, delayed or in a thread has
a row; a row in processing has a worker at the gateway, so that nobody else moves it
and what `processOnce` reads back is what it has written; and a script that buries a
task belongs to a failed one. `ForgetInv`: a task is enqueued once, by the request that
created it (`OneRequestPerTask`), and is in `image:queued` from then until it is settled
(`QueuedOrWaiting`); a thread that is to remove it from `image:queued` or
`image:delayed` has a settled task, and a worker that is through with a pending one has
its retry in Redis, not yet due (`SoundScript`); so a pending task is always carried by
Redis or with a thread that will give it back (`InGoodHands`). The step that needs
all of it is `Postpone`: a worker drops a task that another one shows as active, and the
other one, by `HeldByWorkers` and `SoundScript`, is still working on it or has
scheduled its retry.

### The gateways, the rules and the codes

`ServiceProofs` proves, from `GatewayHealthAssumption`: `CalledGatewaysExist`
(`CalledGatewayExists`) and `HealthEarned` (`HealthIsEarned`). The invariant says that
a task has a gateway whose row is there (the foreign key), that who is about to call,
calls or has called one uses that of its task as long as the task is there, that a patch writes a row it has read of
a gateway that was there, and that a gateway which is not made yet has no history.
`GatewayTypeCorrect` (`TypeOK`) adds `Counts`: no row, no row that a patch has read and
will write back, and no streak counts more failures than outcomes were recorded.

From `SensitiveRulesAssumption`: `OnlyTornSkip`, that a
rule nobody touches is skipped only by a check that read list and time torn apart.
`TimeIsOfList` is the heart: a time that counts is that of a list with all such rules,
or an invalidation has thrown the list away and left the time. `FilterTypeCorrect`
(`TypeOK`) adds `OneLoader`: the check that reads the rows, and stores the list and its
time, is the one that holds the monitor.

From `RedemptionAssumption`: `BooksAlwaysAgree`:
`Spec => []BooksAgree` and `RedemptionsSound`: `Spec => [][Sound]_vars`.
Beside the books themselves
(`Tables`, `UsesAreUnique`, `PaidForUses`) the invariant has what the transactions
know: `RowsAreLocked`, that what a redemption has read of a code still holds while
it has the row's lock, and that it is alone with it; and `DeletionKnows`, that a
redemption which a deletion has not seen has left a wallet entry that keeps the
deletion from committing, so that a deletion that commits has locked every code
that names its user. The cardinalities of `BooksAgree` go through one bijection
(`SameNumber`), for a deleted code whose uses lose their code but not their number.
`RedemptionTypeCorrect` (`TypeOK`) adds `Types`. No foreign key guards the user of a use
or the names in the array of a code, and yet they are users there are
(`UsersAreThere`): `redeem()` locks the row of its user, and a deletion that commits has
removed what it names. Of the tab: what a call has read or brings is a list of codes, and
there are some when they are offered for copying (`TabIsSound`, `CallsCarryRows`). The
codes are assumed to be finitely many, as an answer lists them; `Without` builds the
list without one of them by its increasing positions, which the provers can follow
where they cannot follow `SelectSeq`.

### Administrators and the older backend

`PagesProofs` proves, from `AdministratorsAssumption`, `LockoutsAreRaces`:
`Spec => []OnlyRacesLockOut`. What a request has found out is `StillSo` until a write
overtakes it: one that has counted is not about to remove the last administrator, and
one that needed no count removes nobody. A write that leaves no administrator makes
that untrue of its own request, so it was overtaken. The proof is about any number of
requests; the run has three, and overtaking by an enabling takes a fourth (one
disables an account, one reads it, one enables it, one removes the other account).

`NestProofs` proves, from `NestAccountsAssumption`, `GrantedOnceAlways`
(`GrantedOnce`), `LockoutsAreRaces` (`OnlyRacesLockOut`) and `TypeCorrect`. The invariant
has three parts that no step changes together. `SignupInv`: who is between the captcha and the
insert has used the captcha up (`HeldCaptcha`), so no other registration has it.
`RedemptionInv`: whoever is in the array of a code, the stored one or one that was read
to be written back, has a use of it (`ArraysAreTrue`) as long as the code is there, so
that only who has redeemed is refused as such; and a grant is written with a use.
`AdminInv`: what was counted holds until a race.

Of the tasks it proves, from `NestTasksAssumption`, `MoneyAlwaysFollows`
(`MoneyFollowsStatus`) and `TasksTypeCorrect`. `GenerationInv` says of every task:
`RunsAlone`, that it has one worker at most, which is the request that runs it itself,
without a job, or the one to whom the queue has given its job; `JobIsOfTask`, that a
job is added only by the request that has counted the jobs, or at a start; `RecoveryKnows`,
that a start finds no request under way; and, for a task that is not `disturbed`,
`Undisturbed`: a request that is to fail its task is alone with it, who is past the first
read of `processTask` has a task that is not settled, with no refund and no usage record
(`Accounted`), and a task that was settled after the recovery had read it has a job that
has ended, so that the reset strands it and nobody runs it again. So the read that
`failTask` makes before its transaction is never old, although nothing locks the row:
one worker at a time is what the money rests on, and a job that was added by a call
that was reported as failed is what breaks it.

### The pages: `PagesProofs`, `ConsoleProofs`

Each from the assumption of its module, for any users, files, rows, lists and answers in
any order; the theorems include the type invariants.

* `TrayAlwaysTrue` (`References`): every handler leaves the tray, the previews and the
  object URLs of the files that are kept, of which there are not too many (`TrayOf`), and
  a payload was made of such files.
* `DraftsAlwaysSurvive` (`AdminConsole`): `KeepsDrafts` and `TimerIsWanted`. Edits are of
  gateways that the list has, except while a load has replaced the list and waits for
  the settings (`TableInv`).
* `BulkAlwaysExact` (`AdminUsers`): at every moment of a bulk adjustment the users who
  have been given the amount are those it was asked for and no longer has to do, and the
  one of the call that was answered (`BulkInv`).
* `KeysAlwaysReal` (`CallSquare`): the mask may be in the form, in the reads and in the
  calls under way, never in what is stored (`KeysInv`): a save of the masked form keeps
  the stored key.
* `PagerAlwaysTrue` (`AdminGallery`): an answer has the images of the range that it names,
  and the page is one of these, less the images that a deleted user has taken along,
  whenever no call is under way. Assumed of
  the sizes: there is a largest.
* `ButtonsAlwaysTrue` (`AdminRules`): there is one import at a time, and the box and the
  import under way stand for at most one tick that has not been used up (`BoxInv`).
* `PriceAlwaysTrue` (`Composer`): the brief is always what would be computed of the
  options as they are (`BriefTold`), and a square is never of a quality that it cannot
  have (`Agrees`), so the service does not charge another size.
* `WarningsAlwaysRead` (`AccountWarnings`): the warning of the dialog, and every warning
  that is being acknowledged, was shown.
* `CreditsAlwaysWhole` (`CreditsView`), when "more" is clicked once at a time
  (`Patient`): the rows of a list have no gap below the first (`NoGap`) and reach down to
  where its offset points (`ShownAbove`); an answer under way is a run of the history
  that begins no lower (`ArrivalInv`), although new entries have moved the offset. Of
  entries newer than the first row nothing is claimed: with pages of one, two earlier
  entries and three new ones the rows become 2, 4, and 3 is not shown. The attempt to
  prove a stronger property found this beyond the bounds that the run then had.

### The workspace page: `WorkspaceProofs`

`OneTimerAlways`: `Spec => []OneTimer`, for any users, tasks, gestures, clicks and
failures. `OneTimer` is not inductive: a function of the script clears the timer that
`pollTimer` names, so it must be known that no other is armed. `TimerInvariance` says so
(`TimerKnown`: the armed timers are at most the one of `pollTimer`, and it exists only
while a job is waited for), and the proof goes through the functions of the script one
by one (`StopKnown`, `StartKnown`, `ScheduleKnown`, `HydrateKnown`, ...), then through
the handlers that are composed of them.

From `WorkspaceAssumption`, `WorkspaceTypeCorrect` (`TypeOK`) and `ToastsAlwaysCovered`
(`ToastsAreCovered`). `PageInv` types the page, the bag of requests and the
server, with the tasks that exist as a parameter, so that what holds for them holds when
there are more. `AnnounceInv` is an account: whatever may still announce a completion is
a token (the page's flag, a request that carries the flag, an answer to a submission that
the page has not seen), and tokens and announcements together are never more than the
tasks that were submitted. A function of the script hands its token on or drops it, and
only the service's answer to a submission makes one, with a new task. The tokens of a bag
are pairs of a request and a number, so that their sum is a cardinality and needs no
induction.

`WaitingAlwaysPolls` (`WaitingIsPolling`) also assumes `Undisturbed`: no request fails
and nobody signs in or out, as in the part that the property is checked of (a poll that
fails for good ends the waiting, and so does another account). `SessionInv` says that
everything the page holds and has under way is of the account of the cookie, so that no
answer is an error, and that a job is waited for only with a timer or a poll under way.

### Brought to the parts: `PartsProofs`

A behaviour keeps the part that its initial state chose (`PartStays`), and is then one of
the part's module under the constants of its INSTANCE (`ComposerPart`, `TrayPart`, ...),
so the theorems apply: `GatewaysSound`, `RacesSkip`, `AllRedemptionsSound`,
`GrantedOnceToAll`, `MoneyFollows`, `RacesLockOut`, `TrayShows`, `TimerWanted`,
`DraftsKept`, `BulkExact`, `KeysReal`, `PriceTrue`, `WarningsRead`, `PagesTrue`,
`PageWaits` and `PartsTypeCorrect` prove of `PartsSpec` the properties that the run `parts` checks. The
assumptions of all parts are `PartsAssumption`, which TLC evaluates on the run.

### Conventions

A step that needs a least number (the first row that is missing, the newest entry) cites
`WFMin` and `NatLessThanWellFounded`, as induction theorems have an operator for a
parameter. A proof module covers several components where their theorems are cited
together.

### Only model-checked

Liveness (`EventuallySettled`, the properties of `parts_settle`) and whatever needs
ENABLED are out of the prover's reach. `RecoveredAtStart` and the other properties that
a run refutes are not theorems. Every safety property that a passing run checks is one.

## 5. Not modelled

* *Gateways*: which usable gateway comes first, exclusive users and keys, addresses,
  models and prices.
* *Rules*: pattern matching, a change of a pattern (in the service; the tab has it),
  risk alerts.
* *Upstream calls, image storage*: HTTP, JSON, files and S3; the ledger has their
  outcomes and the names of images.
* *Rate limits, captcha of the service*: counters of a minute that are approximate
  by design, a captcha that one GETDEL uses up.
* *API keys, sessions*: signatures and hashes; no state that interleaves.
* *Metrics, readiness, galleries*: read-only views.
* *Registration and sessions of the Java service*, seeding of plans and gateways: one
  writer each.
* *Pages*: rendering, charts, the system, alerts and logs tabs, the sign-in
  dialog and the home page, which keep no state beyond the last answer.
* *A process that pauses longer than its lease*: `ImageQueue` assumes that a heartbeat
  renews the lock of a live worker in time.

## 6. What is left, in order

1. The composition of queue and ledger in one specification (the refunds of dead
   letters, the result of a sync task that was buried), with the abstract task life
   cycle that both implement.
