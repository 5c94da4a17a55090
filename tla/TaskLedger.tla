----------------------------- MODULE TaskLedger -----------------------------
(***************************************************************************)
(* The PostgreSQL side of the image gateway: image tasks, their results,   *)
(* their usage records and the wallet entries that pay for them, changed   *)
(* by the threads of one or more server instances (ImageService, the       *)
(* controllers that call it, and the database steps of QueueService).      *)
(*                                                                         *)
(* A thread is either serving a request or running a worker's turn.  Every *)
(* autocommitted statement is one step.  A transaction is one step when    *)
(* nothing that others do can tell its statements apart, and otherwise the *)
(* statement that takes the row lock is one step and the commit another:   *)
(* createTaskRecord (wallet lock) and failTaskInTransaction (task row      *)
(* lock).  Isolation is READ COMMITTED: others read the last committed     *)
(* row, and an UPDATE waits for the row's lock.                            *)
(*                                                                         *)
(* Redis is not here: a worker may turn up for any queued task at any      *)
(* time, as it may after a lost lock, a restart or a repeated request.     *)
(***************************************************************************)
EXTENDS Integers, FiniteSets, FiniteSetsExt

CONSTANTS
  Users,           \* customers, each with one wallet
  Tasks,           \* task identifiers; each is drawn by one create request
  Keys,            \* idempotency keys (apiKeyId, requestId)
  NoKey,           \* a request without one
  Threads,         \* request and worker threads of all instances
  NoThread, NoTask,
  ExternalUrls,    \* images the upstream provider serves from its own URLs
  Owner,           \* Owner[t]: the user who pays for t
  Key,             \* Key[t]: the idempotency key of the request that draws t
  ImageCount,      \* ImageCount[t]: images ordered
  Cost,            \* Cost[t]: credits of the whole order
  InitialCredits,  \* InitialCredits[u]: signup bonus or seed entry
  Adjustments,     \* amounts of credits() and redeem() entries
  CreditCap        \* bound of the model on the entries of other kinds

ASSUME TasksAssumption ==
  /\ NoTask \notin Tasks
  /\ Owner \in [Tasks -> Users]
  /\ Key \in [Tasks -> Keys \cup {NoKey}]
  /\ NoKey \notin Keys
  /\ \A s, t \in Tasks : Key[s] = Key[t] /\ Key[t] # NoKey => Owner[s] = Owner[t]
  /\ ImageCount \in [Tasks -> Nat \ {0}]
  /\ Cost \in [Tasks -> Nat \ {0}]

ASSUME ThreadsAssumption == NoThread \notin Threads

ASSUME CreditsAssumption ==
  /\ InitialCredits \in [Users -> Nat]
  /\ Adjustments \subseteq Int
  /\ CreditCap \in Nat

VARIABLES
  status,      \* ImageTask.status; "none" before the row exists
  results,     \* urls of the task's ImageResult rows
  hold,        \* amount of the task's generation_hold entry, 0 if absent
  refund,      \* amount of the task's generation_refund entry, 0 if absent
  usage,       \* the task's UsageRecord
  wallet,      \* SUM(amount) over all entries of the user
  credited,    \* SUM(amount) over the entries that belong to no task
  walletLock,  \* the thread whose transaction holds the User row FOR UPDATE
  rowLock,     \* the thread whose transaction has updated the ImageTask row
  th           \* what each thread is doing

database == <<status, results, hold, refund, usage>>
money == <<wallet, credited>>
locks == <<walletLock, rowLock>>
vars == <<database, money, locks, th>>

-----------------------------------------------------------------------------
(* Types *)

Terminal == {"success", "failed"}
Pending == {"queued", "processing"}
Statuses == {"none"} \cup Pending \cup Terminal

Labels == {"idle", "creating", "opening", "opened", "loaded", "claimed",
           "calling", "returned", "settling", "requeueing", "failing",
           "deleting", "rescue"}

\* How many of the callers above the current step still catch an exception:
\* a request none, a worker's turn processOnce and then workerLoop.
Rungs == {"request", "worker", "rescue", "giveUp"}

\* StorageService names a stored image after its variant index.
Stored(i) == <<"stored", i>>
External(x) == <<"external", x>>
Urls == ({"stored"} \X Nat) \cup ({"external"} \X ExternalUrls)

Usage == [outcome : {"none", "success", "failed"}, credits : Nat]

Thread == [pc      : Labels,
           job     : Tasks \cup {NoTask},
           final   : BOOLEAN,       \* attempt >= maxAttempts
           rung    : Rungs,
           balance : Int,           \* walletBalance as read when creating
           cursor  : Nat,           \* variant index of the next image
           kept    : Nat,           \* images persisted by this gateway call
           singles : BOOLEAN,       \* callGatewayOneByOne
           doomed  : SUBSET Urls]   \* rows deleted by the open transaction

Idle == [pc |-> "idle", job |-> NoTask, final |-> FALSE, rung |-> "request",
         balance |-> 0, cursor |-> 0, kept |-> 0, singles |-> FALSE,
         doomed |-> {}]

(* The rows, the locks and the threads. *)
TypeOK ==
  /\ status \in [Tasks -> Statuses]
  /\ results \in [Tasks -> SUBSET Urls]
  /\ \A t \in Tasks : IsFiniteSet(results[t])
  /\ hold \in [Tasks -> Nat]
  /\ refund \in [Tasks -> Nat]
  /\ usage \in [Tasks -> Usage]
  /\ wallet \in [Users -> Int]
  /\ credited \in [Users -> Int]
  /\ walletLock \in [Users -> Threads \cup {NoThread}]
  /\ rowLock \in [Tasks -> Threads \cup {NoThread}]
  /\ th \in [Threads -> Thread]

Init ==
  /\ status = [t \in Tasks |-> "none"]
  /\ results = [t \in Tasks |-> {}]
  /\ hold = [t \in Tasks |-> 0]
  /\ refund = [t \in Tasks |-> 0]
  /\ usage = [t \in Tasks |-> [outcome |-> "none", credits |-> 0]]
  /\ wallet = InitialCredits
  /\ credited = InitialCredits
  /\ walletLock = [u \in Users |-> NoThread]
  /\ rowLock = [t \in Tasks |-> NoThread]
  /\ th = [p \in Threads |-> Idle]

-----------------------------------------------------------------------------
(* Steps of a thread *)

At(p, label) == th[p].pc = label
Become(p, thread) == th' = [th EXCEPT ![p] = thread]
Goto(p, label) == Become(p, [th[p] EXCEPT !.pc = label])
Leave(p) == Become(p, Idle)

\* An UPDATE of the task's row can proceed.
RowFree(t) == rowLock[t] = NoThread

Delivered(t) == Cardinality(results[t])

-----------------------------------------------------------------------------
(* Creating a task: createInternal, generateInternal, createTaskRecord *)

\* A new request with the identifier it will draw.  A known idempotency key
\* answers with the existing task (and ensureQueued, which is Redis's).
StartCreate(p, t) ==
  /\ At(p, "idle")
  /\ status[t] = "none"
  /\ \A q \in Threads : th[q].job # t
  /\ Key[t] = NoKey \/ \A s \in Tasks : Key[s] = Key[t] => status[s] = "none"
  /\ Become(p, [Idle EXCEPT !.pc = "creating", !.job = t])
  /\ UNCHANGED <<database, money, locks>>

\* Variant: the balance is read without locking the wallet.
OpenWallet_NoLock(p) ==
  /\ At(p, "creating")
  /\ Become(p, [th[p] EXCEPT !.pc = "opening",
                             !.balance = wallet[Owner[th[p].job]]])
  /\ UNCHANGED <<database, money, locks>>

\* lockUserWallet, then walletBalance.
OpenWallet(p) ==
  LET u == Owner[th[p].job] IN
  /\ At(p, "creating")
  /\ walletLock[u] = NoThread
  /\ walletLock' = [walletLock EXCEPT ![u] = p]
  /\ Become(p, [th[p] EXCEPT !.pc = "opening", !.balance = wallet[u]])
  /\ UNCHANGED <<database, money, rowLock>>

\* The transaction of createTaskRecord ends without a row.
AbandonCreate(p) ==
  /\ walletLock' = [walletLock EXCEPT ![Owner[th[p].job]] = NoThread]
  /\ Leave(p)
  /\ UNCHANGED <<database, money, rowLock>>

RejectCreate(p) ==
  /\ At(p, "opening")
  /\ th[p].balance < Cost[th[p].job]
  /\ AbandonCreate(p)

\* Variant: no such index.
KeyTaken_NoIndex(t) == FALSE

\* The partial unique index on (apiKeyId, requestId).
KeyTaken(t) ==
  /\ Key[t] # NoKey
  /\ \E s \in Tasks : Key[s] = Key[t] /\ status[s] # "none"

\* The INSERT violates the index.  The handler's SELECT runs in the aborted
\* transaction and fails as well: the request ends with an error.
DuplicateCreate(p) ==
  /\ At(p, "opening")
  /\ th[p].balance >= Cost[th[p].job]
  /\ KeyTaken(th[p].job)
  /\ AbandonCreate(p)

\* The row, its hold, and the commit.
InsertTask(p) ==
  LET t == th[p].job
      u == Owner[t] IN
  /\ At(p, "opening")
  /\ th[p].balance >= Cost[t]
  /\ ~KeyTaken(t)
  /\ status' = [status EXCEPT ![t] = "queued"]
  /\ hold' = [hold EXCEPT ![t] = Cost[t]]
  /\ wallet' = [wallet EXCEPT ![u] = @ - Cost[t]]
  /\ walletLock' = [walletLock EXCEPT ![u] = NoThread]
  /\ Become(p, [Idle EXCEPT !.pc = "opened", !.job = t])
  /\ UNCHANGED <<results, refund, usage, credited, rowLock>>

\* queueTask: Redis took the task, and the request is answered.
EnqueueTask(p) ==
  /\ At(p, "opened")
  /\ Leave(p)
  /\ UNCHANGED <<database, money, locks>>

\* queueTask: Redis refused or did not answer (it may hold the task anyway).
EnqueueFails(p) ==
  /\ At(p, "opened")
  /\ Goto(p, "failing")
  /\ UNCHANGED <<database, money, locks>>

-----------------------------------------------------------------------------
(* processTask, on a request's thread (sync mode) or a worker's *)

\* response_mode "sync": processTask(id, 1, 1) on the request's own thread.
StartSync(p) ==
  LET t == th[p].job IN
  /\ At(p, "opened")
  /\ IF status[t] = "queued"
     THEN Become(p, [th[p] EXCEPT !.pc = "loaded", !.final = TRUE])
     ELSE Leave(p)
  /\ UNCHANGED <<database, money, locks>>

\* processOnce and processTask have read the row as queued.
PickUp(p, t) ==
  /\ At(p, "idle")
  /\ status[t] = "queued"
  /\ \E final \in BOOLEAN :
       Become(p, [Idle EXCEPT !.pc = "loaded", !.job = t,
                              !.final = final, !.rung = "worker"])
  /\ UNCHANGED <<database, money, locks>>

\* activeGatewayForTask finds none: GATEWAY_UNAVAILABLE.
NoGateway(p) ==
  /\ At(p, "loaded")
  /\ Goto(p, "failing")
  /\ UNCHANGED <<database, money, locks>>

\* UPDATE ... SET status = 'processing' WHERE status = 'queued'.
Claim(p) ==
  LET t == th[p].job IN
  /\ At(p, "loaded")
  /\ RowFree(t)
  /\ IF status[t] = "queued"
     THEN /\ status' = [status EXCEPT ![t] = "processing"]
          /\ Goto(p, "claimed")
     ELSE /\ Leave(p)
          /\ UNCHANGED status
  /\ UNCHANGED <<results, hold, refund, usage, money, locks>>

\* Results of earlier attempts count; the gateway is asked for the others.
CountExisting(p) ==
  LET t == th[p].job IN
  /\ At(p, "claimed")
  /\ IF Delivered(t) >= ImageCount[t]
     THEN Goto(p, "settling")
     ELSE Become(p, [th[p] EXCEPT !.pc = "calling", !.kept = 0,
                                  !.cursor = Delivered(t), !.singles = FALSE])
  /\ UNCHANGED <<database, money, locks>>

\* The gateway rejects a batch: one request per missing image instead.
FallBackToSingles(p) ==
  /\ At(p, "calling")
  /\ ~th[p].singles /\ th[p].kept = 0
  /\ th[p].cursor + 1 < ImageCount[th[p].job]
  /\ Become(p, [th[p] EXCEPT !.singles = TRUE])
  /\ UNCHANGED <<database, money, locks>>

\* persistGatewayResult, one row: a conflicting row is updated in place, and
\* nothing is inserted once the task is no longer processing.
PersistImage(p) ==
  LET t == th[p].job IN
  /\ At(p, "calling")
  /\ th[p].cursor < ImageCount[t]
  /\ IF status[t] = "processing"
     THEN \E url \in {Stored(th[p].cursor)} \cup {External(x) : x \in ExternalUrls} :
            results' = [results EXCEPT ![t] = @ \cup {url}]
     ELSE UNCHANGED results
  /\ Become(p, [th[p] EXCEPT !.cursor = @ + 1, !.kept = @ + 1])
  /\ UNCHANGED <<status, hold, refund, usage, money, locks>>

\* An image that did not come: a failed single request, or one short of the
\* batch (a batch without any image is an error, see CallFails).
SkipImage(p) ==
  /\ At(p, "calling")
  /\ th[p].cursor < ImageCount[th[p].job]
  /\ th[p].singles \/ th[p].kept > 0
  /\ Become(p, [th[p] EXCEPT !.cursor = @ + 1])
  /\ UNCHANGED <<database, money, locks>>

EndCall(p) ==
  /\ At(p, "calling")
  /\ th[p].cursor >= ImageCount[th[p].job]
  /\ Goto(p, "returned")
  /\ UNCHANGED <<database, money, locks>>

\* The catch block of processTask: retry while attempts are left.
AfterError(p, retryable) ==
  Goto(p, IF retryable /\ ~th[p].final THEN "requeueing" ELSE "failing")

\* callGateway throws: a storage error in any mode, an upstream error before
\* the first row of a batch, a database error at any row of a batch.
CallFails(p) ==
  /\ At(p, "calling")
  /\ \/ /\ th[p].singles \/ th[p].kept = 0
        /\ Goto(p, "failing")
     \/ /\ ~th[p].singles
        /\ \E retryable \in BOOLEAN :
             /\ retryable \/ th[p].kept = 0
             /\ AfterError(p, retryable)
  /\ UNCHANGED <<database, money, locks>>

\* Variant: what came back is accepted, however little.
Tally_AcceptsPartial(p) ==
  /\ At(p, "returned")
  /\ Goto(p, "settling")
  /\ UNCHANGED <<database, money, locks>>

\* The result rows are counted again and decide.
Tally(p) ==
  LET n == Delivered(th[p].job) IN
  /\ At(p, "returned")
  /\ \/ /\ n = 0
        /\ \E retryable \in BOOLEAN : AfterError(p, retryable)
     \/ /\ 0 < n /\ n < ImageCount[th[p].job]
        /\ AfterError(p, TRUE)
     \/ /\ n >= ImageCount[th[p].job]
        /\ Goto(p, "settling")
  /\ UNCHANGED <<database, money, locks>>

-----------------------------------------------------------------------------
(* Leaving the processing state *)

\* Variant: the UPDATE is not guarded by the status.
Requeue_Unguarded(p) ==
  /\ At(p, "requeueing")
  /\ RowFree(th[p].job)
  /\ status' = [status EXCEPT ![th[p].job] = "queued"]
  /\ Leave(p)
  /\ UNCHANGED <<results, hold, refund, usage, money, locks>>

\* Variant: the next attempt starts without the images of this one.
Requeue_StartsOver(p) ==
  LET t == th[p].job IN
  /\ At(p, "requeueing")
  /\ RowFree(t)
  /\ status' = IF status[t] = "processing"
               THEN [status EXCEPT ![t] = "queued"] ELSE status
  /\ results' = [results EXCEPT ![t] = {}]
  /\ Leave(p)
  /\ UNCHANGED <<hold, refund, usage, money, locks>>

\* UPDATE ... SET status = 'queued' WHERE status = 'processing', after an
\* error, a partial result, or in processOnce's handler.
Requeue(p) ==
  LET t == th[p].job IN
  /\ At(p, "requeueing")
  /\ RowFree(t)
  /\ status' = IF status[t] = "processing"
               THEN [status EXCEPT ![t] = "queued"] ELSE status
  /\ Leave(p)
  /\ UNCHANGED <<results, hold, refund, usage, money, locks>>

\* Variant: a late worker completes a task that was settled meanwhile.
Complete_Unguarded(p) ==
  LET t == th[p].job IN
  /\ At(p, "settling")
  /\ RowFree(t)
  /\ status' = [status EXCEPT ![t] = "success"]
  /\ usage' = [usage EXCEPT ![t] = [outcome |-> "success", credits |-> Cost[t]]]
  /\ Leave(p)
  /\ UNCHANGED <<results, hold, refund, money, locks>>

\* completeTaskSuccess, one transaction.  The refund of a shortfall is never
\* due here: Tally and CountExisting lead here only when nothing is missing.
Complete(p) ==
  LET t == th[p].job IN
  /\ At(p, "settling")
  /\ RowFree(t)
  /\ IF status[t] = "processing"
     THEN /\ status' = [status EXCEPT ![t] = "success"]
          /\ usage' = [usage EXCEPT ![t] = [outcome |-> "success",
                                            credits |-> Cost[t]]]
     ELSE UNCHANGED <<status, usage>>
  /\ Leave(p)
  /\ UNCHANGED <<results, hold, refund, money, locks>>

\* Variant: the UPDATE is not guarded by the status.
FailBegin_IgnoresStatus(p) ==
  LET t == th[p].job IN
  /\ At(p, "failing")
  /\ RowFree(t)
  /\ rowLock' = [rowLock EXCEPT ![t] = p]
  /\ Become(p, [th[p] EXCEPT !.pc = "deleting", !.doomed = results[t]])
  /\ UNCHANGED <<database, money, walletLock>>

\* failTaskInTransaction: the guarded UPDATE, which keeps the row locked, and
\* the DELETE of the result rows that are committed by then.
FailBegin(p) ==
  LET t == th[p].job IN
  /\ At(p, "failing")
  /\ RowFree(t)
  /\ IF status[t] \in Terminal
     THEN /\ Leave(p)
          /\ UNCHANGED rowLock
     ELSE /\ rowLock' = [rowLock EXCEPT ![t] = p]
          /\ Become(p, [th[p] EXCEPT !.pc = "deleting",
                                     !.doomed = results[t]])
  /\ UNCHANGED <<database, money, walletLock>>

\* heldCredits: the hold entry, or the price where there is none.
HeldCredits(t) == IF hold[t] > 0 THEN hold[t] ELSE Cost[t]

\* Variant: the sign of the hold entry is kept.
RefundAmount_Signed(t) == -hold[t]

\* GREATEST of the amounts on a conflict with an earlier refund entry.
RefundAmount(t) ==
  IF refund[t] > HeldCredits(t) THEN refund[t] ELSE HeldCredits(t)

\* refundTaskCredits under the wallet lock, the usage record, the commit.
FailCommit(p) ==
  LET t == th[p].job
      u == Owner[t] IN
  /\ At(p, "deleting")
  /\ walletLock[u] = NoThread
  /\ status' = [status EXCEPT ![t] = "failed"]
  /\ results' = [results EXCEPT ![t] = @ \ th[p].doomed]
  /\ refund' = [refund EXCEPT ![t] = RefundAmount(t)]
  /\ wallet' = [wallet EXCEPT ![u] = @ + RefundAmount(t) - refund[t]]
  /\ usage' = [usage EXCEPT ![t] = [outcome |-> "failed", credits |-> 0]]
  /\ rowLock' = [rowLock EXCEPT ![t] = NoThread]
  /\ Leave(p)
  /\ UNCHANGED <<hold, credited, walletLock>>

-----------------------------------------------------------------------------
(* Errors, other writers, crashes *)

\* What is left of p's open transaction after a rollback.
Rollback(p) ==
  /\ walletLock' = [u \in Users |-> IF walletLock[u] = p THEN NoThread
                                    ELSE walletLock[u]]
  /\ rowLock' = [t \in Tasks |-> IF rowLock[t] = p THEN NoThread
                                 ELSE rowLock[t]]

\* The caller that catches what escapes from a step of p.
Escalate(p) ==
  CASE th[p].rung = "worker" ->
         Become(p, [th[p] EXCEPT !.pc = "rescue", !.rung = "rescue",
                                 !.doomed = {}])
    [] th[p].rung = "rescue" /\ status[th[p].job] \in Pending ->
         Become(p, [th[p] EXCEPT !.pc = "failing", !.rung = "giveUp",
                                 !.doomed = {}])
    [] OTHER -> Leave(p)

\* A statement outside the try block of processTask fails.
DatabaseError(p) ==
  /\ th[p].pc \in {"creating", "opening", "loaded", "requeueing", "failing",
                   "deleting", "rescue"}
  /\ Rollback(p)
  /\ Escalate(p)
  /\ UNCHANGED <<database, money>>

\* A statement inside it fails: completeTaskSuccess or a count.
CaughtError(p) ==
  /\ th[p].pc \in {"claimed", "returned", "settling"}
  /\ AfterError(p, TRUE)
  /\ UNCHANGED <<database, money, locks>>

\* processOnce's handler reads the row and requeues or fails the task.
Rescue(p) ==
  /\ At(p, "rescue")
  /\ IF status[th[p].job] \in Terminal THEN Leave(p) ELSE AfterError(p, TRUE)
  /\ UNCHANGED <<database, money, locks>>

\* markWorkerException: Redis failed a worker that has popped t, whether or
\* not another one is at work on it.
WorkerException(p, t) ==
  /\ At(p, "idle")
  /\ status[t] \in Pending
  /\ Become(p, [Idle EXCEPT !.pc = "failing", !.job = t,
                            !.rung = "giveUp"])
  /\ UNCHANGED <<database, money, locks>>

\* recoverPendingTasks at the start of an instance, recoverStalledActive.
RecoverProcessing(t) ==
  /\ status[t] = "processing"
  /\ RowFree(t)
  /\ status' = [status EXCEPT ![t] = "queued"]
  /\ UNCHANGED <<results, hold, refund, usage, money, locks, th>>

\* Administrators' credits() and users' redeem().
AdjustCredits(u, amount) ==
  /\ walletLock[u] = NoThread
  /\ credited[u] + amount \in (-CreditCap)..CreditCap
  /\ wallet' = [wallet EXCEPT ![u] = @ + amount]
  /\ credited' = [credited EXCEPT ![u] = @ + amount]
  /\ UNCHANGED <<database, locks, th>>

\* The instance of p dies; PostgreSQL rolls its transaction back.
Crash(p) ==
  /\ ~At(p, "idle")
  /\ Rollback(p)
  /\ Leave(p)
  /\ UNCHANGED <<database, money>>

-----------------------------------------------------------------------------

CreateStep(p) ==
  \/ \E t \in Tasks : StartCreate(p, t)
  \/ OpenWallet(p)
  \/ RejectCreate(p)
  \/ DuplicateCreate(p)
  \/ InsertTask(p)
  \/ EnqueueTask(p)
  \/ EnqueueFails(p)

ProcessStep(p) ==
  \/ StartSync(p)
  \/ \E t \in Tasks : PickUp(p, t)
  \/ NoGateway(p)
  \/ Claim(p)
  \/ CountExisting(p)
  \/ FallBackToSingles(p)
  \/ PersistImage(p)
  \/ SkipImage(p)
  \/ EndCall(p)
  \/ CallFails(p)
  \/ Tally(p)

SettleStep(p) ==
  \/ Requeue(p)
  \/ Complete(p)
  \/ FailBegin(p)
  \/ FailCommit(p)

FaultStep(p) ==
  \/ DatabaseError(p)
  \/ CaughtError(p)
  \/ Rescue(p)
  \/ \E t \in Tasks : WorkerException(p, t)
  \/ Crash(p)

Next ==
  \/ \E p \in Threads : CreateStep(p) \/ ProcessStep(p) \/ SettleStep(p) \/ FaultStep(p)
  \/ \E t \in Tasks : RecoverProcessing(t)
  \/ \E u \in Users, amount \in Adjustments : AdjustCredits(u, amount)

Spec == Init /\ [][Next]_vars

-----------------------------------------------------------------------------
(* Properties *)

\* A task's wallet entries and usage record tell the same story as its status,
\* whatever threads worked on it: nothing before the row, the hold alone while
\* pending or successful, the hold and its full refund once failed.
SettledExactlyOnce ==
  \A t \in Tasks :
    /\ hold[t] = IF status[t] = "none" THEN 0 ELSE Cost[t]
    /\ refund[t] = IF status[t] = "failed" THEN Cost[t] ELSE 0
    /\ usage[t] = [outcome |-> IF status[t] \in Terminal THEN status[t] ELSE "none",
                   credits |-> IF status[t] = "success" THEN Cost[t] ELSE 0]

\* No credit is created or lost: a wallet is what was paid in, less the price
\* of every task that is pending or delivered.
CreditsConserved ==
  \A u \in Users :
    wallet[u] = credited[u]
                - MapThenSumSet(LAMBDA t : Cost[t],
                    {t \in Tasks : Owner[t] = u /\ status[t] \in Pending \cup {"success"}})

\* A task that is charged for has all the images that were ordered, also when
\* several attempts or several workers contributed them.
SuccessDelivers ==
  \A t \in Tasks : status[t] = "success" => Delivered(t) >= ImageCount[t]

\* Repeating a request with its idempotency key never creates a second task,
\* even when the repetition arrives while the first one is being created.
OneTaskPerKey ==
  \A s, t \in Tasks :
    Key[s] = Key[t] /\ Key[t] # NoKey /\ status[s] # "none" /\ status[t] # "none"
      => s = t

\* However many requests of a user run at once, and whatever administrators
\* do meanwhile, a new hold is covered by the balance it is taken from.
HoldNeverOverdraws ==
  [][\A t \in Tasks : hold[t] = 0 /\ hold'[t] > 0 => wallet'[Owner[t]] >= 0]_vars

\* A settled task stays as it is: late workers, recovery and repeated failures
\* change neither its status nor its money, add no image and take none away.
SettledIsFinal ==
  [][\A t \in Tasks : status[t] \in Terminal =>
       /\ status'[t] = status[t]
       /\ refund'[t] = refund[t]
       /\ usage'[t] = usage[t]
       /\ results'[t] = results[t]]_vars

\* No attempt starts over: the rows of the images that earlier attempts and
\* other workers have recorded are there for the next one to count, over
\* retries, recoveries and crashes, until the step that fails and refunds the
\* task deletes them all.  It is the rows that stay; what a service URL serves
\* may be overwritten, see EveryImageIsKept.
RowsKeptUntilFailure ==
  [][\A t \in Tasks : results[t] \subseteq results'[t]
                      \/ (status[t] # "failed" /\ status'[t] = "failed")]_vars

\* An image that a gateway call delivers to a task in progress is a result of
\* its own: it does not take the place of one that is already served.
EveryImageIsKept ==
  [][\A p \in Threads :
       /\ th[p].pc = "calling" /\ th'[p].kept = th[p].kept + 1
       /\ status[th[p].job] = "processing"
       => results[th[p].job] # results'[th[p].job]]_vars

\* What CreditAccount calls the state of t's price.
Account(t) ==
  IF hold[t] = 0 THEN "none"
  ELSE IF refund[t] > 0 THEN "refunded"
  ELSE IF status[t] = "success" THEN "charged" ELSE "held"

Credits == INSTANCE CreditAccount
             WITH balance <- wallet, account <- [t \in Tasks |-> Account(t)]

\* The ledger implements CreditAccount: a price is held once against a balance
\* that covers it, and is charged once or refunded once in full.
ImplementsCreditAccount == Credits!Spec

-----------------------------------------------------------------------------
(* The inductive invariant behind the properties *)

JobsExist == \A p \in Threads : th[p].pc # "idle" => th[p].job \in Tasks

RowsExist ==
  \A p \in Threads : th[p].pc \notin {"idle", "creating", "opening"}
                       => status[th[p].job] # "none"

\* Only requests create, no two of them draw the same identifier, and its row
\* is still to come.
CreatorsAlone ==
  \A p \in Threads : th[p].pc \in {"creating", "opening"} =>
    /\ th[p].rung = "request"
    /\ status[th[p].job] = "none"
    /\ \A q \in Threads : th[q].pc \in {"creating", "opening"} /\ th[q].job = th[p].job
                            => q = p

\* While a request decides, the balance it has read is the balance.
WalletLocked ==
  \A p \in Threads : th[p].pc = "opening" =>
    /\ walletLock[Owner[th[p].job]] = p
    /\ th[p].balance = wallet[Owner[th[p].job]]

\* While a failing transaction is open, nobody else settles the task.
RowLocked ==
  \A p \in Threads : th[p].pc = "deleting" =>
    /\ rowLock[th[p].job] = p
    /\ status[th[p].job] \in Pending

\* A worker about to settle a pending task has not lost any image of it.
ReadyToSettle ==
  \A p \in Threads : th[p].pc = "settling" /\ status[th[p].job] \in Pending
                       => Delivered(th[p].job) >= ImageCount[th[p].job]

\* The invariant that every step preserves: each wallet or task row under an
\* open transaction is owned by the one thread whose transaction it is, and
\* what that thread has read is still true.
LedgerInvariant ==
  /\ TypeOK
  /\ JobsExist
  /\ RowsExist
  /\ CreatorsAlone
  /\ WalletLocked
  /\ RowLocked
  /\ ReadyToSettle
  /\ SettledExactlyOnce
  /\ SuccessDelivers
  /\ OneTaskPerKey
=============================================================================
