------------------------------ MODULE NestTasks ------------------------------
(***************************************************************************)
(* Generation tasks of the older backend (backend/src): requests that      *)
(* create a task and run or queue it, the worker of the BullMQ queue, and  *)
(* the recovery at the start, which goes from task to task while that      *)
(* worker is at work.  The database runs statements of different           *)
(* transactions in any order, so a value that a transaction has read may   *)
(* be old when it writes.                                                  *)
(***************************************************************************)
EXTENDS Integers, FiniteSets

CONSTANTS
  Tasks,
  Count, UnitCost,  \* images and credits per image of each task
  Balance,          \* credits of the user
  Attempts,         \* IMAGE_JOB_ATTEMPTS
  QueueLimit,       \* GATEWAY_QUEUE_LIMIT
  Threshold,        \* GATEWAY_FAILURE_THRESHOLD
  MaxCrashes,       \* bound of the model on crashes of the instance
  MaxErrors,        \* bound of the model on errors of the queue and the gateway
  MaxToggles        \* bound of the model on what administrators do to the gateway

(* What is assumed of the constants, by the module that gives their values *)
NestTasksAssumption ==
  /\ Count \in Nat \ {0} /\ UnitCost \in Nat \ {0} /\ Attempts \in Nat \ {0}
  /\ Balance \in Nat /\ QueueLimit \in Nat /\ Threshold \in Nat \ {0}
  /\ MaxCrashes \in Nat /\ MaxErrors \in Nat /\ MaxToggles \in Nat

VARIABLES
  status, images, usage,  \* ImageTask, ImageResult and UsageRecord
  wallet,     \* what the entries of a task add up to
  refunded,   \* the task has an entry "generation_refund"
  gateway,    \* exists, enabled, failures in a row, cooling down
  deleting,   \* deleteGateway has found the gateway unused
  request,    \* where the request of each task is
  job,        \* the BullMQ job of each task
  runs,       \* processTask under way
  recovering, \* what recoverPendingTasks has yet to do for each task
  disturbed,  \* tasks whose job was added by a call that failed
  crashes, errors, toggles

records == <<status, images, usage, wallet, refunded>>
bounds == <<crashes, errors, toggles>>
vars == <<records, gateway, deleting, request, job, runs, recovering, disturbed, bounds>>

-----------------------------------------------------------------------------

Cost == Count * UnitCost
Settled == {"success", "failed"}
Places == {"none", "waiting", "active", "delayed", "completed", "failed"}
NoJob == [place |-> "none", made |-> 0, stalls |-> 0]

Total == Balance + wallet.rest

(* The entries of each task, and of all of them *)
Entry(t, amount) == wallet' = [wallet EXCEPT !.of[t] = @ + amount, !.rest = @ + amount]

(* selectGateway, and what processTask asks of the gateway of its task *)
Available == gateway.exists /\ gateway.enabled /\ ~gateway.cooling

(* onModuleInit ends before the instance answers requests. *)
Serving == \A t \in Tasks : recovering[t] = "no"

UsedGateway == \E t \in Tasks : status[t] \in {"queued", "processing"}

Init ==
  /\ status = [t \in Tasks |-> "none"]
  /\ images = [t \in Tasks |-> 0] /\ usage = [t \in Tasks |-> "none"]
  /\ wallet = [of |-> [t \in Tasks |-> 0], rest |-> 0]
  /\ refunded = [t \in Tasks |-> FALSE]
  /\ gateway = [exists |-> TRUE, enabled |-> TRUE, failures |-> 0, cooling |-> FALSE]
  /\ deleting = FALSE
  /\ request = [t \in Tasks |-> "new"]
  /\ job = [t \in Tasks |-> NoJob]
  /\ runs = {} /\ disturbed = {}
  /\ recovering = [t \in Tasks |-> "no"]
  /\ crashes = 0 /\ errors = 0 /\ toggles = 0

-----------------------------------------------------------------------------
(* createTask, queueTask *)

To(t, at) == request' = [request EXCEPT ![t] = at]

(* selectGateway, then the transaction reads the balance. *)
CheckBalance(t) ==
  /\ request[t] = "new" /\ Serving
  /\ To(t, IF Available /\ Total >= Cost THEN "checked" ELSE "refused")
  /\ UNCHANGED <<records, gateway, deleting, job, runs, recovering, disturbed, bounds>>

Run(t, attempt, max) ==
  [task |-> t, attempt |-> attempt, max |-> max, stage |-> "start", failures |-> 0, refunded |-> FALSE]

(* The transaction writes the task and the hold; a gateway that has gone    *)
(* breaks it.                                                               *)
CreateTask(t) ==
  /\ request[t] = "checked"
  /\ IF gateway.exists
     THEN status' = [status EXCEPT ![t] = "queued"] /\ Entry(t, -Cost) /\ To(t, "created")
     ELSE UNCHANGED <<status, wallet>> /\ To(t, "refused")
  /\ UNCHANGED <<images, usage, refunded, gateway, deleting, job, runs, recovering, disturbed, bounds>>

(* persistReferenceImages, after the transaction.  Then a request that is   *)
(* not asynchronous runs its task itself, once.                             *)
StoreReferences(t) ==
  /\ request[t] = "created"
  /\ \/ To(t, "stored") /\ UNCHANGED runs
     \/ To(t, "running") /\ runs' = runs \cup {Run(t, 1, 1)}
  /\ UNCHANGED <<records, gateway, deleting, job, recovering, disturbed, bounds>>

(* The request is answered with an error; its task and its hold stay. *)
StoreFails(t) ==
  /\ errors < MaxErrors /\ errors' = errors + 1
  /\ request[t] = "created"
  /\ To(t, "abandoned")
  /\ UNCHANGED <<records, gateway, deleting, job, runs, recovering, disturbed, crashes, toggles>>

Queued == Cardinality({t \in Tasks : job[t].place \in {"waiting", "delayed"}})

CountJobs(t) ==
  /\ request[t] = "stored"
  /\ To(t, IF Queued >= QueueLimit THEN "failing" ELSE "counted")
  /\ UNCHANGED <<records, gateway, deleting, job, runs, recovering, disturbed, bounds>>

(* A job with the id of the task is kept for a long time, also when it has  *)
(* ended, and a second one is not added.                                    *)
AddJob(t) == job' = IF job[t] = NoJob THEN [job EXCEPT ![t].place = "waiting"] ELSE job

Enqueue(t) ==
  /\ request[t] = "counted"
  /\ AddJob(t) /\ To(t, "answered")
  /\ UNCHANGED <<records, gateway, deleting, runs, recovering, disturbed, bounds>>

EnqueueFails(t) ==
  /\ errors < MaxErrors /\ errors' = errors + 1
  /\ request[t] = "counted"
  /\ To(t, "failing")
  /\ \/ UNCHANGED <<job, disturbed>>
     \/ AddJob(t) /\ disturbed' = disturbed \cup {t}
  /\ UNCHANGED <<records, gateway, deleting, runs, recovering, crashes, toggles>>

(* failTask: the refund depends on one that was read before. *)
FailTask(t, existing) ==
  /\ IF existing THEN UNCHANGED <<wallet, refunded>>
     ELSE Entry(t, Cost) /\ refunded' = [refunded EXCEPT ![t] = TRUE]
  /\ usage' = [usage EXCEPT ![t] = "failed"]
  /\ status' = [status EXCEPT ![t] = "failed"]
  /\ images' = images

RequestLooksForRefund(t) ==
  /\ request[t] = "failing"
  /\ To(t, IF refunded[t] THEN "refunded" ELSE "refunding")
  /\ UNCHANGED <<records, gateway, deleting, job, runs, recovering, disturbed, bounds>>

RequestFails(t) ==
  /\ request[t] \in {"refunding", "refunded"}
  /\ FailTask(t, request[t] = "refunded")
  /\ To(t, "refused")
  /\ UNCHANGED <<gateway, deleting, job, runs, recovering, disturbed, bounds>>

-----------------------------------------------------------------------------
(* The queue *)

Deliver(t) ==
  /\ job[t].place = "waiting"
  /\ job' = [job EXCEPT ![t].place = "active"]
  /\ runs' = runs \cup {Run(t, job[t].made + 1, Attempts)}
  /\ UNCHANGED <<records, gateway, deleting, request, recovering, disturbed, bounds>>

BackoffEnds(t) ==
  /\ job[t].place = "delayed"
  /\ job' = [job EXCEPT ![t].place = "waiting"]
  /\ UNCHANGED <<records, gateway, deleting, request, runs, recovering, disturbed, bounds>>

(* A job whose worker has gone is delivered again once, then given up. *)
Stalls(t) ==
  /\ job[t].place = "active" /\ \A r \in runs : r.task # t
  /\ request[t] # "running"
  /\ job' = IF job[t].stalls = 0 THEN [job EXCEPT ![t].place = "waiting", ![t].stalls = 1]
            ELSE [job EXCEPT ![t].place = "failed"]
  /\ UNCHANGED <<records, gateway, deleting, request, runs, recovering, disturbed, bounds>>

-----------------------------------------------------------------------------
(* processTask *)

Replaced(r, s) == runs' = (runs \ {r}) \cup {s}

Finished(r, thrown) ==
  /\ runs' = runs \ {r}
  /\ IF request[r.task] = "running"
     THEN To(r.task, IF thrown THEN "abandoned" ELSE "answered") /\ job' = job
     ELSE /\ request' = request
          /\ job' = [job EXCEPT ![r.task].made = @ + 1,
                                ![r.task].place = IF ~thrown THEN "completed"
                                                  ELSE IF r.attempt < Attempts THEN "delayed" ELSE "failed"]

(* The task is read with its gateway; one that is settled is left alone. *)
Read(r) ==
  /\ r.stage = "start"
  /\ IF status[r.task] \in Settled THEN Finished(r, FALSE)
     ELSE /\ Replaced(r, [r EXCEPT !.stage = IF Available THEN "claim" ELSE "failing",
                                   !.failures = gateway.failures])
          /\ UNCHANGED <<request, job>>
  /\ UNCHANGED <<records, gateway, deleting, recovering, disturbed, bounds>>

Claimable(t) == status[t] = "queued"

Claim(r) ==
  /\ r.stage = "claim"
  /\ IF Claimable(r.task)
     THEN /\ status' = [status EXCEPT ![r.task] = "processing"]
          /\ Replaced(r, [r EXCEPT !.stage = "calling"])
          /\ UNCHANGED <<request, job>>
     ELSE Finished(r, FALSE) /\ status' = status
  /\ UNCHANGED <<images, usage, wallet, refunded, gateway, deleting, recovering, disturbed, bounds>>

(* callGateway: a channel may answer with fewer images than it was asked    *)
(* for, or with more; an answer without any is an error.                    *)
Answers == 1..(Count + 1)

CallFails(r) ==
  /\ errors < MaxErrors /\ errors' = errors + 1
  /\ r.stage = "calling"
  /\ Replaced(r, [r EXCEPT !.stage = "error"])
  /\ UNCHANGED <<records, gateway, deleting, request, job, recovering, disturbed, crashes, toggles>>

(* Variant: the images that come on top are charged. *)
Shortfall_Signed(n) == Count - n

Shortfall(n) == IF n < Count THEN Count - n ELSE 0

(* The transaction of a success, which fails as a whole when there is a     *)
(* usage record of the task or the gateway has gone.                        *)
Complete(r, n) ==
  /\ r.stage = "calling"
  /\ IF usage[r.task] = "none" /\ gateway.exists
     THEN /\ images' = [images EXCEPT ![r.task] = @ + n]
          /\ Entry(r.task, Shortfall(n) * UnitCost)
          /\ refunded' = [refunded EXCEPT ![r.task] = @ \/ n < Count]
          /\ usage' = [usage EXCEPT ![r.task] = "success"]
          /\ status' = [status EXCEPT ![r.task] = "success"]
          /\ gateway' = [gateway EXCEPT !.failures = 0, !.cooling = FALSE]
          /\ Finished(r, FALSE)
     ELSE /\ Replaced(r, [r EXCEPT !.stage = "error"])
          /\ UNCHANGED <<records, gateway, request, job>>
  /\ UNCHANGED <<deleting, recovering, disturbed, bounds>>

(* recordGatewayFailure, from the count that was read with the task; an     *)
(* error of it, when the gateway has gone, ends processTask.                *)
RecordFailure(r) ==
  /\ r.stage = "error"
  /\ IF gateway.exists
     THEN /\ gateway' = [gateway EXCEPT !.failures = r.failures + 1, !.cooling = r.failures + 1 >= Threshold]
          /\ Replaced(r, [r EXCEPT !.stage = IF r.attempt < r.max THEN "retry" ELSE "failing"])
          /\ UNCHANGED <<request, job>>
     ELSE Finished(r, TRUE) /\ UNCHANGED gateway
  /\ UNCHANGED <<records, deleting, recovering, disturbed, bounds>>

Retry(r) ==
  /\ r.stage = "retry"
  /\ status' = [status EXCEPT ![r.task] = "queued"]
  /\ Finished(r, TRUE)
  /\ UNCHANGED <<images, usage, wallet, refunded, gateway, deleting, recovering, disturbed, bounds>>

RunLooksForRefund(r) ==
  /\ r.stage = "failing"
  /\ Replaced(r, [r EXCEPT !.stage = "refund", !.refunded = refunded[r.task]])
  /\ UNCHANGED <<records, gateway, deleting, request, job, recovering, disturbed, bounds>>

RunFails(r) ==
  /\ r.stage = "refund"
  /\ FailTask(r.task, r.refunded)
  /\ Finished(r, FALSE)
  /\ UNCHANGED <<gateway, deleting, recovering, disturbed, bounds>>

-----------------------------------------------------------------------------
(* The instance and the gateway *)

(* The instance dies, or its start fails, and starts again.  Requests are   *)
(* gone, and the lock of an active job outlives the start.                  *)
Restart ==
  /\ crashes < MaxCrashes /\ crashes' = crashes + 1
  /\ runs' = {} /\ deleting' = FALSE
  /\ request' = [t \in Tasks |-> IF request[t] = "new" THEN "new" ELSE "gone"]
  /\ recovering' = [t \in Tasks |-> "look"]
  /\ UNCHANGED <<records, gateway, job, disturbed, errors, toggles>>

(* Variant: a task whose worker has gone is not looked for. *)
Recovered_Queued(t) == status[t] = "queued"

Recovered(t) == status[t] \in {"queued", "processing"}

(* recoverPendingTasks reads the tasks that are not settled, with their     *)
(* status; its worker has started by then.                                  *)
FindPending ==
  /\ \A t \in Tasks : recovering[t] = "look"
  /\ recovering' = [t \in Tasks |-> IF Recovered(t) THEN status[t] ELSE "no"]
  /\ UNCHANGED <<records, gateway, deleting, request, job, runs, disturbed, bounds>>

(* One task after the other: a task that was read as "processing" is set to *)
(* "queued", whatever has become of it, then a job of it is added.          *)
Comes(t, from) == recovering[t] = from /\ \A s \in Tasks : recovering[s] # "adding"

ResetTask(t) ==
  /\ Comes(t, "processing")
  /\ status' = [status EXCEPT ![t] = "queued"]
  /\ recovering' = [recovering EXCEPT ![t] = "adding"]
  /\ UNCHANGED <<images, usage, wallet, refunded, gateway, deleting, request, job, runs, disturbed, bounds>>

AddRecovered(t) ==
  /\ recovering[t] = "adding" \/ Comes(t, "queued")
  /\ AddJob(t)
  /\ recovering' = [recovering EXCEPT ![t] = "no"]
  /\ UNCHANGED <<records, gateway, deleting, request, runs, disturbed, bounds>>

Administer ==
  /\ toggles < MaxToggles /\ toggles' = toggles + 1
  /\ gateway.exists /\ Serving
  /\ UNCHANGED <<records, request, job, runs, recovering, disturbed, crashes, errors>>

Switch ==
  /\ Administer
  /\ gateway' = [gateway EXCEPT !.enabled = ~@]
  /\ UNCHANGED deleting

(* The end of a health check, which increments the count there is and does  *)
(* not look at the threshold.                                               *)
HealthCheck ==
  /\ Administer
  /\ gateway' \in {[gateway EXCEPT !.failures = 0, !.cooling = FALSE], [gateway EXCEPT !.failures = @ + 1]}
  /\ UNCHANGED deleting

(* deleteGateway counts the tasks of the gateway, then deletes it. *)
FindUnused ==
  /\ Administer
  /\ ~UsedGateway /\ deleting' = TRUE
  /\ UNCHANGED gateway

DeleteGateway ==
  /\ deleting /\ deleting' = FALSE
  /\ gateway' = [gateway EXCEPT !.exists = FALSE]
  /\ UNCHANGED <<records, request, job, runs, recovering, disturbed, bounds>>

CooldownEnds ==
  /\ gateway.cooling
  /\ gateway' = [gateway EXCEPT !.cooling = FALSE]
  /\ UNCHANGED <<records, deleting, request, job, runs, recovering, disturbed, bounds>>

-----------------------------------------------------------------------------

Requests(t) ==
  \/ CheckBalance(t) \/ CreateTask(t) \/ StoreReferences(t) \/ CountJobs(t) \/ Enqueue(t)
  \/ RequestLooksForRefund(t) \/ RequestFails(t)

Queue(t) == Deliver(t) \/ BackoffEnds(t) \/ Stalls(t)

Worker(r) ==
  \/ Read(r) \/ Claim(r) \/ (\E n \in Answers : Complete(r, n)) \/ RecordFailure(r)
  \/ Retry(r) \/ RunLooksForRefund(r) \/ RunFails(r)

Recovery == FindPending \/ \E t \in Tasks : ResetTask(t) \/ AddRecovered(t)

Work == \/ \E t \in Tasks : Requests(t) \/ Queue(t)
        \/ \E r \in runs : Worker(r)
        \/ Recovery

Next ==
  \/ Work
  \/ \E t \in Tasks : StoreFails(t) \/ EnqueueFails(t)
  \/ \E r \in runs : CallFails(r)
  \/ Restart
  \/ Switch \/ HealthCheck \/ FindUnused \/ DeleteGateway \/ CooldownEnds

Spec == Init /\ [][Next]_vars

(* Requests, the queue, its worker and the recovery go on, each of them finite. *)
FairSpec == Spec /\ WF_vars(Work)

-----------------------------------------------------------------------------
(* Properties *)

(* The rows of each task, its job and what runs for it. *)
TypeOK ==
  /\ status \in [Tasks -> Settled \cup {"none", "queued", "processing"}]
  /\ images \in [Tasks -> 0..(Count + 1)] /\ usage \in [Tasks -> Settled \cup {"none"}]
  /\ \A t \in Tasks : job[t].place \in Places /\ job[t].made \in 0..Attempts /\ job[t].stalls \in 0..1
  /\ \A r, s \in runs : r.task = s.task => r = s
  /\ gateway.failures \in Nat
  /\ recovering \in [Tasks -> {"no", "look", "queued", "processing", "adding"}]
  /\ crashes \in 0..MaxCrashes /\ errors \in 0..MaxErrors /\ toggles \in 0..MaxToggles

Worth(t) ==
  CASE status[t] = "none" -> 0
    [] status[t] \in {"queued", "processing"} -> -Cost
    [] status[t] = "success" -> -((IF images[t] < Count THEN images[t] ELSE Count) * UnitCost)
    [] status[t] = "failed" -> 0

(* The recovery sets a task to "queued" that it has read as "processing",   *)
(* also when the job of the task has been delivered to the new worker       *)
(* meanwhile and has ended: with its success or its failure, or because the *)
(* worker met "processing" and could not claim it.  The job is kept, no     *)
(* other is added, and the task stays "queued", now and after every start.  *)
Stranded(t) == status[t] = "queued" /\ job[t].place = "completed"

(* What a task has cost follows from its status at every moment: its hold   *)
(* while it is on its way, its images when it has succeeded, and nothing    *)
(* when it has failed, after any retries, crashes, recoveries and           *)
(* deliveries again; but for tasks whose job was added by a call that was   *)
(* reported as failed, and those that the recovery has put back too late.   *)
MoneyFollowsStatus ==
  \A t \in Tasks \ disturbed :
    ~Stranded(t) =>
      /\ wallet.of[t] = Worth(t)
      /\ status[t] = "success" <=> usage[t] = "success"
      /\ images[t] > 0 <=> status[t] = "success"

(* Every task ends, unless its job was given up by the queue (two of its    *)
(* workers have gone, or its gateway), its request has ended with an error  *)
(* that leaves it behind, or the recovery has put it back after its job had *)
(* ended.                                                                   *)
Exists(t) == status[t] # "none"
Ended(t) ==
  status[t] \in Settled \/ job[t].place = "failed" \/ request[t] = "abandoned" \/ Stranded(t)

EveryTaskEnds == \A t \in Tasks : Exists(t) ~> Ended(t)
=============================================================================
