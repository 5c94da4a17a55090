----------------------------- MODULE ImageQueue -----------------------------
(***************************************************************************)
(* The Redis side of the image gateway (QueueService): the waiting list,   *)
(* the sets beside it, the locks and the delayed retries, used by requests *)
(* that enqueue tasks, by workers, and by instances that start and stop.   *)
(*                                                                         *)
(* Redis runs one command at a time and QueueService uses no transaction   *)
(* besides the enqueue script, so every command is a step.  A handler's    *)
(* decision is an action that leaves the commands it leads to in the todo  *)
(* of its thread; Execute runs the first of them.                          *)
(*                                                                         *)
(* Time is abstract: a delay elapses, an entry becomes stale and a lock    *)
(* expires in steps of their own, under the timing assumptions stated      *)
(* there.  Of the database only the status of a task is kept; TaskLedger   *)
(* has the rest.                                                           *)
(***************************************************************************)
EXTENDS Naturals, Sequences, FiniteSets

CONSTANTS
  Tasks,
  Instances,    \* server processes
  Workers,      \* worker threads of all instances
  Clients,      \* request threads of all instances
  Host,         \* Host[x]: the instance of a worker or client
  Late,         \* instances that are started while the others are running
  SyncTasks,    \* tasks whose request asked to wait for the images
  NoTask, Free,
  MaxAttempts,  \* IMAGE_JOB_ATTEMPTS
  QueueLimit,   \* GATEWAY_QUEUE_LIMIT
  SlowFinish,   \* a worker may take longer over its last commands than a retry waits
  SlowBeats,    \* tasks whose heartbeat may write after their worker has let go
  ListCap,      \* bound of the model on the entries a repeated request finds
  MaxCrashes,   \* bound of the model on crashes
  MaxErrors     \* bound of the model on failing Redis or database calls

Threads == Instances \cup Workers \cup Clients

ASSUME QueueAssumption ==
  /\ NoTask \notin Tasks
  /\ Free \notin Workers
  /\ Host \in [Workers \cup Clients -> Instances]
  /\ Late \subseteq Instances
  /\ Instances \cap (Workers \cup Clients) = {}
  /\ Workers \cap Clients = {}
  /\ MaxAttempts \in Nat \ {0}
  /\ QueueLimit \in Nat \ {0}
  /\ SyncTasks \subseteq Tasks
  /\ SlowFinish \in BOOLEAN
  /\ SlowBeats \subseteq Tasks
  /\ ListCap \in Nat
  /\ MaxCrashes \in Nat
  /\ MaxErrors \in Nat

VARIABLES
  status,    \* ImageTask.status; "none" before the row exists
  member,    \* the sets, and the keys of the sorted set and of the hash
  due,       \* members of image:delayed whose time has come
  stale,     \* keys of image:active:started that are older than the cutoff
  waiting,   \* the list image:waiting, its left end first
  lock,      \* image:lock:<task>: the worker that set it
  attempts,  \* the hash image:attempts
  dead,      \* members of the list image:dead
  th,        \* what each thread is doing
  beats,     \* per worker, the tasks whose heartbeat is past its check
  crashes, errors

redis == <<member, due, stale, waiting, lock, attempts, dead>>
outside == <<beats, crashes, errors>>
vars == <<status, redis, th, outside>>

-----------------------------------------------------------------------------
(* Types *)

Terminal == {"success", "failed"}
Pending == {"queued", "processing"}
Statuses == {"none"} \cup Pending \cup Terminal

Sets == {"queued", "waitingSet", "delayedSet", "active", "started", "delayed"}

\* Commands on the task of the thread that runs them.
Add(set) == <<"add", set>>            \* SADD, ZADD, HSET
Remove(set) == <<"remove", set>>      \* SREM, ZREM, HDEL
Seek(set) == <<"seek", set>>          \* SISMEMBER; nothing follows if it is there
Enlist == <<"enlist", "waitingSet">>  \* SADD; the LPUSH follows if it added
Push == <<"push", "waiting">>         \* LPUSH
Unlock == <<"unlock", "lock">>        \* DEL
Forget == <<"forget", "attempts">>    \* HDEL
Bury == <<"bury", "dead">>            \* LPUSH

Commands == {Add(s) : s \in Sets} \cup {Remove(s) : s \in Sets}
              \cup {Seek(s) : s \in {"waitingSet", "delayedSet", "active"}}
              \cup {Enlist, Push, Unlock, Forget, Bury}

Labels == {"down", "starting", "booting", "up",                      \* instances
           "idle", "admitting", "enqueueing",                        \* clients
           "checking", "listing", "refusing", "generating", "calling",
           "popped", "locking", "postponing", "held", "loaded",      \* workers
           "working", "settling", "caught", "givingUp", "counting",
           "releasing", "recovering", "gone"}

Thread == [pc      : Labels,
           task    : Tasks \cup {NoTask},
           todo    : Seq(Commands),
           fresh   : BOOLEAN,                      \* the request created the task
           locked  : BOOLEAN,
           attempt : Nat,
           dying   : BOOLEAN,                      \* an exception leaves the loop
           rest    : SUBSET (Tasks \X Statuses)]   \* rows read and not yet handled

At(label) == [pc |-> label, task |-> NoTask, todo |-> <<>>, fresh |-> FALSE,
              locked |-> FALSE, attempt |-> 0, dying |-> FALSE, rest |-> {}]

(* The rows, the structures in Redis and the threads. *)
TypeOK ==
  /\ status \in [Tasks -> Statuses]
  /\ member \in [Sets -> SUBSET Tasks]
  /\ due \subseteq member["delayed"]
  /\ stale \subseteq member["started"]
  /\ waiting \in Seq(Tasks)
  /\ lock \in [Tasks -> Workers \cup {Free}]
  /\ attempts \in [Tasks -> Nat]
  /\ dead \subseteq Tasks
  /\ th \in [Threads -> Thread]
  /\ beats \in [Workers -> SUBSET SlowBeats]
  /\ crashes \in 0..MaxCrashes
  /\ errors \in 0..MaxErrors

Init ==
  /\ status = [t \in Tasks |-> "none"]
  /\ member = [s \in Sets |-> {}]
  /\ due = {}
  /\ stale = {}
  /\ waiting = <<>>
  /\ lock = [t \in Tasks |-> Free]
  /\ attempts = [t \in Tasks |-> 0]
  /\ dead = {}
  /\ th = [x \in Threads |->
             IF x \in Instances THEN At(IF x \in Late THEN "down" ELSE "up")
             ELSE At(IF Host[x] \in Late THEN "down" ELSE "idle")]
  /\ beats = [w \in Workers |-> {}]
  /\ crashes = 0
  /\ errors = 0

-----------------------------------------------------------------------------
(* The procedures that are nothing but commands *)

ClearActive == <<Remove("active"), Remove("started")>>

ForceWaiting == <<Add("queued"), Remove("delayed"), Remove("delayedSet"), Enlist, Push>>

\* hasPendingQueueState of a task that is queued, and forceWaiting if it has none.
\* Each look-up is a command of its own; the first that finds the task ends them.
HasPendingQueueState ==
  <<Seek("waitingSet"), Seek("delayedSet"), Seek("active")>> \o ForceWaiting

ReleaseQueueMembership ==
  <<Remove("queued"), Remove("delayed"), Remove("waitingSet"), Remove("delayedSet")>>

MoveToDead == <<Forget, Remove("delayed")>> \o ReleaseQueueMembership \o <<Bury>>

\* Variant: the ZADD is forgotten.
ScheduleRetry_SetOnly == <<Add("delayedSet")>>

ScheduleRetry == <<Add("delayedSet"), Add("delayed")>>

\* workerLoop, once the lock is taken.
HoldTask == <<Remove("delayedSet"), Add("active"), Add("started"), Remove("waitingSet")>>

\* releaseDueDelayed, once the entry is removed from image:delayed.
ListAgain == <<Remove("delayedSet"), Add("waitingSet"), Push>>

IsDelayed(t) == t \in member["delayed"] \ due

-----------------------------------------------------------------------------
(* Threads *)

Ready(x, label) == th[x].pc = label /\ th[x].todo = <<>>
Become(x, thread) == th' = [th EXCEPT ![x] = thread]
Goto(x, label) == Become(x, [th[x] EXCEPT !.pc = label])
Then(x, label, commands) == Become(x, [th[x] EXCEPT !.pc = label, !.todo = commands])
\* A thread without a task starts on t.
Start(x, label, t) == Become(x, [At(label) EXCEPT !.task = t])

\* The first command of x; a thread that has nothing else left is idle.
Execute(x) ==
  LET t == th[x].task
      command == Head(th[x].todo)
      op == command[1]
      set == command[2]
      listed == op = "enlist" /\ t \in member["waitingSet"]
      found == op = "seek" /\ t \in member[set]
      todo == IF found THEN <<>>
              ELSE IF listed THEN Tail(Tail(th[x].todo)) ELSE Tail(th[x].todo) IN
  /\ th[x].todo # <<>>
  /\ Become(x, IF todo = <<>> /\ th[x].pc = "idle" THEN At("idle")
               ELSE [th[x] EXCEPT !.todo = todo])
  /\ member' = IF op \in {"add", "enlist"} THEN [member EXCEPT ![set] = @ \cup {t}]
               ELSE IF op = "remove" THEN [member EXCEPT ![set] = @ \ {t}]
               ELSE member
  /\ due' = IF set = "delayed" THEN due \ {t} ELSE due
  /\ stale' = IF set = "started" THEN stale \ {t} ELSE stale
  /\ waiting' = IF op = "push" THEN <<t>> \o waiting ELSE waiting
  /\ lock' = IF op = "unlock" THEN [lock EXCEPT ![t] = Free] ELSE lock
  /\ attempts' = IF op = "forget" THEN [attempts EXCEPT ![t] = 0] ELSE attempts
  /\ dead' = IF op = "bury" THEN dead \cup {t} ELSE dead
  /\ UNCHANGED <<status, outside>>

-----------------------------------------------------------------------------
(* Requests: queueTask, ensureQueued, enqueue *)

\* createTask has committed.  queueTask follows or, for a request that waits for
\* its images, processTask in the thread of the request.
CreateTask(c, t) ==
  /\ Ready(c, "idle")
  /\ status[t] = "none"
  /\ status' = [status EXCEPT ![t] = "queued"]
  /\ IF t \in SyncTasks THEN Start(c, "generating", t)
     ELSE Become(c, [At("admitting") EXCEPT !.task = t, !.fresh = TRUE])
  /\ UNCHANGED <<redis, outside>>

\* A repeated request has read the row of t: ensureQueued.
RepeatRequest(c, t) ==
  /\ Ready(c, "idle")
  /\ status[t] = "queued"
  /\ Len(waiting) < ListCap
  /\ Start(c, "enqueueing", t)
  /\ UNCHANGED <<status, redis, outside>>

PendingCount == Cardinality({t \in Tasks : status[t] \in Pending})

\* Variant: one too many.
Admit_OneMore(c) ==
  /\ Ready(c, "admitting")
  /\ PendingCount <= QueueLimit + 1
  /\ Goto(c, "enqueueing")
  /\ UNCHANGED <<status, redis, outside>>

\* The limit is checked against the database, for new tasks only.
Admit(c) ==
  /\ Ready(c, "admitting")
  /\ PendingCount <= QueueLimit
  /\ Goto(c, "enqueueing")
  /\ UNCHANGED <<status, redis, outside>>

\* QueueOverloadedException.
Overloaded(c) ==
  /\ Ready(c, "admitting")
  /\ PendingCount > QueueLimit
  /\ Goto(c, "refusing")
  /\ UNCHANGED <<status, redis, outside>>

\* ENQUEUE_SCRIPT, which Redis runs as one command.
Script(t) ==
  IF t \in member["queued"] THEN UNCHANGED <<member, waiting>>
  ELSE /\ member' = [member EXCEPT !["queued"] = @ \cup {t}, !["waitingSet"] = @ \cup {t}]
       /\ waiting' = <<t>> \o waiting

Enqueue(c) ==
  LET t == th[c].task IN
  /\ Ready(c, "enqueueing")
  /\ Script(t)
  /\ Become(c, IF t \in member["queued"] THEN [th[c] EXCEPT !.pc = "checking"]
               ELSE At("idle"))
  /\ UNCHANGED <<status, due, stale, lock, attempts, dead, outside>>

\* The script found the task queued already: is it in the sets?
CheckQueued(c) ==
  /\ Ready(c, "checking")
  /\ Then(c, "listing", IF th[c].task \in member["queued"] THEN HasPendingQueueState
                        ELSE ForceWaiting)
  /\ UNCHANGED <<status, redis, outside>>

Listed(c) ==
  /\ Ready(c, "listing")
  /\ Become(c, At("idle"))
  /\ UNCHANGED <<status, redis, outside>>

\* Variant: another of the final statuses.
FailTask_Cancelled(t) ==
  status' = IF status[t] \in Pending THEN [status EXCEPT ![t] = "cancelled"] ELSE status

\* failTask: a task that is settled stays so.
FailTask(t) ==
  status' = IF status[t] \in Pending THEN [status EXCEPT ![t] = "failed"] ELSE status

\* queueTask gives up: failTask and an error for the customer.
Refuse(c) ==
  /\ Ready(c, "refusing")
  /\ FailTask(th[c].task)
  /\ Become(c, At("idle"))
  /\ UNCHANGED <<redis, outside>>

\* processTask in the thread of a request: the guarded UPDATE, or no gateway.
ClaimInRequest(c) ==
  LET t == th[c].task IN
  /\ Ready(c, "generating")
  /\ \/ /\ status[t] = "queued"
        /\ status' = [status EXCEPT ![t] = "processing"]
        /\ Goto(c, "calling")
     \/ /\ status[t] = "queued"
        /\ FailTask(t)
        /\ Become(c, At("idle"))
     \/ /\ status[t] # "queued"
        /\ Become(c, At("idle"))
        /\ UNCHANGED status
  /\ UNCHANGED <<redis, outside>>

\* The only attempt of a request ends: the images are there, or failTask.
EndInRequest(c) ==
  LET t == th[c].task IN
  /\ Ready(c, "calling")
  /\ \/ status' = IF status[t] = "processing" THEN [status EXCEPT ![t] = "success"] ELSE status
     \/ FailTask(t)
  /\ Become(c, At("idle"))
  /\ UNCHANGED <<redis, outside>>

-----------------------------------------------------------------------------
(* Instances: recoverPendingTasks at the start *)

\* The web server answers requests before the CommandLineRunner is called.
Boot(i) ==
  /\ th[i].pc = "down"
  /\ th' = [x \in Threads |-> IF x = i THEN At("starting")
                              ELSE IF x \in Clients /\ Host[x] = i THEN At("idle")
                              ELSE th[x]]
  /\ UNCHANGED <<status, redis, outside>>

PendingTasks(i) ==
  /\ Ready(i, "starting")
  /\ Become(i, [At("booting") EXCEPT !.rest =
                  {<<t, status[t]>> : t \in {s \in Tasks : status[s] \in Pending}}])
  /\ UNCHANGED <<status, redis, outside>>

\* The rows were read at once and are handled one by one.
RecoverPendingTask(i) ==
  /\ Ready(i, "booting")
  /\ \E row \in th[i].rest :
       LET t == row[1]
           requeued == row[2] = "processing" /\ status[t] = "processing" IN
       /\ status' = IF requeued THEN [status EXCEPT ![t] = "queued"] ELSE status
       /\ Become(i, [th[i] EXCEPT
            !.rest = @ \ {row},
            !.task = t,
            !.todo = IF requeued THEN ClearActive \o ForceWaiting
                     ELSE IF t \in member["queued"] THEN HasPendingQueueState
                     ELSE ForceWaiting])
  /\ UNCHANGED <<redis, outside>>

\* startWorker.
StartWorkers(i) ==
  /\ Ready(i, "booting")
  /\ th[i].rest = {}
  /\ th' = [x \in Threads |-> IF x = i THEN At("up")
                              ELSE IF x \in Workers /\ Host[x] = i THEN At("idle")
                              ELSE th[x]]
  /\ UNCHANGED <<status, redis, outside>>

Crash(i) ==
  /\ th[i].pc # "down"
  /\ crashes < MaxCrashes
  /\ crashes' = crashes + 1
  /\ th' = [x \in Threads |-> IF x = i \/ (x \notin Instances /\ Host[x] = i)
                              THEN At("down") ELSE th[x]]
  /\ beats' = [w \in Workers |-> IF Host[w] = i THEN {} ELSE beats[w]]
  /\ UNCHANGED <<status, redis, errors>>

-----------------------------------------------------------------------------
(* Maintenance, at the top of a worker's loop *)

\* releaseDueDelayed: the ZREM decides who releases the entry.
ReleaseDueDelayed(w, t) ==
  /\ Ready(w, "idle")
  /\ t \in due
  /\ member' = [member EXCEPT !["delayed"] = @ \ {t}]
  /\ due' = due \ {t}
  /\ IF t \in member["queued"]
     THEN Become(w, [At("idle") EXCEPT !.task = t, !.todo = ListAgain])
     ELSE UNCHANGED th
  /\ UNCHANGED <<status, stale, waiting, lock, attempts, dead, outside>>

\* recoverStalledActive, one entry of image:active:started.
RecoverStalledActive(w, t) ==
  /\ Ready(w, "idle")
  /\ t \in member["started"]
  /\ \/ /\ status[t] \in Terminal
        /\ Become(w, [At("idle") EXCEPT !.task = t,
                        !.todo = ClearActive \o ReleaseQueueMembership])
     \/ /\ status[t] \in Pending
        /\ t \in stale
        /\ lock[t] = Free
        /\ Become(w, [At("recovering") EXCEPT !.task = t, !.todo = ClearActive,
                                              !.rest = {<<t, status[t]>>}])
  /\ UNCHANGED <<status, redis, outside>>

\* The guarded UPDATE of a task that was processing, then forceWaiting.
RequeueStalled(w) ==
  LET t == th[w].task
      wasProcessing == <<t, "processing">> \in th[w].rest IN
  /\ Ready(w, "recovering")
  /\ IF wasProcessing /\ status[t] # "processing"
     THEN /\ Become(w, At("idle"))
          /\ UNCHANGED status
     ELSE /\ Become(w, [At("idle") EXCEPT !.task = t, !.todo = ForceWaiting])
          /\ status' = IF wasProcessing THEN [status EXCEPT ![t] = "queued"] ELSE status
  /\ UNCHANGED <<redis, outside>>

-----------------------------------------------------------------------------
(* workerLoop *)

Pop(w) ==
  /\ Ready(w, "idle")
  /\ waiting # <<>>
  /\ waiting' = SubSeq(waiting, 1, Len(waiting) - 1)
  /\ Start(w, "popped", waiting[Len(waiting)])
  /\ UNCHANGED <<status, member, due, stale, lock, attempts, dead, outside>>

CheckPopped(w) ==
  LET t == th[w].task IN
  /\ Ready(w, "popped")
  /\ IF t \notin member["queued"] \/ IsDelayed(t)
     THEN Then(w, "idle", <<Remove("waitingSet")>>)
     ELSE Goto(w, "locking")
  /\ UNCHANGED <<status, redis, outside>>

\* Variant: the answer of SET NX is ignored.
TryLock_Ignored(w) ==
  LET t == th[w].task IN
  /\ Ready(w, "locking")
  /\ lock' = [lock EXCEPT ![t] = w]
  /\ Become(w, [th[w] EXCEPT !.pc = "held", !.todo = HoldTask, !.locked = TRUE])
  /\ UNCHANGED <<status, member, due, stale, waiting, attempts, dead, outside>>

\* SET NX image:lock:<task>.
TryLock(w) ==
  LET t == th[w].task IN
  /\ Ready(w, "locking")
  /\ IF lock[t] = Free
     THEN /\ lock' = [lock EXCEPT ![t] = w]
          /\ Become(w, [th[w] EXCEPT !.pc = "held", !.todo = HoldTask, !.locked = TRUE])
     ELSE /\ Then(w, "postponing", <<Remove("waitingSet")>>)
          /\ UNCHANGED lock
  /\ UNCHANGED <<status, member, due, stale, waiting, attempts, dead, outside>>

\* Variant: the worker goes on without the lock.
Postpone_Anyway(w) ==
  /\ Ready(w, "postponing")
  /\ Then(w, "held", HoldTask)
  /\ UNCHANGED <<status, redis, outside>>

\* Another worker has the lock: its holder is trusted with an active task, and
\* any other is tried again when the lock must have expired.
Postpone(w) ==
  /\ Ready(w, "postponing")
  /\ IF th[w].task \in member["active"] THEN Become(w, At("idle"))
     ELSE Then(w, "idle", ScheduleRetry)
  /\ UNCHANGED <<status, redis, outside>>

Settle(w, commands) == Then(w, "settling", commands)

Succeeded(w) == Settle(w, <<Forget>> \o ReleaseQueueMembership)
Skipped(w) == Settle(w, <<Forget>> \o ReleaseQueueMembership)
Retried(w) == Settle(w, ScheduleRetry)
Failed(w) == Settle(w, MoveToDead)

\* Variant: the attempt is counted in the worker only.
BeginAttempt_NotStored(w) ==
  LET t == th[w].task IN
  /\ Ready(w, "held")
  /\ IF status[t] # "queued" THEN Skipped(w)
     ELSE Become(w, [th[w] EXCEPT !.pc = "loaded", !.attempt = attempts[t] + 1])
  /\ UNCHANGED <<status, redis, outside>>

\* processOnce, up to the call of processTask.
BeginAttempt(w) ==
  LET t == th[w].task IN
  /\ Ready(w, "held")
  /\ IF status[t] # "queued"
     THEN /\ Skipped(w)
          /\ UNCHANGED attempts
     ELSE /\ attempts' = [attempts EXCEPT ![t] = @ + 1]
          /\ Become(w, [th[w] EXCEPT !.pc = "loaded", !.attempt = attempts[t] + 1])
  /\ UNCHANGED <<status, member, due, stale, waiting, lock, dead, outside>>

\* What processOnce makes of the row that processTask returns.
Outcome(w, row) ==
  IF row = "success" THEN Succeeded(w)
  ELSE IF row = "queued" /\ th[w].attempt < MaxAttempts THEN Retried(w)
  ELSE Failed(w)

\* processTask: the guarded UPDATE to processing, or no gateway.
ClaimTask(w) ==
  LET t == th[w].task IN
  /\ Ready(w, "loaded")
  /\ \/ /\ status[t] = "queued"
        /\ status' = [status EXCEPT ![t] = "processing"]
        /\ Goto(w, "working")
     \/ /\ status[t] = "queued"
        /\ FailTask(t)
        /\ Failed(w)
     \/ /\ status[t] # "queued"
        /\ Outcome(w, status[t])
        /\ UNCHANGED status
  /\ UNCHANGED <<redis, outside>>

\* Variant: the task is queued again although no attempt is left.
EndAttempt_AlwaysRequeues(w) ==
  LET t == th[w].task
      processing == status[t] = "processing" IN
  /\ Ready(w, "working")
  /\ status' = IF processing THEN [status EXCEPT ![t] = "queued"] ELSE status
  /\ Outcome(w, status'[t])
  /\ UNCHANGED <<redis, outside>>

\* processTask: the guarded UPDATE at the end of a gateway call, whose row is
\* read back.  Errors and partial results are retried while attempts are left.
EndAttempt(w) ==
  LET t == th[w].task
      processing == status[t] = "processing" IN
  /\ Ready(w, "working")
  /\ \/ status' = IF processing THEN [status EXCEPT ![t] = "success"] ELSE status
     \/ /\ th[w].attempt < MaxAttempts
        /\ status' = IF processing THEN [status EXCEPT ![t] = "queued"] ELSE status
     \/ FailTask(t)
  /\ Outcome(w, status'[t])
  /\ UNCHANGED <<redis, outside>>

\* Variant: off by one.
AttemptThrows_OneMore(w) ==
  LET t == th[w].task IN
  /\ Ready(w, "loaded") \/ Ready(w, "working")
  /\ status[t] \in Pending
  /\ th[w].attempt <= MaxAttempts
  /\ status' = [status EXCEPT ![t] = "queued"]
  /\ Retried(w)
  /\ UNCHANGED <<redis, outside>>

\* processTask throws, before or after the claim: the handler of processOnce.
AttemptThrows(w) ==
  LET t == th[w].task
      retry == th[w].attempt < MaxAttempts IN
  /\ Ready(w, "loaded") \/ Ready(w, "working")
  /\ \/ /\ status[t] = "success"
        /\ Succeeded(w)
        /\ UNCHANGED status
     \/ /\ status[t] = "failed"
        /\ Skipped(w)
        /\ UNCHANGED status
     \/ /\ status[t] \in Pending
        /\ retry
        /\ status' = [status EXCEPT ![t] = IF @ = "processing" THEN "queued" ELSE @]
        /\ Retried(w)
     \/ /\ status[t] \in Pending
        /\ FailTask(t)
        /\ Failed(w)
  /\ UNCHANGED <<redis, outside>>

\* Variant: the lock is left to expire.
Release_NoUnlock(w) ==
  /\ Ready(w, "settling") \/ Ready(w, "counting")
  /\ Then(w, "releasing", IF th[w].locked THEN ClearActive ELSE <<>>)
  /\ UNCHANGED <<status, redis, outside>>

\* The finally block: only the holder of the lock clears and unlocks.
Release(w) ==
  /\ Ready(w, "settling") \/ Ready(w, "counting")
  /\ Then(w, "releasing", IF th[w].locked THEN ClearActive \o <<Unlock>> ELSE <<>>)
  /\ UNCHANGED <<status, redis, outside>>

NextRound(w) ==
  /\ Ready(w, "releasing")
  /\ Become(w, At(IF th[w].dying THEN "gone" ELSE "idle"))
  /\ UNCHANGED <<status, redis, outside>>

\* markWorkerException reads the row.
MarkWorkerException(w) ==
  /\ Ready(w, "caught")
  /\ IF status[th[w].task] \in Terminal
     THEN Then(w, "counting", ReleaseQueueMembership)
     ELSE Then(w, "givingUp", MoveToDead)
  /\ UNCHANGED <<status, redis, outside>>

GiveUp(w) ==
  /\ Ready(w, "givingUp")
  /\ FailTask(th[w].task)
  /\ Goto(w, "counting")
  /\ UNCHANGED <<redis, outside>>

-----------------------------------------------------------------------------
(* Faults: a call to Redis or PostgreSQL throws *)

ClientError(c) ==
  /\ th[c].pc \in {"admitting", "enqueueing", "checking", "listing", "generating", "calling"}
  /\ errors < MaxErrors
  /\ errors' = errors + 1
  \* The script may have run although its answer is lost.
  /\ \/ th[c].pc = "enqueueing" /\ Script(th[c].task)
     \/ UNCHANGED <<member, waiting>>
  /\ Become(c, IF th[c].fresh THEN [At("refusing") EXCEPT !.task = th[c].task]
               ELSE At("idle"))
  /\ UNCHANGED <<status, due, stale, lock, attempts, dead, beats, crashes>>

WorkerError(w) ==
  /\ th[w].pc \notin {"down", "gone"}
  /\ errors < MaxErrors
  /\ errors' = errors + 1
  /\ \/ \* Maintenance: the loop goes on.
        /\ th[w].pc = "recovering" \/ (th[w].pc = "idle" /\ th[w].todo # <<>>)
        /\ Become(w, At("idle"))
     \/ \* The catch block of the loop.
        /\ th[w].pc \in {"popped", "locking", "postponing", "held", "loaded",
                         "working", "settling"}
        /\ Then(w, "caught", <<>>)
     \/ \* markWorkerException ignores its own.
        /\ th[w].pc \in {"caught", "givingUp"}
        /\ Then(w, "counting", <<>>)
     \/ \* The counter in the catch block: the loop ends after finally.
        /\ th[w].pc = "counting"
        /\ Become(w, [th[w] EXCEPT !.todo = <<>>, !.dying = TRUE])
     \/ \* The finally block: the loop ends.
        /\ th[w].pc = "releasing" /\ th[w].todo # <<>>
        /\ Become(w, At("gone"))
  /\ UNCHANGED <<status, redis, beats, crashes>>

-----------------------------------------------------------------------------
(* Heartbeats: startHeartbeat.  EXPIRE renews the lock, which LockExpires     *)
(* already allows for; what is left is the HSET of image:active:started.      *)

\* The heartbeat of w runs from the end of HoldTask to the finally block.  (The
\* model leaves it out of the catch block of a worker that made no attempt.)
Beating(w) ==
  /\ th[w].locked
  /\ \/ Ready(w, "held")
     \/ th[w].pc \in {"loaded", "working", "settling"}
     \/ th[w].pc \in {"caught", "givingUp", "counting"} /\ th[w].attempt > 0

Refresh(t) ==
  /\ member' = [member EXCEPT !["started"] = @ \cup {t}]
  /\ stale' = stale \ {t}

\* alive.get() and the HSET, with nothing between them.
Heartbeat(w) ==
  /\ Beating(w)
  /\ Refresh(th[w].task)
  /\ UNCHANGED <<status, due, waiting, lock, attempts, dead, th, outside>>

\* The same with its worker going on between the two.
HeartbeatChecks(w) ==
  /\ th[w].task \in SlowBeats
  /\ Beating(w)
  /\ beats' = [beats EXCEPT ![w] = @ \cup {th[w].task}]
  /\ UNCHANGED <<status, redis, th, crashes, errors>>

HeartbeatWrites(w, t) ==
  /\ t \in beats[w]
  /\ Refresh(t)
  /\ beats' = [beats EXCEPT ![w] = @ \ {t}]
  /\ UNCHANGED <<status, due, waiting, lock, attempts, dead, th, crashes, errors>>

-----------------------------------------------------------------------------
(* Time *)

Holds(w, t) == th[w].task = t /\ th[w].locked

\* A retry waits a second or more after the ZADD; SlowFinish lets that pass
\* before its worker is through with the task.
DelayElapses(t) ==
  /\ t \in member["delayed"] \ due
  /\ SlowFinish \/ \A w \in Workers : ~Holds(w, t)
  /\ due' = due \cup {t}
  /\ UNCHANGED <<status, member, stale, waiting, lock, attempts, dead, th, outside>>

\* The heartbeat renews a task's entry and lock while its worker has it.
EntryStales(t) ==
  /\ t \in member["started"] \ stale
  /\ \A w \in Workers : ~Holds(w, t)
  /\ stale' = stale \cup {t}
  /\ UNCHANGED <<status, member, due, waiting, lock, attempts, dead, th, outside>>

LockExpires(t) ==
  /\ lock[t] # Free
  /\ ~Holds(lock[t], t)
  /\ lock' = [lock EXCEPT ![t] = Free]
  /\ UNCHANGED <<status, member, due, stale, waiting, attempts, dead, th, outside>>

-----------------------------------------------------------------------------

ClientStep(c) ==
  \/ Admit(c)
  \/ Overloaded(c)
  \/ Enqueue(c)
  \/ CheckQueued(c)
  \/ Listed(c)
  \/ Refuse(c)
  \/ ClaimInRequest(c)
  \/ EndInRequest(c)

InstanceStep(i) ==
  \/ Boot(i)
  \/ PendingTasks(i)
  \/ RecoverPendingTask(i)
  \/ StartWorkers(i)

WorkerStep(w) ==
  \/ \E t \in Tasks : ReleaseDueDelayed(w, t) \/ RecoverStalledActive(w, t)
  \/ RequeueStalled(w)
  \/ Pop(w)
  \/ CheckPopped(w)
  \/ TryLock(w)
  \/ Postpone(w)
  \/ BeginAttempt(w)
  \/ ClaimTask(w)
  \/ EndAttempt(w)
  \/ AttemptThrows(w)
  \/ Release(w)
  \/ NextRound(w)
  \/ MarkWorkerException(w)
  \/ GiveUp(w)

Step(x) ==
  \/ Execute(x)
  \/ x \in Clients /\ ClientStep(x)
  \/ x \in Instances /\ InstanceStep(x)
  \/ x \in Workers /\ WorkerStep(x)

TimePasses(t) == DelayElapses(t) \/ EntryStales(t) \/ LockExpires(t)

Beat(w) == Heartbeat(w) \/ HeartbeatChecks(w) \/ \E t \in Tasks : HeartbeatWrites(w, t)

Arrive(c, t) == CreateTask(c, t) \/ RepeatRequest(c, t)

Fault ==
  \/ \E i \in Instances : Crash(i)
  \/ \E c \in Clients : ClientError(c)
  \/ \E w \in Workers : WorkerError(w)

Next ==
  \/ \E x \in Threads : Step(x)
  \/ \E c \in Clients, t \in Tasks : Arrive(c, t)
  \/ \E w \in Workers : Beat(w)
  \/ \E t \in Tasks : TimePasses(t)
  \/ Fault

Spec == Init /\ [][Next]_vars

\* Threads are scheduled, delays elapse and leases end.  Requests need not come.
FairSpec ==
  /\ Spec
  /\ \A x \in Threads : WF_vars(Step(x))
  /\ \A t \in Tasks : WF_vars(DelayElapses(t)) /\ WF_vars(EntryStales(t))
                      /\ WF_vars(LockExpires(t))

-----------------------------------------------------------------------------
(* Properties *)

\* However often a task is listed, retried or recovered, and whatever instances
\* start or die, at most one worker at a time calls the gateway for it.  (The
\* request of a sync task takes no lock; this is about workers.)
OneWorkerPerTask ==
  \A v, w \in Workers :
    th[v].pc = "working" /\ th[w].pc = "working" /\ th[v].task = th[w].task => v = w

\* Some thread has t in hand, so what becomes of t is still open.
InHand(t) == \E x \in Threads : th[x].task = t \/ \E row \in th[x].rest : row[1] = t

\* Redis will hand t to a worker: it is listed, or will be when its delay ends.
Carried(t) ==
  /\ t \in member["queued"]
  /\ t \in member["delayed"] \/ \E n \in 1..Len(waiting) : waiting[n] = t

\* A pending task is never dropped between the list, the sets and the workers.
\* A sync task is its request's, and is listed only if its key is sent again.
NothingForgotten ==
  \A t \in Tasks \ SyncTasks : status[t] \in Pending => InHand(t) \/ Carried(t)

\* What an instance owes at its start: once every instance is up again, no
\* pending task is left that Redis will not hand to a worker.
RecoveredAtStart ==
  (\A i \in Instances : th[i].pc = "up") => NothingForgotten

\* Retries are counted in Redis, across workers: without faults no task gets more
\* attempts than configured, and a crash or an error costs one more at most.
AttemptsBounded ==
  \A t \in Tasks : attempts[t] <= MaxAttempts + crashes + errors

\* Requests that arrive together do not slip past the limit on pending tasks: the
\* tasks that were let in, besides those still being decided on, fit.  Sync tasks
\* are let in without a check, and count when others are checked.
WithinLimit ==
  Cardinality({t \in Tasks \ SyncTasks :
                 /\ status[t] \in Pending
                 /\ \A c \in Clients : th[c].task = t =>
                      th[c].pc \notin {"admitting", "refusing"}}) <= QueueLimit

\* A dead letter is the end: its task has failed and its price was refunded.  A
\* sync task whose key is sent again can be listed while its request runs it, and
\* then be buried by a worker that finds it processing: it is not meant here.
DeadLettersHaveFailed ==
  \A t \in dead \ SyncTasks : status[t] = "failed" \/ InHand(t)

\* Once a task is settled and nobody has it in hand, Redis neither holds a lock
\* on it nor shows it as active, and the time it was started is forgotten unless
\* a late heartbeat has written it again.
NothingHeldAfterwards ==
  \A t \in Tasks : status[t] \in Terminal /\ ~InHand(t) =>
    /\ lock[t] = Free
    /\ t \notin member["active"]
    /\ t \in member["started"] => t \in SlowBeats

\* Every task that was accepted is settled in the end.
EventuallySettled ==
  \A t \in Tasks : status[t] \in Pending ~> status[t] \in Terminal
=============================================================================
