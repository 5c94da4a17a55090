-------------------------- MODULE TaskLedgerProofs --------------------------
(***************************************************************************)
(* Proofs about TaskLedger for any number of users, tasks and threads.     *)
(***************************************************************************)
EXTENDS TaskLedger, FiniteSetTheorems, WellFoundedInduction, TLAPS

-----------------------------------------------------------------------------
(* What a step does to the threads *)

\* Only p moves: to a label of L, at work on j (or nothing).
Moves(p, L, j) ==
  /\ th' \in [Threads -> Thread]
  /\ th'[p].pc \in L
  /\ th'[p].job = j
  /\ \A q \in Threads \ {p} : th'[q] = th[q]

LEMMA IdleFacts ==
  /\ Idle \in Thread
  /\ Idle.pc = "idle"
  /\ Idle.job = NoTask
  /\ Idle.balance = 0
  /\ Idle.rung = "request"
  BY DEF Thread, Idle, Labels, Rungs, Urls

\* A thread's record written by Become is the one that is read afterwards.
LEMMA BecomeFacts ==
  ASSUME TypeOK, NEW p \in Threads, NEW r \in Thread, Become(p, r)
  PROVE  /\ Moves(p, {r.pc}, r.job)
         /\ th'[p] = r
  BY DEF TypeOK, Become, Moves

LEMMA LabelFacts ==
  ASSUME NEW r \in Thread, NEW label \in Labels
  PROVE  /\ [r EXCEPT !.pc = label] \in Thread
         /\ [r EXCEPT !.pc = label].pc = label
         /\ [r EXCEPT !.pc = label].job = r.job
  BY DEF Thread

LEMMA GotoMoves ==
  ASSUME TypeOK, NEW p \in Threads, NEW label \in Labels, Goto(p, label)
  PROVE  Moves(p, {label}, th[p].job)
<1> DEFINE r == [th[p] EXCEPT !.pc = label]
<1>1. th[p] \in Thread
  BY DEF TypeOK
<1>2. r \in Thread /\ r.pc = label /\ r.job = th[p].job
  BY <1>1, LabelFacts
<1>3. Become(p, r)
  BY DEF Goto
<1> HIDE DEF r
<1> QED
  BY <1>2, <1>3, BecomeFacts

LEMMA LeaveMoves ==
  ASSUME TypeOK, NEW p \in Threads, Leave(p)
  PROVE  Moves(p, {"idle"}, NoTask)
BY IdleFacts, BecomeFacts DEF Leave

\* Where the steps of creating a task take the thread.
LEMMA CreateMoves ==
  ASSUME TypeOK, NEW p \in Threads
  PROVE  /\ \A t \in Tasks : StartCreate(p, t) =>
              /\ Moves(p, {"creating"}, t)
              /\ th'[p].rung = "request"
         /\ th[p].job \in Tasks /\ OpenWallet(p) =>
              /\ Moves(p, {"opening"}, th[p].job)
              /\ th'[p].balance = wallet[Owner[th[p].job]]
              /\ th'[p].rung = th[p].rung
         /\ th[p].job \in Tasks /\ InsertTask(p) => Moves(p, {"opened"}, th[p].job)
<1>0. th[p] \in Thread
  BY DEF TypeOK
<1>1. ASSUME NEW t \in Tasks, StartCreate(p, t)
      PROVE  Moves(p, {"creating"}, t) /\ th'[p].rung = "request"
  <2> DEFINE r == [Idle EXCEPT !.pc = "creating", !.job = t]
  <2>1. r \in Thread /\ r.pc = "creating" /\ r.job = t /\ r.rung = "request"
    BY IdleFacts DEF Thread, Labels, Rungs
  <2>2. Become(p, r)
    BY <1>1 DEF StartCreate
  <2> HIDE DEF r
  <2> QED
    BY <2>1, <2>2, BecomeFacts
<1>2. ASSUME th[p].job \in Tasks, OpenWallet(p)
      PROVE  /\ Moves(p, {"opening"}, th[p].job)
             /\ th'[p].balance = wallet[Owner[th[p].job]]
             /\ th'[p].rung = th[p].rung
  <2> DEFINE w == wallet[Owner[th[p].job]]
             r == [th[p] EXCEPT !.pc = "opening", !.balance = w]
  <2>1. w \in Int
    BY <1>2, TasksAssumption DEF TypeOK
  <2>2. Become(p, r)
    BY <1>2 DEF OpenWallet
  <2> HIDE DEF w
  <2>3. r \in Thread /\ r.pc = "opening" /\ r.job = th[p].job /\ r.balance = w
        /\ r.rung = th[p].rung
    BY <1>0, <2>1 DEF Thread, Labels
  <2> HIDE DEF r
  <2>4. /\ Moves(p, {"opening"}, th[p].job)
        /\ th'[p].balance = w
        /\ th'[p].rung = th[p].rung
    BY <2>2, <2>3, BecomeFacts
  <2> QED
    BY <2>4 DEF w
<1>3. ASSUME th[p].job \in Tasks, InsertTask(p) PROVE Moves(p, {"opened"}, th[p].job)
  <2> DEFINE t == th[p].job
             r == [Idle EXCEPT !.pc = "opened", !.job = t]
  <2>1. Become(p, r)
    BY <1>3 DEF InsertTask
  <2> HIDE DEF t
  <2>2. r \in Thread /\ r.pc = "opened" /\ r.job = t
    BY <1>3, IdleFacts DEF Thread, Labels, t
  <2> HIDE DEF r
  <2>3. Moves(p, {"opened"}, t)
    BY <2>1, <2>2, BecomeFacts
  <2> QED
    BY <2>3 DEF t
<1> QED
  BY <1>1, <1>2, <1>3

-----------------------------------------------------------------------------
(* Quiet steps: a thread moves on and no table changes *)

Busy == {"opened", "loaded", "claimed", "calling", "returned", "requeueing",
         "failing", "rescue"}

\* p leaves, goes on with a task that has a row, or is ready to settle it.
Quiet(p) ==
  \/ Moves(p, {"idle"}, NoTask)
  \/ \E j \in Tasks :
       /\ status[j] # "none"
       /\ Moves(p, Busy, j)
  \/ \E j \in Tasks :
       /\ status[j] # "none"
       /\ Delivered(j) >= ImageCount[j]
       /\ Moves(p, {"settling"}, j)

QuietStep(p) ==
  /\ Quiet(p)
  /\ th[p].pc \notin {"opening", "deleting"}
  /\ UNCHANGED <<database, money, locks>>

\* The work on the task of p goes on, or ends.
LEMMA GotoQuiet ==
  ASSUME LedgerInvariant, NEW p \in Threads,
         th[p].pc \notin {"idle", "creating", "opening"},
         NEW label \in Busy, Goto(p, label)
  PROVE  Quiet(p)
<1>1. Moves(p, {label}, th[p].job)
  BY GotoMoves DEF LedgerInvariant, Busy, Labels
<1>2. Moves(p, Busy, th[p].job)
  BY <1>1 DEF Moves
<1> QED
  BY <1>2 DEF Quiet, LedgerInvariant, JobsExist, RowsExist

LEMMA LeaveQuiet ==
  ASSUME LedgerInvariant, NEW p \in Threads, Leave(p)
  PROVE  Quiet(p)
BY LeaveMoves DEF Quiet, LedgerInvariant

LEMMA AfterErrorQuiet ==
  ASSUME LedgerInvariant, NEW p \in Threads,
         th[p].pc \notin {"idle", "creating", "opening"},
         NEW retryable \in BOOLEAN, AfterError(p, retryable)
  PROVE  Quiet(p)
<1>1. CASE Goto(p, "requeueing")
  BY <1>1, GotoQuiet DEF Busy
<1>2. CASE Goto(p, "failing")
  BY <1>2, GotoQuiet DEF Busy
<1> QED
  BY <1>1, <1>2 DEF AfterError

\* The same with other fields of the record changed as well.
LEMMA BecomeQuiet ==
  ASSUME LedgerInvariant, NEW p \in Threads, NEW r \in Thread, Become(p, r),
         r.pc \in Busy, r.job \in Tasks, status[r.job] # "none"
  PROVE  Quiet(p)
<1>1. Moves(p, {r.pc}, r.job)
  BY BecomeFacts DEF LedgerInvariant
<1>2. Moves(p, Busy, r.job)
  BY <1>1 DEF Moves
<1> QED
  BY <1>2 DEF Quiet

LEMMA DeliveredIsNat ==
  ASSUME TypeOK, NEW t \in Tasks
  PROVE  Delivered(t) \in Nat
BY FS_CardinalityType DEF TypeOK, Delivered

\* The steps of processTask that only read the database.
LEMMA ProcessQuiet ==
  ASSUME LedgerInvariant, NEW p \in Threads,
         \/ EnqueueTask(p) \/ EnqueueFails(p) \/ StartSync(p)
         \/ \E t \in Tasks : PickUp(p, t)
         \/ NoGateway(p) \/ CountExisting(p) \/ FallBackToSingles(p)
         \/ SkipImage(p) \/ EndCall(p) \/ CallFails(p) \/ Tally(p)
         \/ CaughtError(p) \/ Rescue(p)
         \/ \E t \in Tasks : WorkerException(p, t)
  PROVE  QuietStep(p)
<1> USE DEF QuietStep, At
<1>0. th[p] \in Thread
  BY DEF LedgerInvariant, TypeOK
<1>a. /\ th[p].pc # "idle" => th[p].job \in Tasks
      /\ th[p].pc \notin {"idle", "creating", "opening"} => status[th[p].job] # "none"
  BY DEF LedgerInvariant, JobsExist, RowsExist
<1>1. CASE EnqueueTask(p)
  BY <1>1, LeaveQuiet DEF EnqueueTask
<1>2. CASE EnqueueFails(p)
  BY <1>2, GotoQuiet DEF EnqueueFails, Busy
<1>3. CASE StartSync(p)
  <2>1. CASE Leave(p)
    BY <1>3, <2>1, LeaveQuiet DEF StartSync
  <2>2. CASE Become(p, [th[p] EXCEPT !.pc = "loaded", !.final = TRUE])
    <3> DEFINE r == [th[p] EXCEPT !.pc = "loaded", !.final = TRUE]
    <3>1. r \in Thread /\ r.pc = "loaded" /\ r.job = th[p].job
      BY <1>0 DEF Thread, Labels
    <3>2. Become(p, r)
      BY <2>2
    <3> HIDE DEF r
    <3> QED
      BY <1>3, <1>a, <3>1, <3>2, BecomeQuiet DEF StartSync, Busy
  <2> QED
    BY <1>3, <2>1, <2>2 DEF StartSync
<1>4. ASSUME NEW t \in Tasks, PickUp(p, t) PROVE QuietStep(p)
  <2>1. PICK final \in BOOLEAN :
          Become(p, [Idle EXCEPT !.pc = "loaded", !.job = t,
                                 !.final = final, !.rung = "worker"])
    BY <1>4 DEF PickUp
  <2> DEFINE r == [Idle EXCEPT !.pc = "loaded", !.job = t,
                               !.final = final, !.rung = "worker"]
  <2>2. r \in Thread /\ r.pc = "loaded" /\ r.job = t
    BY IdleFacts DEF Thread, Labels, Rungs
  <2>3. Become(p, r)
    BY <2>1
  <2> HIDE DEF r
  <2> QED
    BY <1>4, <2>2, <2>3, BecomeQuiet DEF PickUp, Busy
<1>5. CASE NoGateway(p)
  BY <1>5, GotoQuiet DEF NoGateway, Busy
<1>6. CASE CountExisting(p)
  <2> DEFINE t == th[p].job
             r == [th[p] EXCEPT !.pc = "calling", !.kept = 0,
                                !.cursor = Delivered(t), !.singles = FALSE]
  <2>1. CASE Delivered(t) >= ImageCount[t]
    <3>1. Moves(p, {"settling"}, t)
      BY <1>6, <2>1, GotoMoves DEF CountExisting, LedgerInvariant, Labels
    <3> QED
      BY <1>6, <1>a, <2>1, <3>1 DEF CountExisting, Quiet
  <2>2. CASE ~(Delivered(t) >= ImageCount[t])
    <3>1. Become(p, r)
      BY <1>6, <2>2 DEF CountExisting
    <3>2. Delivered(t) \in Nat
      BY <1>6, <1>a, DeliveredIsNat DEF CountExisting, LedgerInvariant
    <3>3. r \in Thread /\ r.pc = "calling" /\ r.job = t
      BY <1>0, <3>2 DEF Thread, Labels
    <3> HIDE DEF r
    <3> QED
      BY <1>6, <1>a, <3>1, <3>3, BecomeQuiet DEF CountExisting, Busy
  <2> QED
    BY <2>1, <2>2
<1>7. CASE FallBackToSingles(p)
  <2> DEFINE r == [th[p] EXCEPT !.singles = TRUE]
  <2>1. r \in Thread /\ r.pc = th[p].pc /\ r.job = th[p].job
    BY <1>0 DEF Thread
  <2>2. Become(p, r)
    BY <1>7 DEF FallBackToSingles
  <2> HIDE DEF r
  <2> QED
    BY <1>7, <1>a, <2>1, <2>2, BecomeQuiet DEF FallBackToSingles, Busy
<1>8. CASE SkipImage(p)
  <2> DEFINE r == [th[p] EXCEPT !.cursor = @ + 1]
  <2>1. r \in Thread /\ r.pc = th[p].pc /\ r.job = th[p].job
    BY <1>0 DEF Thread
  <2>2. Become(p, r)
    BY <1>8 DEF SkipImage
  <2> HIDE DEF r
  <2> QED
    BY <1>8, <1>a, <2>1, <2>2, BecomeQuiet DEF SkipImage, Busy
<1>9. CASE EndCall(p)
  BY <1>9, GotoQuiet DEF EndCall, Busy
<1>10. CASE CallFails(p)
  <2>1. CASE Goto(p, "failing")
    BY <1>10, <2>1, GotoQuiet DEF CallFails, Busy
  <2>2. ASSUME NEW retryable \in BOOLEAN, AfterError(p, retryable) PROVE QuietStep(p)
    BY <1>10, <2>2, AfterErrorQuiet DEF CallFails
  <2> QED
    BY <1>10, <2>1, <2>2 DEF CallFails
<1>11. CASE Tally(p)
  <2>1. ASSUME NEW retryable \in BOOLEAN, AfterError(p, retryable) PROVE QuietStep(p)
    BY <1>11, <2>1, AfterErrorQuiet DEF Tally
  <2>2. CASE Delivered(th[p].job) >= ImageCount[th[p].job] /\ Goto(p, "settling")
    <3>1. Moves(p, {"settling"}, th[p].job)
      BY <2>2, GotoMoves DEF LedgerInvariant, Labels
    <3> QED
      BY <1>11, <1>a, <2>2, <3>1 DEF Tally, Quiet
  <2> QED
    BY <1>11, <2>1, <2>2 DEF Tally
<1>12. CASE CaughtError(p)
  BY <1>12, AfterErrorQuiet DEF CaughtError
<1>13. CASE Rescue(p)
  BY <1>13, LeaveQuiet, AfterErrorQuiet DEF Rescue
<1>14. ASSUME NEW t \in Tasks, WorkerException(p, t) PROVE QuietStep(p)
  <2> DEFINE r == [Idle EXCEPT !.pc = "failing", !.job = t, !.rung = "giveUp"]
  <2>1. r \in Thread /\ r.pc = "failing" /\ r.job = t
    BY IdleFacts DEF Thread, Labels, Rungs
  <2>2. Become(p, r)
    BY <1>14 DEF WorkerException
  <2> HIDE DEF r
  <2> QED
    BY <1>14, <2>1, <2>2, BecomeQuiet DEF WorkerException, Busy, Pending
<1> QED
  BY <1>1, <1>2, <1>3, <1>4, <1>5, <1>6, <1>7, <1>8, <1>9, <1>10, <1>11, <1>12,
     <1>13, <1>14

\* A quiet step preserves the invariant.
LEMMA QuietPreserves ==
  ASSUME LedgerInvariant, NEW p \in Threads, QuietStep(p)
  PROVE  LedgerInvariant'
<1> USE DEF LedgerInvariant, QuietStep, database, money, locks
<1>1. TypeOK'
  BY DEF TypeOK, Quiet, Moves
<1>2. JobsExist' /\ RowsExist'
  BY DEF JobsExist, RowsExist, Quiet, Moves, Busy
<1>3. CreatorsAlone'
  BY DEF CreatorsAlone, Quiet, Moves, Busy
<1>4. WalletLocked' /\ RowLocked'
  BY DEF WalletLocked, RowLocked, Quiet, Moves, Busy
<1>5. ReadyToSettle'
  BY DEF ReadyToSettle, Quiet, Moves, Busy, Delivered
<1>6. SettledExactlyOnce' /\ SuccessDelivers' /\ OneTaskPerKey'
  BY DEF SettledExactlyOnce, SuccessDelivers, OneTaskPerKey, Delivered
<1> QED
  BY <1>1, <1>2, <1>3, <1>4, <1>5, <1>6

-----------------------------------------------------------------------------
(* Steps that change a table or a lock *)

LEMMA StartCreatePreserves ==
  ASSUME LedgerInvariant, NEW p \in Threads, NEW t \in Tasks, StartCreate(p, t)
  PROVE  LedgerInvariant'
<1> USE DEF LedgerInvariant, database, money, locks
<1>1. Moves(p, {"creating"}, t) /\ th'[p].rung = "request"
  BY CreateMoves
<1>2. /\ status[t] = "none"
      /\ \A q \in Threads : th[q].job # t
      /\ UNCHANGED <<database, money, locks>>
  BY DEF StartCreate
<1>3. TypeOK'
  BY <1>1, <1>2 DEF TypeOK, Moves
<1>4. JobsExist' /\ RowsExist'
  BY <1>1, <1>2 DEF JobsExist, RowsExist, Moves
<1>5. CreatorsAlone'
  BY <1>1, <1>2 DEF CreatorsAlone, Moves
<1>6. WalletLocked' /\ RowLocked' /\ ReadyToSettle'
  BY <1>1, <1>2 DEF WalletLocked, RowLocked, ReadyToSettle, Moves, Delivered
<1>7. SettledExactlyOnce' /\ SuccessDelivers' /\ OneTaskPerKey'
  BY <1>2 DEF SettledExactlyOnce, SuccessDelivers, OneTaskPerKey, Delivered
<1> QED
  BY <1>3, <1>4, <1>5, <1>6, <1>7

LEMMA OpenWalletPreserves ==
  ASSUME LedgerInvariant, NEW p \in Threads, OpenWallet(p)
  PROVE  LedgerInvariant'
<1> USE DEF LedgerInvariant, database, money
<1> DEFINE t == th[p].job
           u == Owner[t]
<1>1. /\ th[p].pc = "creating"
      /\ t \in Tasks
      /\ u \in Users
      /\ walletLock[u] = NoThread
      /\ walletLock' = [walletLock EXCEPT ![u] = p]
      /\ UNCHANGED <<database, money, rowLock>>
  BY TasksAssumption DEF OpenWallet, At, JobsExist
<1>2. /\ Moves(p, {"opening"}, t)
      /\ th'[p].balance = wallet[u]
      /\ th'[p].rung = th[p].rung
  BY <1>1, CreateMoves
<1> HIDE DEF t, u
<1>3. TypeOK'
  BY <1>1, <1>2 DEF TypeOK, Moves
<1>4. JobsExist' /\ RowsExist'
  BY <1>1, <1>2 DEF JobsExist, RowsExist, Moves
<1>5. CreatorsAlone'
  BY <1>1, <1>2 DEF CreatorsAlone, Moves, t
<1>6. WalletLocked'
  <2> SUFFICES ASSUME NEW q \in Threads, th'[q].pc = "opening"
               PROVE  /\ walletLock'[Owner[th'[q].job]] = q
                      /\ th'[q].balance = wallet'[Owner[th'[q].job]]
    BY DEF WalletLocked
  <2>1. CASE q = p
    BY <1>1, <1>2, <2>1 DEF Moves, TypeOK, u
  <2>2. CASE q # p
    BY <1>1, <1>2, <2>2, ThreadsAssumption DEF Moves, TypeOK, WalletLocked
  <2> QED
    BY <2>1, <2>2
<1>7. RowLocked' /\ ReadyToSettle'
  BY <1>1, <1>2 DEF RowLocked, ReadyToSettle, Moves, Delivered
<1>8. SettledExactlyOnce' /\ SuccessDelivers' /\ OneTaskPerKey'
  BY <1>1 DEF SettledExactlyOnce, SuccessDelivers, OneTaskPerKey, Delivered
<1> QED
  BY <1>3, <1>4, <1>5, <1>6, <1>7, <1>8

\* A rollback, with p quiet afterwards, leaves every other transaction alone.
LEMMA RollbackPreserves ==
  ASSUME LedgerInvariant, NEW p \in Threads, Quiet(p), Rollback(p),
         UNCHANGED <<database, money>>
  PROVE  LedgerInvariant'
<1> USE DEF LedgerInvariant, database, money
<1>1. TypeOK'
  BY DEF TypeOK, Quiet, Moves, Rollback
<1>2. JobsExist' /\ RowsExist'
  BY DEF JobsExist, RowsExist, Quiet, Moves, Busy
<1>3. CreatorsAlone'
  BY DEF CreatorsAlone, Quiet, Moves, Busy
<1>4. WalletLocked'
  <2> SUFFICES ASSUME NEW q \in Threads, th'[q].pc = "opening"
               PROVE  /\ walletLock'[Owner[th'[q].job]] = q
                      /\ th'[q].balance = wallet'[Owner[th'[q].job]]
    BY DEF WalletLocked
  <2>1. q # p /\ th'[q] = th[q]
    BY DEF Quiet, Moves, Busy
  <2>2. th[q].job \in Tasks /\ Owner[th[q].job] \in Users
    BY <2>1, TasksAssumption DEF JobsExist
  <2> QED
    BY <2>1, <2>2 DEF WalletLocked, Rollback
<1>5. RowLocked'
  <2> SUFFICES ASSUME NEW q \in Threads, th'[q].pc = "deleting"
               PROVE  /\ rowLock'[th'[q].job] = q
                      /\ status'[th'[q].job] \in Pending
    BY DEF RowLocked
  <2>1. q # p /\ th'[q] = th[q]
    BY DEF Quiet, Moves, Busy
  <2>2. th[q].job \in Tasks
    BY <2>1 DEF JobsExist
  <2> QED
    BY <2>1, <2>2 DEF RowLocked, Rollback
<1>6. ReadyToSettle'
  BY DEF ReadyToSettle, Quiet, Moves, Busy, Delivered
<1>7. SettledExactlyOnce' /\ SuccessDelivers' /\ OneTaskPerKey'
  BY DEF SettledExactlyOnce, SuccessDelivers, OneTaskPerKey, Delivered
<1> QED
  BY <1>1, <1>2, <1>3, <1>4, <1>5, <1>6, <1>7

LEMMA AbandonPreserves ==
  ASSUME LedgerInvariant, NEW p \in Threads, At(p, "opening"), AbandonCreate(p)
  PROVE  LedgerInvariant'
<1> USE DEF LedgerInvariant, database, money
<1>1. Moves(p, {"idle"}, NoTask)
  BY LeaveMoves DEF AbandonCreate
<1>2. UNCHANGED <<database, money, rowLock>>
  BY DEF AbandonCreate
<1>3. TypeOK'
  BY <1>1, <1>2 DEF TypeOK, Moves, AbandonCreate
<1>4. JobsExist' /\ RowsExist' /\ CreatorsAlone'
  BY <1>1, <1>2 DEF JobsExist, RowsExist, CreatorsAlone, Moves
<1>5. WalletLocked'
  <2> SUFFICES ASSUME NEW q \in Threads, th'[q].pc = "opening"
               PROVE  /\ walletLock'[Owner[th'[q].job]] = q
                      /\ th'[q].balance = wallet'[Owner[th'[q].job]]
    BY DEF WalletLocked
  <2>1. q # p /\ th'[q] = th[q]
    BY <1>1 DEF Moves
  <2>2. Owner[th[q].job] # Owner[th[p].job]
    BY <2>1 DEF WalletLocked, At
  <2>3. Owner[th[q].job] \in Users
    BY <2>1, TasksAssumption DEF JobsExist
  <2> QED
    BY <1>2, <2>1, <2>2, <2>3 DEF WalletLocked, AbandonCreate, TypeOK
<1>6. RowLocked' /\ ReadyToSettle'
  BY <1>1, <1>2 DEF RowLocked, ReadyToSettle, Moves, Delivered
<1>7. SettledExactlyOnce' /\ SuccessDelivers' /\ OneTaskPerKey'
  BY <1>2 DEF SettledExactlyOnce, SuccessDelivers, OneTaskPerKey, Delivered
<1> QED
  BY <1>3, <1>4, <1>5, <1>6, <1>7

LEMMA InsertTaskPreserves ==
  ASSUME LedgerInvariant, NEW p \in Threads, InsertTask(p)
  PROVE  LedgerInvariant'
<1> USE DEF LedgerInvariant
<1> DEFINE t == th[p].job
           u == Owner[t]
<1>1. /\ th[p].pc = "opening"
      /\ t \in Tasks
      /\ u \in Users
      /\ ~KeyTaken(t)
      /\ status' = [status EXCEPT ![t] = "queued"]
      /\ hold' = [hold EXCEPT ![t] = Cost[t]]
      /\ wallet' = [wallet EXCEPT ![u] = @ - Cost[t]]
      /\ walletLock' = [walletLock EXCEPT ![u] = NoThread]
      /\ UNCHANGED <<results, refund, usage, credited, rowLock>>
  BY TasksAssumption DEF InsertTask, At, JobsExist
<1>2. Moves(p, {"opened"}, t)
  BY <1>1, CreateMoves
<1>3. status[t] = "none"
  BY <1>1 DEF CreatorsAlone
<1>4. \A q \in Threads \ {p} : th[q].pc = "opening" => Owner[th[q].job] # u
  BY <1>1 DEF WalletLocked
<1>5. \A q \in Threads \ {p} : th[q].pc # "idle" => th[q].job # t
  BY <1>1, <1>3 DEF CreatorsAlone, RowsExist
<1> HIDE DEF t, u
<1>6. TypeOK'
  <2>1. Cost[t] \in Nat \ {0}
    BY <1>1, TasksAssumption
  <2> QED
    BY <1>1, <1>2, <2>1 DEF TypeOK, Moves, Statuses, Pending
<1>7. JobsExist' /\ RowsExist'
  BY <1>1, <1>2 DEF JobsExist, RowsExist, Moves, TypeOK
<1>8. CreatorsAlone'
  BY <1>1, <1>2, <1>5 DEF CreatorsAlone, JobsExist, Moves, TypeOK
<1>9. WalletLocked'
  <2> SUFFICES ASSUME NEW q \in Threads, th'[q].pc = "opening"
               PROVE  /\ walletLock'[Owner[th'[q].job]] = q
                      /\ th'[q].balance = wallet'[Owner[th'[q].job]]
    BY DEF WalletLocked
  <2>1. q # p /\ th'[q] = th[q]
    BY <1>2 DEF Moves
  <2>2. Owner[th[q].job] # u
    BY <1>4, <2>1
  <2>3. Owner[th[q].job] \in Users
    BY <2>1, TasksAssumption DEF JobsExist
  <2> QED
    BY <1>1, <2>1, <2>2, <2>3 DEF WalletLocked, TypeOK
<1>10. RowLocked'
  BY <1>1, <1>2, <1>5 DEF RowLocked, Moves, TypeOK
<1>11. ReadyToSettle'
  BY <1>1, <1>2, <1>5 DEF ReadyToSettle, Moves, TypeOK, Delivered
<1>12. SettledExactlyOnce'
  BY <1>1, <1>3 DEF SettledExactlyOnce, TypeOK, Terminal
<1>13. SuccessDelivers'
  BY <1>1, <1>3 DEF SuccessDelivers, TypeOK, Delivered
<1>14. OneTaskPerKey'
  <2> SUFFICES ASSUME NEW a \in Tasks, NEW b \in Tasks, a # b,
                      Key[a] = Key[b], Key[b] # NoKey,
                      status'[a] # "none", status'[b] # "none"
               PROVE  FALSE
    BY DEF OneTaskPerKey
  <2>1. CASE a # t /\ b # t
    BY <1>1, <2>1 DEF OneTaskPerKey, TypeOK
  <2>2. CASE a = t \/ b = t
    BY <1>1, <2>2 DEF KeyTaken, TypeOK
  <2> QED
    BY <2>1, <2>2
<1> QED
  BY <1>6, <1>7, <1>8, <1>9, <1>10, <1>11, <1>12, <1>13, <1>14

\* queued and processing alternate; every other fact is about the row's
\* existence, its settlement or its images.
LEMMA ShufflePreserves ==
  ASSUME LedgerInvariant, NEW t \in Tasks, status[t] \in Pending,
         NEW s \in Pending, status' = [status EXCEPT ![t] = s],
         \/ UNCHANGED th
         \/ \E p \in Threads : Quiet(p) /\ th[p].pc \notin {"opening", "deleting"},
         UNCHANGED <<results, hold, refund, usage, money, locks>>
  PROVE  LedgerInvariant'
<1> USE DEF LedgerInvariant, money, locks
<1>1. \A j \in Tasks :
        /\ status'[j] \in Statuses
        /\ (status'[j] = "none") = (status[j] = "none")
        /\ (status'[j] = "success") = (status[j] = "success")
        /\ (status'[j] = "failed") = (status[j] = "failed")
        /\ (status'[j] \in Pending) = (status[j] \in Pending)
        /\ (status'[j] \in Terminal) = (status[j] \in Terminal)
        /\ status[j] \in Terminal => status'[j] = status[j]
  BY DEF TypeOK, Pending, Terminal, Statuses
<1>2. TypeOK'
  BY <1>1 DEF TypeOK, Quiet, Moves
<1>3. JobsExist'
  BY DEF JobsExist, Quiet, Moves, Busy
<1>4. RowsExist'
  BY <1>1 DEF RowsExist, JobsExist, Quiet, Moves, Busy
<1>5. CreatorsAlone'
  BY <1>1 DEF CreatorsAlone, JobsExist, Quiet, Moves, Busy
<1>6. WalletLocked'
  BY DEF WalletLocked, Quiet, Moves, Busy
<1>7. RowLocked'
  BY <1>1 DEF RowLocked, JobsExist, Quiet, Moves, Busy
<1>8. ReadyToSettle'
  BY <1>1 DEF ReadyToSettle, JobsExist, Quiet, Moves, Busy, Delivered
<1>9. SettledExactlyOnce'
  BY <1>1 DEF SettledExactlyOnce
<1>10. SuccessDelivers' /\ OneTaskPerKey'
  BY <1>1 DEF SuccessDelivers, OneTaskPerKey, Delivered
<1> QED
  BY <1>2, <1>3, <1>4, <1>5, <1>6, <1>7, <1>8, <1>9, <1>10

LEMMA ClaimPreserves ==
  ASSUME LedgerInvariant, NEW p \in Threads, Claim(p)
  PROVE  LedgerInvariant'
<1> DEFINE t == th[p].job
<1>1. t \in Tasks /\ th[p].pc = "loaded"
  BY DEF LedgerInvariant, JobsExist, Claim, At
<1>2. CASE status[t] = "queued"
  <2>1. Quiet(p)
    BY <1>1, <1>2, GotoQuiet DEF Claim, Busy
  <2>2. status' = [status EXCEPT ![t] = "processing"]
    BY <1>2 DEF Claim
  <2> QED
    BY <1>1, <1>2, <2>1, <2>2, ShufflePreserves DEF Claim, Pending
<1>3. CASE status[t] # "queued"
  <2>1. QuietStep(p)
    BY <1>1, <1>3, LeaveQuiet DEF Claim, QuietStep, database
  <2> QED
    BY <2>1, QuietPreserves
<1> QED
  BY <1>2, <1>3

LEMMA RequeuePreserves ==
  ASSUME LedgerInvariant, NEW p \in Threads, Requeue(p)
  PROVE  LedgerInvariant'
<1> DEFINE t == th[p].job
<1>1. t \in Tasks /\ th[p].pc = "requeueing"
  BY DEF LedgerInvariant, JobsExist, Requeue, At
<1>2. Quiet(p)
  BY LeaveQuiet DEF Requeue
<1>3. CASE status[t] = "processing"
  <2>1. status' = [status EXCEPT ![t] = "queued"]
    BY <1>3 DEF Requeue
  <2> QED
    BY <1>1, <1>2, <1>3, <2>1, ShufflePreserves DEF Requeue, Pending
<1>4. CASE status[t] # "processing"
  <2>1. QuietStep(p)
    BY <1>1, <1>2, <1>4 DEF Requeue, QuietStep, database
  <2> QED
    BY <2>1, QuietPreserves
<1> QED
  BY <1>3, <1>4

LEMMA RecoverPreserves ==
  ASSUME LedgerInvariant, NEW t \in Tasks, RecoverProcessing(t)
  PROVE  LedgerInvariant'
BY ShufflePreserves DEF RecoverProcessing, Pending

LEMMA PersistImagePreserves ==
  ASSUME LedgerInvariant, NEW p \in Threads, PersistImage(p)
  PROVE  LedgerInvariant'
<1> USE DEF LedgerInvariant, money, locks
<1> DEFINE t == th[p].job
           r == [th[p] EXCEPT !.cursor = @ + 1, !.kept = @ + 1]
<1>1. /\ th[p].pc = "calling"
      /\ t \in Tasks
      /\ UNCHANGED <<status, hold, refund, usage, money, locks>>
  BY DEF PersistImage, At, JobsExist
<1>0. th[p] \in Thread
  BY DEF TypeOK
<1>2. r \in Thread /\ r.pc = "calling" /\ r.job = t
  <2>1. r.pc = th[p].pc /\ r.job = th[p].job
    BY <1>0 DEF Thread
  <2>2. th[p].cursor + 1 \in Nat /\ th[p].kept + 1 \in Nat
    BY <1>0 DEF Thread
  <2> QED
    BY <1>0, <1>1, <2>1, <2>2 DEF Thread
<1>3. Become(p, r)
  BY DEF PersistImage
<1> HIDE DEF r
<1>4. Quiet(p)
  BY <1>1, <1>2, <1>3, BecomeQuiet DEF Busy, RowsExist
<1>5. /\ results' \in [Tasks -> SUBSET Urls]
      /\ \A j \in Tasks : IsFiniteSet(results'[j]) /\ results[j] \subseteq results'[j]
  <2>1. CASE status[t] = "processing"
    <3>1. PICK url : /\ url \in {Stored(th[p].cursor)} \cup {External(x) : x \in ExternalUrls}
                     /\ results' = [results EXCEPT ![t] = @ \cup {url}]
      BY <2>1 DEF PersistImage
    <3>2. th[p].cursor \in Nat
      BY DEF TypeOK, Thread
    <3>3. url \in Urls
      BY <3>1, <3>2 DEF Urls, Stored, External
    <3>4. IsFiniteSet(results[t] \cup {url})
      BY <1>1, FS_AddElement DEF TypeOK
    <3> QED
      BY <1>1, <3>1, <3>3, <3>4 DEF TypeOK
  <2>2. CASE status[t] # "processing"
    BY <2>2 DEF PersistImage, TypeOK
  <2> QED
    BY <2>1, <2>2
<1>6. \A j \in Tasks : Delivered(j) \in Nat /\ Delivered(j)' \in Nat
                       /\ Delivered(j) <= Delivered(j)'
  BY <1>5, FS_Subset, FS_CardinalityType DEF Delivered, TypeOK
<1>7. TypeOK'
  BY <1>1, <1>4, <1>5 DEF TypeOK, Quiet, Moves
<1>8. JobsExist' /\ RowsExist' /\ CreatorsAlone'
  BY <1>1, <1>4 DEF JobsExist, RowsExist, CreatorsAlone, Quiet, Moves, Busy
<1>9. WalletLocked' /\ RowLocked'
  BY <1>1, <1>4 DEF WalletLocked, RowLocked, Quiet, Moves, Busy
<1>10. ReadyToSettle'
  <2>1. Moves(p, {"calling"}, t)
    BY <1>2, <1>3, BecomeFacts
  <2>2. ASSUME NEW q \in Threads, th'[q].pc = "settling", status[th'[q].job] \in Pending
        PROVE  Cardinality(results'[th'[q].job]) >= ImageCount[th'[q].job]
    <3>1. q # p /\ th'[q] = th[q] /\ th[q].job \in Tasks
      BY <2>1, <2>2 DEF Moves, JobsExist
    <3>2. Delivered(th[q].job) >= ImageCount[th[q].job]
      BY <2>2, <3>1 DEF ReadyToSettle
    <3>3. ImageCount[th[q].job] \in Nat
      BY <3>1, TasksAssumption
    <3> QED
      BY <1>6, <3>1, <3>2, <3>3 DEF Delivered
  <2> QED
    BY <1>1, <2>2 DEF ReadyToSettle, Delivered
<1>11. SettledExactlyOnce' /\ OneTaskPerKey'
  BY <1>1 DEF SettledExactlyOnce, OneTaskPerKey
<1>12. SuccessDelivers'
  <2> SUFFICES ASSUME NEW j \in Tasks, status'[j] = "success"
               PROVE  Delivered(j)' >= ImageCount[j]
    BY DEF SuccessDelivers, Delivered
  <2>1. Delivered(j) >= ImageCount[j] /\ ImageCount[j] \in Nat
    BY <1>1, TasksAssumption DEF SuccessDelivers
  <2> QED
    BY <1>6, <2>1
<1> QED
  BY <1>7, <1>8, <1>9, <1>10, <1>11, <1>12

\* Settling is exclusive: the row is free, so no failing transaction is open.
LEMMA CompletePreserves ==
  ASSUME LedgerInvariant, NEW p \in Threads, Complete(p)
  PROVE  LedgerInvariant'
<1> USE DEF LedgerInvariant
<1> DEFINE t == th[p].job
<1>1. /\ th[p].pc = "settling"
      /\ t \in Tasks
      /\ rowLock[t] = NoThread
      /\ UNCHANGED <<results, hold, refund, money, locks>>
  BY DEF Complete, At, JobsExist, RowFree
<1>2. Moves(p, {"idle"}, NoTask)
  BY LeaveMoves DEF Complete
<1>3. CASE status[t] # "processing"
  <2>1. QuietStep(p)
    BY <1>1, <1>2, <1>3 DEF Complete, QuietStep, Quiet, database
  <2> QED
    BY <2>1, QuietPreserves
<1>4. CASE status[t] = "processing"
  <2> USE DEF money, locks
  <2>1. /\ status' = [status EXCEPT ![t] = "success"]
        /\ usage' = [usage EXCEPT ![t] = [outcome |-> "success", credits |-> Cost[t]]]
    BY <1>4 DEF Complete
  <2>2. Delivered(t) >= ImageCount[t]
    BY <1>1, <1>4 DEF ReadyToSettle, Pending
  <2> HIDE DEF t
  <2>3. [outcome |-> "success", credits |-> Cost[t]] \in Usage
    BY <1>1, TasksAssumption DEF Usage
  <2>4. TypeOK'
    BY <1>1, <1>2, <2>1, <2>3 DEF TypeOK, Moves, Statuses, Terminal
  <2>5. JobsExist' /\ RowsExist' /\ CreatorsAlone'
    BY <1>1, <1>2, <1>4, <2>1 DEF JobsExist, RowsExist, CreatorsAlone, Moves, TypeOK
  <2>6. WalletLocked'
    BY <1>1, <1>2 DEF WalletLocked, Moves
  <2>7. RowLocked'
    <3> SUFFICES ASSUME NEW q \in Threads, th'[q].pc = "deleting"
                 PROVE  /\ rowLock'[th'[q].job] = q
                        /\ status'[th'[q].job] \in Pending
      BY DEF RowLocked
    <3>1. th'[q] = th[q]
      BY <1>2 DEF Moves
    <3>2. rowLock[th[q].job] = q /\ status[th[q].job] \in Pending
      BY <3>1 DEF RowLocked
    <3>3. th[q].job # t
      BY <1>1, <3>2, ThreadsAssumption
    <3> QED
      BY <1>1, <2>1, <3>1, <3>2, <3>3 DEF TypeOK
  <2>8. ReadyToSettle'
    <3> SUFFICES ASSUME NEW q \in Threads, th'[q].pc = "settling",
                        status'[th'[q].job] \in Pending
                 PROVE  Cardinality(results'[th'[q].job]) >= ImageCount[th'[q].job]
      BY DEF ReadyToSettle, Delivered
    <3>1. th'[q] = th[q] /\ th[q].job \in Tasks
      BY <1>2 DEF Moves, JobsExist
    <3>2. status[th[q].job] \in Pending
      BY <1>1, <1>4, <2>1, <3>1 DEF TypeOK, Pending
    <3> QED
      BY <1>1, <3>1, <3>2 DEF ReadyToSettle, Delivered
  <2>9. SettledExactlyOnce'
    BY <1>1, <1>4, <2>1 DEF SettledExactlyOnce, TypeOK, Terminal
  <2>10. SuccessDelivers'
    BY <1>1, <2>1, <2>2 DEF SuccessDelivers, Delivered, TypeOK
  <2>11. OneTaskPerKey'
    BY <1>1, <1>4, <2>1 DEF OneTaskPerKey, TypeOK
  <2> QED
    BY <2>4, <2>5, <2>6, <2>7, <2>8, <2>9, <2>10, <2>11
<1> QED
  BY <1>3, <1>4

LEMMA FailBeginPreserves ==
  ASSUME LedgerInvariant, NEW p \in Threads, FailBegin(p)
  PROVE  LedgerInvariant'
<1> USE DEF LedgerInvariant, database, money
<1> DEFINE t == th[p].job
<1>1. /\ th[p].pc = "failing"
      /\ t \in Tasks
      /\ rowLock[t] = NoThread
      /\ UNCHANGED <<database, money, walletLock>>
  BY DEF FailBegin, At, JobsExist, RowFree
<1>2. CASE status[t] \in Terminal
  <2>1. Quiet(p)
    BY <1>2, LeaveQuiet DEF FailBegin
  <2>2. QuietStep(p)
    BY <1>1, <1>2, <2>1 DEF FailBegin, QuietStep, locks
  <2> QED
    BY <2>2, QuietPreserves
<1>3. CASE status[t] \notin Terminal
  <2> DEFINE r == [th[p] EXCEPT !.pc = "deleting", !.doomed = results[t]]
  <2>1. Become(p, r) /\ rowLock' = [rowLock EXCEPT ![t] = p]
    BY <1>3 DEF FailBegin
  <2>2. r \in Thread /\ r.pc = "deleting" /\ r.job = t
    <3>1. th[p] \in Thread /\ results[t] \in SUBSET Urls
      BY <1>1 DEF TypeOK
    <3> QED
      BY <3>1 DEF Thread, Labels
  <2>3. status[t] \in Pending
    BY <1>1, <1>3 DEF RowsExist, TypeOK, Statuses
  <2> HIDE DEF r
  <2>4. Moves(p, {"deleting"}, t)
    BY <2>1, <2>2, BecomeFacts
  <2> HIDE DEF t
  <2>5. TypeOK'
    BY <1>1, <2>1, <2>4 DEF TypeOK, Moves
  <2>6. JobsExist' /\ RowsExist' /\ CreatorsAlone'
    BY <1>1, <2>3, <2>4 DEF JobsExist, RowsExist, CreatorsAlone, Moves, Pending
  <2>7. WalletLocked'
    BY <1>1, <2>4 DEF WalletLocked, Moves
  <2>8. RowLocked'
    <3> SUFFICES ASSUME NEW q \in Threads, th'[q].pc = "deleting"
                 PROVE  /\ rowLock'[th'[q].job] = q
                        /\ status'[th'[q].job] \in Pending
      BY DEF RowLocked
    <3>1. CASE q = p
      BY <1>1, <2>1, <2>3, <2>4, <3>1 DEF Moves, TypeOK
    <3>2. CASE q # p
      <4>1. rowLock[th[q].job] = q /\ status[th[q].job] \in Pending /\ th'[q] = th[q]
        BY <2>4, <3>2 DEF RowLocked, Moves
      <4>2. th[q].job # t
        BY <1>1, <4>1, ThreadsAssumption
      <4> QED
        BY <1>1, <2>1, <4>1, <4>2 DEF TypeOK
    <3> QED
      BY <3>1, <3>2
  <2>9. ReadyToSettle'
    BY <1>1, <2>4 DEF ReadyToSettle, Moves, Delivered
  <2>10. SettledExactlyOnce' /\ SuccessDelivers' /\ OneTaskPerKey'
    BY <1>1 DEF SettledExactlyOnce, SuccessDelivers, OneTaskPerKey, Delivered
  <2> QED
    BY <2>5, <2>6, <2>7, <2>8, <2>9, <2>10
<1> QED
  BY <1>2, <1>3

\* What the commit of a failing transaction finds: nobody has settled the task
\* since the row was locked, so the refund it writes is the first and is full.
LEMMA FailCommitFacts ==
  ASSUME LedgerInvariant, NEW p \in Threads, FailCommit(p)
  PROVE  /\ th[p].pc = "deleting"
         /\ th[p].job \in Tasks
         /\ Owner[th[p].job] \in Users
         /\ status[th[p].job] \in Pending
         /\ hold[th[p].job] = Cost[th[p].job]
         /\ refund[th[p].job] = 0
         /\ Cost[th[p].job] \in Nat \ {0}
         /\ RefundAmount(th[p].job) = Cost[th[p].job]
<1> USE DEF LedgerInvariant
<1>1. /\ th[p].pc = "deleting"
      /\ th[p].job \in Tasks
      /\ status[th[p].job] \in Pending
  BY DEF FailCommit, At, JobsExist, RowLocked
<1>2. Owner[th[p].job] \in Users /\ Cost[th[p].job] \in Nat \ {0}
  BY <1>1, TasksAssumption
<1>3. hold[th[p].job] = Cost[th[p].job] /\ refund[th[p].job] = 0
  BY <1>1 DEF SettledExactlyOnce, Pending
<1> QED
  BY <1>1, <1>2, <1>3 DEF RefundAmount, HeldCredits

LEMMA FailCommitPreserves ==
  ASSUME LedgerInvariant, NEW p \in Threads, FailCommit(p)
  PROVE  LedgerInvariant'
<1> USE DEF LedgerInvariant
<1> DEFINE t == th[p].job
           u == Owner[t]
<1>1. /\ th[p].pc = "deleting" /\ t \in Tasks /\ u \in Users
      /\ status[t] \in Pending
      /\ hold[t] = Cost[t] /\ refund[t] = 0 /\ Cost[t] \in Nat \ {0}
      /\ RefundAmount(t) = Cost[t]
  BY FailCommitFacts
<1>2. /\ walletLock[u] = NoThread
      /\ status' = [status EXCEPT ![t] = "failed"]
      /\ results' = [results EXCEPT ![t] = @ \ th[p].doomed]
      /\ refund' = [refund EXCEPT ![t] = Cost[t]]
      /\ wallet' = [wallet EXCEPT ![u] = @ + Cost[t] - refund[t]]
      /\ usage' = [usage EXCEPT ![t] = [outcome |-> "failed", credits |-> 0]]
      /\ rowLock' = [rowLock EXCEPT ![t] = NoThread]
      /\ UNCHANGED <<hold, credited, walletLock>>
  BY <1>1 DEF FailCommit
<1>3. Moves(p, {"idle"}, NoTask)
  BY LeaveMoves DEF FailCommit
<1>4. rowLock[t] = p
  BY <1>1 DEF RowLocked
<1> HIDE DEF t, u
<1>5. TypeOK'
  <2>1. [outcome |-> "failed", credits |-> 0] \in Usage
    BY DEF Usage
  <2>2. results[t] \ th[p].doomed \in SUBSET Urls /\ IsFiniteSet(results[t] \ th[p].doomed)
    BY <1>1, FS_Subset DEF TypeOK
  <2>3. wallet[u] + Cost[t] - refund[t] \in Int
    BY <1>1 DEF TypeOK
  <2>4. results' \in [Tasks -> SUBSET Urls] /\ \A j \in Tasks : IsFiniteSet(results'[j])
    BY <1>1, <1>2, <2>2 DEF TypeOK
  <2>5. th' \in [Threads -> Thread]
    BY <1>3 DEF Moves
  <2> QED
    BY <1>1, <1>2, <2>1, <2>3, <2>4, <2>5 DEF TypeOK, Statuses, Terminal
<1>6. JobsExist' /\ RowsExist'
  BY <1>1, <1>2, <1>3 DEF JobsExist, RowsExist, Moves, TypeOK
<1>7. CreatorsAlone'
  BY <1>1, <1>2, <1>3 DEF CreatorsAlone, JobsExist, Moves, TypeOK, Pending
<1>8. WalletLocked'
  <2> SUFFICES ASSUME NEW q \in Threads, th'[q].pc = "opening"
               PROVE  /\ walletLock'[Owner[th'[q].job]] = q
                      /\ th'[q].balance = wallet'[Owner[th'[q].job]]
    BY DEF WalletLocked
  <2>1. th'[q] = th[q]
    BY <1>3 DEF Moves
  <2>2. Owner[th[q].job] # u
    BY <1>2, <2>1, ThreadsAssumption DEF WalletLocked
  <2>3. Owner[th[q].job] \in Users
    BY <2>1, TasksAssumption DEF JobsExist
  <2> QED
    BY <1>2, <2>1, <2>2, <2>3 DEF WalletLocked, TypeOK
<1>9. RowLocked'
  <2> SUFFICES ASSUME NEW q \in Threads, th'[q].pc = "deleting"
               PROVE  /\ rowLock'[th'[q].job] = q
                      /\ status'[th'[q].job] \in Pending
    BY DEF RowLocked
  <2>1. q # p /\ th'[q] = th[q]
    BY <1>3 DEF Moves
  <2>2. rowLock[th[q].job] = q /\ status[th[q].job] \in Pending
    BY <2>1 DEF RowLocked
  <2> QED
    BY <1>2, <1>4, <2>1, <2>2 DEF TypeOK
<1>10. ReadyToSettle'
  <2> SUFFICES ASSUME NEW q \in Threads, th'[q].pc = "settling",
                      status'[th'[q].job] \in Pending
               PROVE  Cardinality(results'[th'[q].job]) >= ImageCount[th'[q].job]
    BY DEF ReadyToSettle, Delivered
  <2>1. th'[q] = th[q] /\ th[q].job \in Tasks
    BY <1>3 DEF Moves, JobsExist
  <2>2. th[q].job # t
    BY <1>1, <1>2, <2>1 DEF TypeOK, Pending
  <2> QED
    BY <1>2, <2>1, <2>2 DEF ReadyToSettle, Delivered, TypeOK
<1>11. SettledExactlyOnce'
  BY <1>1, <1>2 DEF SettledExactlyOnce, TypeOK, Terminal
<1>12. SuccessDelivers'
  BY <1>1, <1>2 DEF SuccessDelivers, Delivered, TypeOK
<1>13. OneTaskPerKey'
  BY <1>1, <1>2 DEF OneTaskPerKey, TypeOK, Pending
<1> QED
  BY <1>5, <1>6, <1>7, <1>8, <1>9, <1>10, <1>11, <1>12, <1>13

\* A statement that fails takes its transaction back, and whoever catches the
\* exception goes on with the task.
LEMMA DatabaseErrorPreserves ==
  ASSUME LedgerInvariant, NEW p \in Threads, DatabaseError(p)
  PROVE  LedgerInvariant'
<1> DEFINE c == [th[p] EXCEPT !.pc = "rescue", !.rung = "rescue", !.doomed = {}]
           g == [th[p] EXCEPT !.pc = "failing", !.rung = "giveUp", !.doomed = {}]
<1>1. th[p] \in Thread
  BY DEF LedgerInvariant, TypeOK
<1>2. /\ c \in Thread /\ c.pc = "rescue" /\ c.job = th[p].job
      /\ g \in Thread /\ g.pc = "failing" /\ g.job = th[p].job
  BY <1>1 DEF Thread, Labels, Rungs
<1>3. th[p].job \in Tasks
  BY DEF DatabaseError, LedgerInvariant, JobsExist
<1>4. th[p].rung # "request" => status[th[p].job] # "none"
  BY DEF DatabaseError, LedgerInvariant, RowsExist, CreatorsAlone
<1>5. CASE th[p].rung = "worker"
  <2>1. Become(p, c)
    BY <1>5 DEF DatabaseError, Escalate
  <2> HIDE DEF c
  <2>2. Quiet(p)
    BY <1>2, <1>3, <1>4, <1>5, <2>1, BecomeQuiet DEF Busy
  <2> QED
    BY <2>2, RollbackPreserves DEF DatabaseError
<1>6. CASE th[p].rung = "rescue" /\ status[th[p].job] \in Pending
  <2>1. Become(p, g)
    BY <1>6 DEF DatabaseError, Escalate
  <2> HIDE DEF g
  <2>2. Quiet(p)
    BY <1>2, <1>3, <1>4, <1>6, <2>1, BecomeQuiet DEF Busy
  <2> QED
    BY <2>2, RollbackPreserves DEF DatabaseError
<1>7. CASE ~(th[p].rung = "worker") /\ ~(th[p].rung = "rescue" /\ status[th[p].job] \in Pending)
  <2>1. Quiet(p)
    BY <1>7, LeaveQuiet DEF DatabaseError, Escalate
  <2> QED
    BY <2>1, RollbackPreserves DEF DatabaseError
<1> QED
  BY <1>5, <1>6, <1>7

LEMMA CrashPreserves ==
  ASSUME LedgerInvariant, NEW p \in Threads, Crash(p)
  PROVE  LedgerInvariant'
BY LeaveQuiet, RollbackPreserves DEF Crash

\* Other entries wait for the wallet's lock, so no balance under it changes.
LEMMA AdjustCreditsPreserves ==
  ASSUME LedgerInvariant, NEW u \in Users, NEW amount \in Adjustments,
         AdjustCredits(u, amount)
  PROVE  LedgerInvariant'
<1> USE DEF LedgerInvariant, AdjustCredits, database, locks
<1>1. TypeOK'
  <2>1. amount \in Int
    BY CreditsAssumption
  <2> QED
    BY <2>1 DEF TypeOK
<1>2. JobsExist' /\ RowsExist' /\ CreatorsAlone' /\ RowLocked' /\ ReadyToSettle'
  BY DEF JobsExist, RowsExist, CreatorsAlone, RowLocked, ReadyToSettle, Delivered
<1>3. WalletLocked'
  <2> SUFFICES ASSUME NEW q \in Threads, th[q].pc = "opening"
               PROVE  /\ walletLock[Owner[th[q].job]] = q
                      /\ th[q].balance = wallet'[Owner[th[q].job]]
    BY DEF WalletLocked
  <2>1. Owner[th[q].job] \in Users
    BY TasksAssumption DEF JobsExist
  <2>2. walletLock[Owner[th[q].job]] = q /\ th[q].balance = wallet[Owner[th[q].job]]
    BY DEF WalletLocked
  <2> QED
    BY <2>1, <2>2, ThreadsAssumption DEF TypeOK
<1>4. SettledExactlyOnce' /\ SuccessDelivers' /\ OneTaskPerKey'
  BY DEF SettledExactlyOnce, SuccessDelivers, OneTaskPerKey, Delivered
<1> QED
  BY <1>1, <1>2, <1>3, <1>4

-----------------------------------------------------------------------------
(* The invariant *)

LEMMA InitInvariant == Init => LedgerInvariant
<1> SUFFICES ASSUME Init PROVE LedgerInvariant
  OBVIOUS
<1>1. TypeOK
  <2>1. IsFiniteSet({})
    BY FS_EmptySet
  <2>2. [outcome |-> "none", credits |-> 0] \in Usage
    BY DEF Usage
  <2> QED
    BY <2>1, <2>2, IdleFacts, CreditsAssumption DEF Init, TypeOK, Statuses
<1>2. /\ JobsExist /\ RowsExist /\ CreatorsAlone
      /\ WalletLocked /\ RowLocked /\ ReadyToSettle
  BY IdleFacts DEF Init, JobsExist, RowsExist, CreatorsAlone, WalletLocked,
                   RowLocked, ReadyToSettle
<1>3. SettledExactlyOnce /\ SuccessDelivers /\ OneTaskPerKey
  BY DEF Init, SettledExactlyOnce, SuccessDelivers, OneTaskPerKey, Terminal
<1> QED
  BY <1>1, <1>2, <1>3 DEF LedgerInvariant

LEMMA NextPreserves == LedgerInvariant /\ [Next]_vars => LedgerInvariant'
<1> SUFFICES ASSUME LedgerInvariant, [Next]_vars PROVE LedgerInvariant'
  OBVIOUS
<1>1. ASSUME NEW p \in Threads, CreateStep(p) PROVE LedgerInvariant'
  BY <1>1, StartCreatePreserves, OpenWalletPreserves, AbandonPreserves,
     InsertTaskPreserves, ProcessQuiet, QuietPreserves
     DEF CreateStep, RejectCreate, DuplicateCreate
<1>2. ASSUME NEW p \in Threads, ProcessStep(p) PROVE LedgerInvariant'
  BY <1>2, ClaimPreserves, PersistImagePreserves, ProcessQuiet, QuietPreserves
     DEF ProcessStep
<1>3. ASSUME NEW p \in Threads, SettleStep(p) PROVE LedgerInvariant'
  BY <1>3, RequeuePreserves, CompletePreserves, FailBeginPreserves,
     FailCommitPreserves DEF SettleStep
<1>4. ASSUME NEW p \in Threads, FaultStep(p) PROVE LedgerInvariant'
  BY <1>4, DatabaseErrorPreserves, CrashPreserves, ProcessQuiet, QuietPreserves
     DEF FaultStep
<1>5. CASE UNCHANGED vars
  BY <1>5 DEF vars, database, money, locks, LedgerInvariant, TypeOK, JobsExist,
              RowsExist, CreatorsAlone, WalletLocked, RowLocked, ReadyToSettle,
              SettledExactlyOnce, SuccessDelivers, OneTaskPerKey, Delivered
<1> QED
  BY <1>1, <1>2, <1>3, <1>4, <1>5, RecoverPreserves, AdjustCreditsPreserves DEF Next

\* Every reachable state satisfies the inductive invariant: each open
\* transaction owns the rows it has locked, and what it has read is still true.
THEOREM Invariance == Spec => []LedgerInvariant
BY InitInvariant, NextPreserves, PTL DEF Spec

\* The tables and the threads of the ledger keep their types.
THEOREM TypeCorrect == Spec => []TypeOK
<1>1. LedgerInvariant => TypeOK
  BY DEF LedgerInvariant
<1> QED
  BY <1>1, Invariance, PTL

\* completeTaskSuccess and failTaskInTransaction settle each task once, however
\* many requests, workers, recoveries and crashes they race with.
THEOREM SettledOnce == Spec => []SettledExactlyOnce
<1>1. LedgerInvariant => SettledExactlyOnce
  BY DEF LedgerInvariant
<1> QED
  BY <1>1, Invariance, PTL

\* No task is charged for with fewer images than were ordered.
THEOREM PaidIsDelivered == Spec => []SuccessDelivers
<1>1. LedgerInvariant => SuccessDelivers
  BY DEF LedgerInvariant
<1> QED
  BY <1>1, Invariance, PTL

\* createTaskRecord creates one task per idempotency key.
THEOREM Idempotent == Spec => []OneTaskPerKey
<1>1. LedgerInvariant => OneTaskPerKey
  BY DEF LedgerInvariant
<1> QED
  BY <1>1, Invariance, PTL

-----------------------------------------------------------------------------
(* Steps *)

\* A step that neither opens nor settles an account: tasks may alternate
\* between queued and processing, and a task in progress may get images.
Benign ==
  /\ UNCHANGED <<hold, refund, usage, money>>
  /\ \A t \in Tasks :
       /\ status'[t] = status[t] \/ (status[t] \in Pending /\ status'[t] \in Pending)
       /\ \/ results'[t] = results[t]
          \/ status[t] = "processing" /\ results[t] \subseteq results'[t]

LEMMA QuietBenign ==
  ASSUME UNCHANGED <<database, money>>
  PROVE  Benign
BY DEF Benign, database

\* Every step is benign, creates, settles or adjusts.
LEMMA StepKinds ==
  ASSUME LedgerInvariant, [Next]_vars
  PROVE  \/ Benign
         \/ \E p \in Threads : InsertTask(p) \/ Complete(p) \/ FailCommit(p)
         \/ \E u \in Users, amount \in Adjustments : AdjustCredits(u, amount)
<1> USE DEF money
<1>1. ASSUME NEW p \in Threads, CreateStep(p) PROVE Benign \/ InsertTask(p)
  BY <1>1, QuietBenign DEF CreateStep, StartCreate, OpenWallet, RejectCreate,
     DuplicateCreate, AbandonCreate, EnqueueTask, EnqueueFails
<1>2. ASSUME NEW p \in Threads, ProcessStep(p) PROVE Benign
  <2>1. CASE Claim(p)
    <3>1. th[p].job \in Tasks
      BY <2>1 DEF Claim, At, LedgerInvariant, JobsExist
    <3> QED
      BY <2>1, <3>1 DEF Claim, Benign, Pending, LedgerInvariant, TypeOK
  <2>2. CASE PersistImage(p)
    <3>1. th[p].job \in Tasks
      BY <2>2 DEF PersistImage, At, LedgerInvariant, JobsExist
    <3>2. \A t \in Tasks :
            \/ results'[t] = results[t]
            \/ status[t] = "processing" /\ results[t] \subseteq results'[t]
      BY <2>2, <3>1 DEF PersistImage, LedgerInvariant, TypeOK
    <3> QED
      BY <2>2, <3>2 DEF PersistImage, Benign
  <2>3. CASE ~Claim(p) /\ ~PersistImage(p)
    BY <1>2, <2>3, ProcessQuiet, QuietBenign DEF ProcessStep, QuietStep
  <2> QED
    BY <2>1, <2>2, <2>3
<1>3. ASSUME NEW p \in Threads, SettleStep(p)
      PROVE  Benign \/ Complete(p) \/ FailCommit(p)
  <2>1. CASE Requeue(p)
    <3>1. th[p].job \in Tasks
      BY <2>1 DEF Requeue, At, LedgerInvariant, JobsExist
    <3> QED
      BY <2>1, <3>1 DEF Requeue, Benign, Pending, LedgerInvariant, TypeOK
  <2>2. CASE FailBegin(p)
    BY <2>2, QuietBenign DEF FailBegin
  <2> QED
    BY <1>3, <2>1, <2>2 DEF SettleStep
<1>4. ASSUME NEW p \in Threads, FaultStep(p) PROVE Benign
  BY <1>4, QuietBenign DEF FaultStep, DatabaseError, CaughtError, Rescue,
     WorkerException, Crash
<1>5. ASSUME NEW t \in Tasks, RecoverProcessing(t) PROVE Benign
  BY <1>5 DEF RecoverProcessing, Benign, Pending, LedgerInvariant, TypeOK
<1>6. CASE UNCHANGED vars
  BY <1>6, QuietBenign DEF vars
<1> QED
  BY <1>1, <1>2, <1>3, <1>4, <1>5, <1>6 DEF Next

\* A hold is taken from the balance that the request has read under the lock.
LEMMA InsertTaskFacts ==
  ASSUME LedgerInvariant, NEW p \in Threads, InsertTask(p)
  PROVE  LET t == th[p].job
             u == Owner[t] IN
         /\ t \in Tasks /\ u \in Users
         /\ status[t] = "none"
         /\ wallet[u] >= Cost[t]
         /\ status' = [status EXCEPT ![t] = "queued"]
         /\ hold' = [hold EXCEPT ![t] = Cost[t]]
         /\ wallet' = [wallet EXCEPT ![u] = @ - Cost[t]]
         /\ UNCHANGED <<results, refund, usage, credited>>
<1>1. th[p].pc = "opening" /\ th[p].balance >= Cost[th[p].job]
  BY DEF InsertTask, At
<1>2. th[p].job \in Tasks /\ Owner[th[p].job] \in Users
  BY <1>1, TasksAssumption DEF LedgerInvariant, JobsExist
<1>3. status[th[p].job] = "none" /\ wallet[Owner[th[p].job]] >= Cost[th[p].job]
  BY <1>1 DEF LedgerInvariant, CreatorsAlone, WalletLocked
<1> QED
  BY <1>2, <1>3 DEF InsertTask

\* Whatever requests and administrators do at once, a hold that appears leaves
\* the balance it was taken from at zero or above.
THEOREM NoOverdraft == Spec => HoldNeverOverdraws
<1> DEFINE Covered == \A t \in Tasks : hold[t] = 0 /\ hold'[t] > 0 => wallet'[Owner[t]] >= 0
<1>1. ASSUME LedgerInvariant, [Next]_vars PROVE Covered
  <2>1. CASE Benign
    BY <2>1 DEF Benign, money
  <2>2. ASSUME NEW p \in Threads, InsertTask(p) PROVE Covered
    <3> DEFINE j == th[p].job
    <3>1. /\ j \in Tasks /\ Owner[j] \in Users
          /\ wallet[Owner[j]] >= Cost[j]
          /\ hold' = [hold EXCEPT ![j] = Cost[j]]
          /\ wallet' = [wallet EXCEPT ![Owner[j]] = @ - Cost[j]]
      BY <1>1, <2>2, InsertTaskFacts
    <3>2. wallet[Owner[j]] \in Int /\ Cost[j] \in Nat
      BY <1>1, <3>1, TasksAssumption DEF LedgerInvariant, TypeOK
    <3> HIDE DEF j
    <3> QED
      BY <1>1, <3>1, <3>2 DEF LedgerInvariant, TypeOK
  <2>3. ASSUME NEW p \in Threads, Complete(p) \/ FailCommit(p) PROVE Covered
    BY <2>3 DEF Complete, FailCommit
  <2>4. ASSUME NEW u \in Users, NEW amount \in Adjustments, AdjustCredits(u, amount)
        PROVE  Covered
    BY <2>4 DEF AdjustCredits, database
  <2> QED
    BY <1>1, <2>1, <2>2, <2>3, <2>4, StepKinds
<1>2. LedgerInvariant /\ [Next]_vars => [Covered]_vars
  BY <1>1
<1> QED
  BY <1>2, Invariance, PTL DEF Spec, HoldNeverOverdraws

\* Once completeTaskSuccess or failTaskInTransaction has committed, no step of
\* any thread changes the task's status, refund, usage record or results.
THEOREM SettledForGood == Spec => SettledIsFinal
<1> DEFINE Kept == \A t \in Tasks : status[t] \in Terminal =>
                     /\ status'[t] = status[t]
                     /\ refund'[t] = refund[t]
                     /\ usage'[t] = usage[t]
                     /\ results'[t] = results[t]
<1>1. ASSUME LedgerInvariant, [Next]_vars PROVE Kept
  <2>1. CASE Benign
    BY <2>1 DEF Benign, Terminal, Pending
  <2>2. ASSUME NEW p \in Threads, InsertTask(p) PROVE Kept
    <3>1. /\ status[th[p].job] = "none"
          /\ status' = [status EXCEPT ![th[p].job] = "queued"]
          /\ UNCHANGED <<results, refund, usage>>
      BY <1>1, <2>2, InsertTaskFacts
    <3> QED
      BY <1>1, <3>1 DEF LedgerInvariant, TypeOK, Terminal
  <2>3. ASSUME NEW p \in Threads, Complete(p) PROVE Kept
    BY <1>1, <2>3 DEF Complete, LedgerInvariant, TypeOK, Terminal
  <2>4. ASSUME NEW p \in Threads, FailCommit(p) PROVE Kept
    <3>1. status[th[p].job] \in Pending
      BY <1>1, <2>4, FailCommitFacts
    <3> QED
      BY <1>1, <2>4, <3>1 DEF FailCommit, LedgerInvariant, TypeOK, Terminal, Pending
  <2>5. ASSUME NEW u \in Users, NEW amount \in Adjustments, AdjustCredits(u, amount)
        PROVE  Kept
    BY <2>5 DEF AdjustCredits, database
  <2> QED
    BY <1>1, <2>1, <2>2, <2>3, <2>4, <2>5, StepKinds
<1>2. LedgerInvariant /\ [Next]_vars => [Kept]_vars
  BY <1>1
<1> QED
  BY <1>2, Invariance, PTL DEF Spec, SettledIsFinal

\* Retries, recoveries and crashes keep the rows of images that persistGatewayResult
\* has recorded: only the commit of failTaskInTransaction deletes any.
THEOREM RowsAreKept == Spec => RowsKeptUntilFailure
<1> DEFINE Kept == \A t \in Tasks :
                     results[t] \subseteq results'[t]
                     \/ (status[t] # "failed" /\ status'[t] = "failed")
<1>1. ASSUME LedgerInvariant, [Next]_vars PROVE Kept
  <2>1. CASE Benign
    BY <2>1 DEF Benign
  <2>2. ASSUME NEW p \in Threads, InsertTask(p) \/ Complete(p) PROVE Kept
    BY <2>2 DEF InsertTask, Complete
  <2>3. ASSUME NEW p \in Threads, FailCommit(p) PROVE Kept
    <3>1. th[p].job \in Tasks /\ status[th[p].job] \in Pending
      BY <1>1, <2>3, FailCommitFacts
    <3> QED
      BY <1>1, <2>3, <3>1 DEF FailCommit, LedgerInvariant, TypeOK, Pending
  <2>4. ASSUME NEW u \in Users, NEW amount \in Adjustments, AdjustCredits(u, amount)
        PROVE  Kept
    BY <2>4 DEF AdjustCredits, database
  <2> QED
    BY <1>1, <2>1, <2>2, <2>3, <2>4, StepKinds
<1>2. LedgerInvariant /\ [Next]_vars => [Kept]_vars
  BY <1>1
<1> QED
  BY <1>2, Invariance, PTL DEF Spec, RowsKeptUntilFailure

-----------------------------------------------------------------------------
(* The price of a set of tasks.  MapThenSumSet is defined by a function on *)
(* the subsets of the set that is recursive in the removal of an element:  *)
(* that there is one, that there is only one, and that the order in which  *)
(* it takes the elements does not matter follow from a smallest            *)
(* counterexample.                                                         *)

\* What the tasks of S cost together.
Price(S) == MapThenSumSet(LAMBDA t : Cost[t], S)

\* The element of S that is taken first.
Chosen(S) == CHOOSE t \in S : TRUE

\* f adds up the costs of every subset of S.
Adds(f, S) ==
  f = [s \in SUBSET S |-> IF s = {} THEN 0 ELSE Cost[Chosen(s)] + f[s \ {Chosen(s)}]]

\* A set of numbers that is not empty has a smallest one.
LEMMA Smallest ==
  ASSUME NEW T \in SUBSET Nat, T # {}
  PROVE  \E n \in T : \A m \in T : ~(m < n)
<1> DEFINE R == {pair \in Nat \X Nat : pair[1] < pair[2]}
<1>1. IsWellFoundedOn(R, Nat)
  BY NatLessThanWellFounded DEF OpToRel
<1>2. \A m, n \in Nat : m < n => <<m, n>> \in R
  OBVIOUS
<1> HIDE DEF R
<1>3. \E n \in T : \A m \in T : ~(<<m, n>> \in R)
  BY <1>1, WFMin
<1> QED
  BY <1>2, <1>3

\* Without its chosen element a finite set is a smaller one.
LEMMA WithoutChosen ==
  ASSUME NEW S, IsFiniteSet(S), S # {}
  PROVE  /\ Chosen(S) \in S /\ S \ {Chosen(S)} \subseteq S /\ S \ {Chosen(S)} # S
         /\ IsFiniteSet(S \ {Chosen(S)})
         /\ Cardinality(S) \in Nat /\ Cardinality(S \ {Chosen(S)}) \in Nat
         /\ Cardinality(S \ {Chosen(S)}) < Cardinality(S)
<1>1. Chosen(S) \in S
  BY DEF Chosen
<1>2. /\ IsFiniteSet(S \ {Chosen(S)})
      /\ Cardinality(S \ {Chosen(S)}) = Cardinality(S) - 1
  BY <1>1, FS_RemoveElement
<1>3. Cardinality(S) \in Nat /\ Cardinality(S \ {Chosen(S)}) \in Nat
  BY <1>2, FS_CardinalityType
<1> QED
  BY <1>1, <1>2, <1>3

\* Such a function at one subset.
LEMMA AddsFacts ==
  ASSUME NEW S, NEW f, Adds(f, S), NEW s \in SUBSET S
  PROVE  f[s] = IF s = {} THEN 0 ELSE Cost[Chosen(s)] + f[s \ {Chosen(s)}]
<1> DEFINE g == [r \in SUBSET S |-> IF r = {} THEN 0 ELSE Cost[Chosen(r)] + f[r \ {Chosen(r)}]]
<1>1. f = g
  BY DEF Adds
<1>2. g[s] = IF s = {} THEN 0 ELSE Cost[Chosen(s)] + f[s \ {Chosen(s)}]
  OBVIOUS
<1> HIDE DEF g
<1> QED
  BY <1>1, <1>2

\* Two such functions agree where both are defined.
LEMMA Agree ==
  ASSUME NEW S, NEW U, IsFiniteSet(S), NEW f, NEW g, Adds(f, S), Adds(g, U),
         NEW s, s \subseteq S, s \subseteq U
  PROVE  f[s] = g[s]
<1> DEFINE Bad == {n \in Nat : \E r \in SUBSET S : r \subseteq U /\ Cardinality(r) = n /\ f[r] # g[r]}
<1>1. ASSUME Bad # {}
      PROVE  FALSE
  <2>1. \E n \in Bad : \A m \in Bad : ~(m < n)
    BY <1>1, Smallest
  <2>2. PICK n \in Bad : \A m \in Bad : ~(m < n)
    BY <2>1
  <2>3. PICK r \in SUBSET S : r \subseteq U /\ Cardinality(r) = n /\ f[r] # g[r]
    OBVIOUS
  <2>4. IsFiniteSet(r)
    BY FS_Subset
  <2>5. f[r] = (IF r = {} THEN 0 ELSE Cost[Chosen(r)] + f[r \ {Chosen(r)}])
    BY AddsFacts
  <2>6. g[r] = (IF r = {} THEN 0 ELSE Cost[Chosen(r)] + g[r \ {Chosen(r)}])
    BY <2>3, AddsFacts
  <2>7. r # {}
    BY <2>3, <2>5, <2>6
  <2> DEFINE q == r \ {Chosen(r)}
  <2>8. q \in SUBSET S /\ q \subseteq U /\ Cardinality(q) \in Nat /\ Cardinality(q) < n
    BY <2>3, <2>4, <2>7, WithoutChosen
  <2>9. f[q] # g[q]
    BY <2>3, <2>5, <2>6, <2>7
  <2> HIDE DEF q
  <2>10. Cardinality(q) \in Bad
    BY <2>8, <2>9
  <2> QED
    BY <2>2, <2>8, <2>10
<1>2. IsFiniteSet(s) /\ Cardinality(s) \in Nat
  BY FS_Subset, FS_CardinalityType
<1> QED
  BY <1>1, <1>2

\* There is one on the subsets of every finite set.
LEMMA Adding ==
  ASSUME NEW S, IsFiniteSet(S)
  PROVE  \E f : Adds(f, S)
<1> DEFINE Bad == {n \in Nat : \E r \in SUBSET S : Cardinality(r) = n /\ ~\E f : Adds(f, r)}
<1>1. ASSUME Bad # {}
      PROVE  FALSE
  <2>1. \E n \in Bad : \A m \in Bad : ~(m < n)
    BY <1>1, Smallest
  <2>2. PICK n \in Bad : \A m \in Bad : ~(m < n)
    BY <2>1
  <2>3. PICK U \in SUBSET S : Cardinality(U) = n /\ ~\E f : Adds(f, U)
    OBVIOUS
  <2>4. IsFiniteSet(U)
    BY FS_Subset
  <2> DEFINE part(V) == CHOOSE f : Adds(f, V)
  <2>5. ASSUME NEW V, V \subseteq U, V # U
        PROVE  Adds(part(V), V) /\ IsFiniteSet(V)
    <3>1. IsFiniteSet(V) /\ Cardinality(V) \in Nat /\ Cardinality(V) < n
      BY <2>3, <2>4, <2>5, FS_Subset, FS_CardinalityType
    <3>2. Cardinality(V) \notin Bad
      BY <2>2, <3>1
    <3>3. \E f : Adds(f, V)
      BY <2>5, <3>1, <3>2
    <3> QED
      BY <3>1, <3>3
  <2> DEFINE value(s) == IF s = {} THEN 0 ELSE Cost[Chosen(s)] + part(s \ {Chosen(s)})[s \ {Chosen(s)}]
             f == [s \in SUBSET U |-> value(s)]
  <2>6. ASSUME NEW r, r \subseteq U, r # U
        PROVE  f[r] = part(r)[r]
    <3>1. Adds(part(r), r) /\ IsFiniteSet(r)
      BY <2>5, <2>6
    <3>2. f[r] = value(r)
      BY <2>6
    <3> HIDE DEF f, part
    <3>3. part(r)[r] = IF r = {} THEN 0 ELSE Cost[Chosen(r)] + part(r)[r \ {Chosen(r)}]
      BY <3>1, AddsFacts
    <3>4. CASE r = {}
      BY <3>2, <3>3, <3>4
    <3>5. CASE r # {}
      <4> DEFINE q == r \ {Chosen(r)}
      <4>1. q \subseteq r /\ q \subseteq U /\ q # U
        BY <2>6
      <4>2. Adds(part(q), q)
        BY <2>5, <4>1
      <4> HIDE DEF q
      <4>3. q \subseteq r /\ q \subseteq q /\ IsFiniteSet(r) /\ Adds(part(r), r) /\ Adds(part(q), q)
        BY <3>1, <4>1, <4>2
      <4>4. ASSUME NEW a, NEW b, Adds(a, r), Adds(b, q)
            PROVE  a[q] = b[q]
        BY <4>3, <4>4, Agree
      <4>5. part(r)[q] = part(q)[q]
        BY <4>3, <4>4
      <4> QED
        BY <3>2, <3>3, <3>5, <4>5 DEF q
    <3> QED
      BY <3>4, <3>5
  <2>7. ASSUME NEW s \in SUBSET U
        PROVE  value(s) = IF s = {} THEN 0 ELSE Cost[Chosen(s)] + f[s \ {Chosen(s)}]
    <3>1. CASE s = {}
      BY <3>1
    <3>2. CASE s # {}
      <4> DEFINE q == s \ {Chosen(s)}
      <4>1. q \subseteq U /\ q # U
        <5>1. Chosen(s) \in s
          BY <3>2 DEF Chosen
        <5> QED
          BY <5>1
      <4>2. f[q] = part(q)[q]
        BY <2>6, <4>1
      <4> HIDE DEF f, part
      <4> QED
        BY <3>2, <4>2
    <3> QED
      BY <3>1, <3>2
  <2>8. f = [s \in SUBSET U |-> IF s = {} THEN 0 ELSE Cost[Chosen(s)] + f[s \ {Chosen(s)}]]
    <3>1. f = [s \in SUBSET U |-> value(s)]
      OBVIOUS
    <3> HIDE DEF f, value
    <3> QED
      BY <2>7, <3>1
  <2>9. Adds(f, U)
    BY <2>8 DEF Adds
  <2> QED
    BY <2>3, <2>9
<1>2. Cardinality(S) \in Nat
  BY FS_CardinalityType
<1> QED
  BY <1>1, <1>2

\* The price of no tasks, and of some.
LEMMA PriceFacts ==
  ASSUME NEW S, IsFiniteSet(S)
  PROVE  Price(S) = IF S = {} THEN 0 ELSE Cost[Chosen(S)] + Price(S \ {Chosen(S)})
<1> DEFINE adding(V) == CHOOSE f : Adds(f, V)
<1>1. ASSUME NEW V, IsFiniteSet(V)
      PROVE  Price(V) = adding(V)[V] /\ Adds(adding(V), V)
  <2>1. Price(V) = adding(V)[V]
    BY Zenon DEF Price, MapThenSumSet, MapThenFoldSet, Adds, Chosen
  <2>2. Adds(adding(V), V)
    BY <1>1, Adding
  <2> QED
    BY <2>1, <2>2
<1> HIDE DEF adding
<1>2. Price(S) = adding(S)[S] /\ Adds(adding(S), S)
  BY <1>1
<1>3. adding(S)[S] = IF S = {} THEN 0 ELSE Cost[Chosen(S)] + adding(S)[S \ {Chosen(S)}]
  BY <1>2, AddsFacts
<1>4. CASE S = {}
  BY <1>2, <1>3, <1>4
<1>5. CASE S # {}
  <2> DEFINE V == S \ {Chosen(S)}
  <2>1. IsFiniteSet(V) /\ V \subseteq S /\ V \subseteq V
    BY <1>5, WithoutChosen
  <2>2. Price(V) = adding(V)[V] /\ Adds(adding(V), V)
    BY <1>1, <2>1
  <2> HIDE DEF V
  <2>3. ASSUME NEW a, NEW b, Adds(a, S), Adds(b, V)
        PROVE  a[V] = b[V]
    BY <2>1, <2>3, Agree
  <2>4. adding(S)[V] = adding(V)[V]
    BY <1>2, <2>2, <2>3
  <2> QED
    BY <1>2, <1>3, <1>5, <2>2, <2>4 DEF V
<1> QED
  BY <1>4, <1>5

\* A price is a number.
LEMMA PriceType ==
  ASSUME NEW S \in SUBSET Tasks, IsFiniteSet(S)
  PROVE  Price(S) \in Int
<1> DEFINE Bad == {n \in Nat : \E r \in SUBSET S : Cardinality(r) = n /\ Price(r) \notin Int}
<1>1. ASSUME Bad # {}
      PROVE  FALSE
  <2>1. \E n \in Bad : \A m \in Bad : ~(m < n)
    BY <1>1, Smallest
  <2>2. PICK n \in Bad : \A m \in Bad : ~(m < n)
    BY <2>1
  <2>3. PICK r \in SUBSET S : Cardinality(r) = n /\ Price(r) \notin Int
    OBVIOUS
  <2>4. IsFiniteSet(r)
    BY FS_Subset
  <2>5. Price(r) = IF r = {} THEN 0 ELSE Cost[Chosen(r)] + Price(r \ {Chosen(r)})
    BY <2>4, PriceFacts
  <2>6. r # {}
    BY <2>3, <2>5
  <2> DEFINE q == r \ {Chosen(r)}
  <2>7. q \in SUBSET S /\ Cardinality(q) \in Nat /\ Cardinality(q) < n /\ Chosen(r) \in Tasks
    BY <2>3, <2>4, <2>6, WithoutChosen
  <2>8. Cost[Chosen(r)] \in Int
    BY <2>7, TasksAssumption
  <2>9. Price(q) \notin Int
    BY <2>3, <2>5, <2>6, <2>8
  <2> HIDE DEF q
  <2>10. Cardinality(q) \in Bad
    BY <2>7, <2>9
  <2> QED
    BY <2>2, <2>7, <2>10
<1>2. Cardinality(S) \in Nat
  BY FS_CardinalityType
<1> QED
  BY <1>1, <1>2

\* A task adds its cost, whichever element is taken first.
LEMMA PriceAdds ==
  ASSUME NEW S \in SUBSET Tasks, IsFiniteSet(S), NEW t \in Tasks \ S
  PROVE  Price(S \cup {t}) = Price(S) + Cost[t]
<1> DEFINE Bad == {n \in Nat : \E r \in SUBSET S : \E u \in Tasks \ r :
                                 Cardinality(r) = n /\ Price(r \cup {u}) # Price(r) + Cost[u]}
<1>1. ASSUME Bad # {}
      PROVE  FALSE
  <2>1. \E n \in Bad : \A m \in Bad : ~(m < n)
    BY <1>1, Smallest
  <2>2. PICK n \in Bad : \A m \in Bad : ~(m < n)
    BY <2>1
  <2>13. PICK r \in SUBSET S : \E u \in Tasks \ r : Cardinality(r) = n /\ Price(r \cup {u}) # Price(r) + Cost[u]
    OBVIOUS
  <2>3. PICK u \in Tasks \ r : Cardinality(r) = n /\ Price(r \cup {u}) # Price(r) + Cost[u]
    BY <2>13
  <2>4. IsFiniteSet(r) /\ IsFiniteSet(r \cup {u}) /\ n \in Nat
    BY FS_Subset, FS_AddElement
  <2> DEFINE c == Chosen(r \cup {u})
             q == r \ {c}
  <2>5. Price(r \cup {u}) = Cost[c] + Price((r \cup {u}) \ {c}) /\ c \in r \cup {u}
    BY <2>4, PriceFacts, WithoutChosen
  <2>6. Cost[c] \in Int /\ Cost[u] \in Int /\ Price(r) \in Int
    BY <2>4, <2>5, TasksAssumption, PriceType
  <2> HIDE DEF c
  <2>7. c # u
    <3>1. c = u => (r \cup {u}) \ {c} = r
      OBVIOUS
    <3>2. c = u => Price((r \cup {u}) \ {c}) = Price(r) /\ Cost[c] = Cost[u]
      BY <3>1
    <3> QED
      BY <2>3, <2>5, <2>6, <3>2
  <2>8. c \in r /\ (r \cup {u}) \ {c} = q \cup {u} /\ r = q \cup {c} /\ q \in SUBSET S
        /\ u \in Tasks \ q /\ c \in Tasks \ q
    BY <2>5, <2>7
  <2>9. IsFiniteSet(q) /\ Cardinality(q) \in Nat /\ Cardinality(q) < n
    <3>1. IsFiniteSet(q) /\ Cardinality(q) = Cardinality(r) - 1
      BY <2>4, <2>8, FS_RemoveElement
    <3> QED
      BY <2>3, <2>4, <3>1, FS_CardinalityType
  <2> HIDE DEF q
  <2>10. Cardinality(q) \notin Bad
    BY <2>2, <2>9
  <2>11. \A v \in Tasks \ q : Price(q \cup {v}) = Price(q) + Cost[v]
    BY <2>8, <2>9, <2>10
  <2>12. Price(q) \in Int
    BY <2>8, <2>9, PriceType
  <2> QED
    BY <2>3, <2>5, <2>6, <2>8, <2>11, <2>12
<1>2. Cardinality(S) \in Nat
  BY FS_CardinalityType
<1> QED
  BY <1>1, <1>2

-----------------------------------------------------------------------------
(* Credits *)

\* The tasks that u pays for: pending or delivered.
Charged(u) == {t \in Tasks : Owner[t] = u /\ status[t] \in Pending \cup {"success"}}

\* Tasks are created one at a time, and every wallet is balanced.
Balanced ==
  /\ IsFiniteSet({t \in Tasks : status[t] # "none"})
  /\ \A u \in Users : wallet[u] = credited[u] - Price(Charged(u))

LEMMA BalancedConserves == Balanced => CreditsConserved
BY Zenon DEF Balanced, CreditsConserved, Price, Charged

\* Only finitely many tasks are charged for, and their price is a number.
LEMMA ChargedFacts ==
  ASSUME Balanced, NEW u \in Users
  PROVE  /\ Charged(u) \in SUBSET Tasks /\ IsFiniteSet(Charged(u))
         /\ Price(Charged(u)) \in Int
<1>1. /\ Charged(u) \in SUBSET Tasks
      /\ Charged(u) \subseteq {t \in Tasks : status[t] # "none"}
  BY DEF Charged, Pending
<1>2. IsFiniteSet(Charged(u))
  BY <1>1, FS_Subset DEF Balanced
<1> QED
  BY <1>1, <1>2, PriceType

LEMMA InitBalanced == Init => Balanced
<1> SUFFICES ASSUME Init PROVE Balanced
  OBVIOUS
<1>1. {t \in Tasks : status[t] # "none"} = {}
  BY DEF Init
<1>2. \A u \in Users : Charged(u) = {}
  BY DEF Init, Charged, Pending
<1>3. IsFiniteSet({}) /\ Price({}) = 0
  BY FS_EmptySet, PriceFacts
<1>4. \A u \in Users : wallet[u] = credited[u] /\ credited[u] \in Int
  BY CreditsAssumption DEF Init
<1>5. \A u \in Users : Price(Charged(u)) = 0
  BY <1>2, <1>3
<1>6. ASSUME NEW u \in Users PROVE wallet[u] = credited[u] - Price(Charged(u))
  BY <1>4, <1>5
<1> QED
  BY <1>1, <1>3, <1>6 DEF Balanced

\* A price in the next state is the price of the next state's tasks.
LEMMA PriceNext == \A u \in Users : Price(Charged(u))' = Price(Charged(u)')
BY Zenon DEF Price, MapThenSumSet, MapThenFoldSet

\* A wallet that follows its entries.
LEMMA Follows ==
  ASSUME NEW a \in Int, NEW b \in Int, NEW c \in Int, NEW d \in Int, NEW n \in Int,
         a = b - n, c - a = d - b
  PROVE  c = d - n
OBVIOUS

\* A step that leaves the same tasks charged for and changes a wallet by what
\* is paid in.
LEMMA SameCharged ==
  ASSUME Balanced, LedgerInvariant,
         IsFiniteSet({t \in Tasks : status'[t] # "none"}),
         \A u \in Users : Charged(u)' = Charged(u),
         \A u \in Users : wallet'[u] - wallet[u] = credited'[u] - credited[u],
         wallet' \in [Users -> Int], credited' \in [Users -> Int]
  PROVE  Balanced'
<1>1. ASSUME NEW u \in Users
      PROVE  wallet'[u] = credited'[u] - Price(Charged(u)')
  <2>1. Price(Charged(u)) \in Int /\ wallet[u] = credited[u] - Price(Charged(u))
    BY ChargedFacts DEF Balanced
  <2>2. /\ wallet[u] \in Int /\ credited[u] \in Int
        /\ wallet'[u] \in Int /\ credited'[u] \in Int
    BY DEF LedgerInvariant, TypeOK
  <2>3. Price(Charged(u)') = Price(Charged(u))
    OBVIOUS
  <2>4. wallet'[u] - wallet[u] = credited'[u] - credited[u]
    OBVIOUS
  <2>5. wallet'[u] = credited'[u] - Price(Charged(u))
    BY <2>1, <2>2, <2>4, Follows
  <2> QED
    BY <2>3, <2>5
<1> QED
  BY <1>1, PriceNext DEF Balanced

\* The wallets, the entries and the tasks charged for, through every step.
LEMMA NextBalanced ==
  ASSUME LedgerInvariant, LedgerInvariant', Balanced, [Next]_vars
  PROVE  Balanced'
<1> DEFINE rows == {t \in Tasks : status[t] # "none"}
           rows_ == {t \in Tasks : status'[t] # "none"}
<1>1. /\ wallet \in [Users -> Int] /\ credited \in [Users -> Int]
      /\ wallet' \in [Users -> Int] /\ credited' \in [Users -> Int]
      /\ status \in [Tasks -> Statuses] /\ status' \in [Tasks -> Statuses]
      /\ IsFiniteSet(rows)
  BY DEF LedgerInvariant, TypeOK, Balanced
<1>2. CASE Benign
  <2>1. rows_ = rows
    BY <1>2 DEF Benign, Pending
  <2>2. \A u \in Users : Charged(u)' = Charged(u)
    BY <1>2 DEF Benign, Charged, Pending
  <2>3. \A u \in Users : wallet'[u] - wallet[u] = credited'[u] - credited[u]
    BY <1>1, <1>2 DEF Benign, money
  <2> QED
    BY <1>1, <2>1, <2>2, <2>3, SameCharged
<1>3. ASSUME NEW p \in Threads, Complete(p)
      PROVE  Balanced'
  <2> DEFINE j == th[p].job
  <2>1. /\ j \in Tasks /\ UNCHANGED <<wallet, credited>>
        /\ \/ UNCHANGED status
           \/ status[j] = "processing" /\ status' = [status EXCEPT ![j] = "success"]
    BY <1>3 DEF Complete, At, money, LedgerInvariant, JobsExist
  <2> HIDE DEF j
  <2>2. rows_ = rows
    BY <1>1, <2>1
  <2>3. \A u \in Users : Charged(u)' = Charged(u)
    BY <1>1, <2>1 DEF Charged, Pending
  <2>4. \A u \in Users : wallet'[u] - wallet[u] = credited'[u] - credited[u]
    BY <1>1, <2>1
  <2> QED
    BY <1>1, <2>2, <2>3, <2>4, SameCharged
<1>4. ASSUME NEW u \in Users, NEW amount \in Adjustments, AdjustCredits(u, amount)
      PROVE  Balanced'
  <2>1. /\ amount \in Int
        /\ wallet' = [wallet EXCEPT ![u] = @ + amount]
        /\ credited' = [credited EXCEPT ![u] = @ + amount]
        /\ UNCHANGED status
    BY <1>4, CreditsAssumption DEF AdjustCredits, database
  <2>2. rows_ = rows /\ \A v \in Users : Charged(v)' = Charged(v)
    BY <2>1 DEF Charged
  <2>3. \A v \in Users : wallet'[v] - wallet[v] = credited'[v] - credited[v]
    BY <1>1, <2>1
  <2> QED
    BY <1>1, <2>2, <2>3, SameCharged
<1>5. ASSUME NEW p \in Threads, InsertTask(p)
      PROVE  Balanced'
  <2>1. PICK j \in Tasks, w \in Users :
          /\ Owner[j] = w
          /\ status[j] = "none"
          /\ status' = [status EXCEPT ![j] = "queued"]
          /\ wallet' = [wallet EXCEPT ![w] = @ - Cost[j]]
          /\ UNCHANGED credited
    BY <1>5, InsertTaskFacts
  <2>2. Cost[j] \in Int
    BY TasksAssumption
  <2>3. IsFiniteSet(rows_)
    <3>1. rows_ = rows \cup {j}
      BY <1>1, <2>1
    <3> HIDE DEF rows, rows_
    <3> QED
      BY <1>1, <3>1, FS_AddElement
  <2>4. /\ Charged(w)' = Charged(w) \cup {j}
        /\ j \notin Charged(w)
    BY <1>1, <2>1 DEF Charged, Pending
  <2>5. \A u \in Users \ {w} : Charged(u)' = Charged(u)
    BY <1>1, <2>1 DEF Charged, Pending
  <2>6. ASSUME NEW u \in Users
        PROVE  wallet'[u] = credited'[u] - Price(Charged(u)')
    <3>1. /\ Charged(u) \in SUBSET Tasks /\ IsFiniteSet(Charged(u))
          /\ Price(Charged(u)) \in Int
          /\ wallet[u] = credited[u] - Price(Charged(u))
      BY ChargedFacts DEF Balanced
    <3>2. wallet[u] \in Int /\ credited[u] \in Int /\ credited'[u] = credited[u]
      BY <1>1, <2>1
    <3>3. CASE u = w
      <4>1. Price(Charged(u) \cup {j}) = Price(Charged(u)) + Cost[j]
        BY <2>1, <2>4, <3>1, <3>3, PriceAdds
      <4>2. Price(Charged(u)') = Price(Charged(u)) + Cost[j]
        BY <2>4, <3>3, <4>1
      <4>3. wallet'[u] = wallet[u] - Cost[j]
        BY <1>1, <2>1, <3>3
      <4> QED
        BY <2>2, <3>1, <3>2, <4>2, <4>3
    <3>4. CASE u # w
      <4>1. Price(Charged(u)') = Price(Charged(u))
        BY <2>5, <3>4
      <4>2. wallet'[u] = wallet[u]
        BY <1>1, <2>1, <3>4
      <4> QED
        BY <3>1, <3>2, <4>1, <4>2
    <3> QED
      BY <3>3, <3>4
  <2> QED
    BY <2>3, <2>6, PriceNext DEF Balanced
<1>6. ASSUME NEW p \in Threads, FailCommit(p)
      PROVE  Balanced'
  <2>0. /\ status' = [status EXCEPT ![th[p].job] = "failed"]
        /\ wallet' = [wallet EXCEPT ![Owner[th[p].job]]
                                      = @ + RefundAmount(th[p].job) - refund[th[p].job]]
        /\ UNCHANGED credited
    BY <1>6 DEF FailCommit
  <2>1. PICK j \in Tasks, w \in Users :
          /\ th[p].job = j /\ Owner[j] = w
          /\ status[j] \in Pending
          /\ refund[j] = 0 /\ RefundAmount(j) = Cost[j] /\ Cost[j] \in Nat
    BY <1>6, FailCommitFacts
  <2>2. /\ status' = [status EXCEPT ![j] = "failed"]
        /\ wallet' = [wallet EXCEPT ![w] = @ + RefundAmount(j) - refund[j]]
        /\ UNCHANGED credited
    BY <2>0, <2>1
  <2>3. rows_ = rows
    BY <1>1, <2>1, <2>2 DEF Pending
  <2>4. /\ Charged(w)' = Charged(w) \ {j}
        /\ j \in Charged(w)
    BY <1>1, <2>1, <2>2 DEF Charged, Pending
  <2>5. \A u \in Users \ {w} : Charged(u)' = Charged(u)
    BY <1>1, <2>1, <2>2 DEF Charged, Pending
  <2>6. ASSUME NEW u \in Users
        PROVE  wallet'[u] = credited'[u] - Price(Charged(u)')
    <3>1. /\ Charged(u) \in SUBSET Tasks /\ IsFiniteSet(Charged(u))
          /\ Price(Charged(u)) \in Int
          /\ wallet[u] = credited[u] - Price(Charged(u))
      BY ChargedFacts DEF Balanced
    <3>2. wallet[u] \in Int /\ credited[u] \in Int /\ credited'[u] = credited[u]
      BY <1>1, <2>2
    <3>3. CASE u = w
      <4> DEFINE rest == Charged(u) \ {j}
      <4>1. /\ rest \in SUBSET Tasks /\ IsFiniteSet(rest) /\ j \in Tasks \ rest
            /\ Charged(u) = rest \cup {j}
        BY <2>1, <2>4, <3>1, <3>3, FS_Subset
      <4>2. Charged(u)' = rest
        BY <2>4, <3>3
      <4> HIDE DEF rest
      <4>3. Price(rest \cup {j}) = Price(rest) + Cost[j] /\ Price(rest) \in Int
        BY <4>1, PriceAdds, PriceType
      <4>4. Price(Charged(u)) = Price(rest) + Cost[j]
        BY <4>1, <4>3
      <4>5. Price(Charged(u)') = Price(rest)
        BY <4>2
      <4>6. wallet'[u] = wallet[u] + Cost[j]
        BY <1>1, <2>1, <2>2, <3>2, <3>3
      <4> QED
        BY <2>1, <3>1, <3>2, <4>3, <4>4, <4>5, <4>6
    <3>4. CASE u # w
      <4>1. Price(Charged(u)') = Price(Charged(u))
        BY <2>5, <3>4
      <4>2. wallet'[u] = wallet[u]
        BY <1>1, <2>2, <3>4
      <4> QED
        BY <3>1, <3>2, <4>1, <4>2
    <3> QED
      BY <3>3, <3>4
  <2> QED
    BY <1>1, <2>3, <2>6, PriceNext DEF Balanced
<1> QED
  BY <1>2, <1>3, <1>4, <1>5, <1>6, StepKinds

\* No credit is created or lost: through every interleaving, crash and retry
\* of any number of customers' tasks, a wallet is what was paid in, less the
\* price of every task that createTaskRecord charged for and
\* failTaskInTransaction has not given back.
THEOREM Conserved == Spec => []CreditsConserved
<1>1. LedgerInvariant /\ LedgerInvariant' /\ Balanced /\ [Next]_vars => Balanced'
  BY NextBalanced
<1> QED
  BY <1>1, InitBalanced, Invariance, BalancedConserves, PTL DEF Spec

-----------------------------------------------------------------------------
(* Refinement *)

\* With the invariant, the status of a task tells the state of its account.
AccountOf(s) ==
  IF s = "none" THEN "none"
  ELSE IF s \in Pending THEN "held"
  ELSE IF s = "success" THEN "charged" ELSE "refunded"

LEMMA AccountFacts ==
  ASSUME LedgerInvariant, NEW t \in Tasks
  PROVE  Account(t) = AccountOf(status[t])
<1>1. Cost[t] \in Nat \ {0}
  BY TasksAssumption
<1>2. status[t] \in Statuses
  BY DEF LedgerInvariant, TypeOK
<1>3. /\ hold[t] = IF status[t] = "none" THEN 0 ELSE Cost[t]
      /\ refund[t] = IF status[t] = "failed" THEN Cost[t] ELSE 0
  BY DEF LedgerInvariant, SettledExactlyOnce
<1> QED
  BY <1>1, <1>2, <1>3 DEF Account, AccountOf, Statuses, Pending, Terminal

LEMMA RefinesInit == Init => Credits!Init
<1> SUFFICES ASSUME Init PROVE Credits!Init
  OBVIOUS
<1>1. \A t \in Tasks : Account(t) = "none"
  BY DEF Init, Account
<1> QED
  BY <1>1 DEF Init, Credits!Init

LEMMA AccountFactsNext ==
  ASSUME LedgerInvariant', NEW t \in Tasks
  PROVE  Account(t)' = AccountOf(status'[t])
<1>1. Cost[t] \in Nat \ {0}
  BY TasksAssumption
<1>2. status'[t] \in Statuses
  BY DEF LedgerInvariant, TypeOK
<1>3. /\ hold'[t] = IF status'[t] = "none" THEN 0 ELSE Cost[t]
      /\ refund'[t] = IF status'[t] = "failed" THEN Cost[t] ELSE 0
  BY DEF LedgerInvariant, SettledExactlyOnce
<1> QED
  BY <1>1, <1>2, <1>3 DEF Account, AccountOf, Statuses, Pending, Terminal

LEMMA RefinesNext ==
  ASSUME LedgerInvariant, LedgerInvariant', [Next]_vars
  PROVE  [Credits!Next]_(Credits!accountVars)
<1> DEFINE before == [t \in Tasks |-> AccountOf(status[t])]
           after == [t \in Tasks |-> AccountOf(status'[t])]
<1>1. [t \in Tasks |-> Account(t)] = before
  BY AccountFacts
<1>2. [t \in Tasks |-> Account(t)]' = after
  BY AccountFactsNext
<1> SUFFICES \/ wallet' = wallet /\ after = before
             \/ \E t \in Tasks :
                  \/ /\ before[t] = "none"
                     /\ wallet[Owner[t]] >= Cost[t]
                     /\ after = [before EXCEPT ![t] = "held"]
                     /\ wallet' = [wallet EXCEPT ![Owner[t]] = @ - Cost[t]]
                  \/ /\ before[t] = "held"
                     /\ after = [before EXCEPT ![t] = "charged"]
                     /\ wallet' = wallet
                  \/ /\ before[t] = "held"
                     /\ after = [before EXCEPT ![t] = "refunded"]
                     /\ wallet' = [wallet EXCEPT ![Owner[t]] = @ + Cost[t]]
             \/ \E u \in Users, amount \in Adjustments :
                  /\ wallet' = [wallet EXCEPT ![u] = @ + amount]
                  /\ after = before
  BY <1>1, <1>2 DEF Credits!Next, Credits!Hold, Credits!Charge, Credits!Refund,
                    Credits!Adjust, Credits!accountVars
<1>3. CASE Benign
  <2>1. \A t \in Tasks : AccountOf(status'[t]) = AccountOf(status[t])
    BY <1>3 DEF Benign, AccountOf, Pending
  <2> QED
    BY <1>3, <2>1 DEF Benign, money
<1>4. ASSUME NEW p \in Threads, InsertTask(p)
      PROVE  \E t \in Tasks :
               /\ before[t] = "none"
               /\ wallet[Owner[t]] >= Cost[t]
               /\ after = [before EXCEPT ![t] = "held"]
               /\ wallet' = [wallet EXCEPT ![Owner[t]] = @ - Cost[t]]
  <2> DEFINE j == th[p].job
  <2>1. /\ j \in Tasks
        /\ status[j] = "none"
        /\ wallet[Owner[j]] >= Cost[j]
        /\ status' = [status EXCEPT ![j] = "queued"]
        /\ wallet' = [wallet EXCEPT ![Owner[j]] = @ - Cost[j]]
    BY <1>4, InsertTaskFacts
  <2> HIDE DEF j
  <2>2. AccountOf(status[j]) = "none" /\ AccountOf("queued") = "held"
    BY <2>1 DEF AccountOf, Pending
  <2>3. after = [before EXCEPT ![j] = "held"]
    BY <2>1, <2>2 DEF LedgerInvariant, TypeOK
  <2> QED
    BY <2>1, <2>2, <2>3
<1>5. ASSUME NEW p \in Threads, Complete(p)
      PROVE  /\ wallet' = wallet
             /\ \/ after = before
                \/ \E t \in Tasks :
                     before[t] = "held" /\ after = [before EXCEPT ![t] = "charged"]
  <2> DEFINE j == th[p].job
  <2>1. j \in Tasks /\ wallet' = wallet
    BY <1>5 DEF Complete, At, money, LedgerInvariant, JobsExist
  <2>2. CASE status[j] = "processing"
    <3>1. status' = [status EXCEPT ![j] = "success"]
      BY <1>5, <2>2 DEF Complete
    <3> HIDE DEF j
    <3>2. AccountOf(status[j]) = "held" /\ AccountOf("success") = "charged"
      BY <2>2 DEF AccountOf, Pending
    <3>3. after = [before EXCEPT ![j] = "charged"]
      BY <2>1, <3>1, <3>2 DEF LedgerInvariant, TypeOK
    <3> QED
      BY <2>1, <3>2, <3>3
  <2>3. CASE status[j] # "processing"
    BY <1>5, <2>1, <2>3 DEF Complete
  <2> QED
    BY <2>2, <2>3
<1>6. ASSUME NEW p \in Threads, FailCommit(p)
      PROVE  \E t \in Tasks :
               /\ before[t] = "held"
               /\ after = [before EXCEPT ![t] = "refunded"]
               /\ wallet' = [wallet EXCEPT ![Owner[t]] = @ + Cost[t]]
  <2> DEFINE j == th[p].job
  <2>1. /\ j \in Tasks /\ Owner[j] \in Users
        /\ status[j] \in Pending
        /\ refund[j] = 0 /\ RefundAmount(j) = Cost[j] /\ Cost[j] \in Nat
    BY <1>6, FailCommitFacts
  <2>2. /\ status' = [status EXCEPT ![j] = "failed"]
        /\ wallet' = [wallet EXCEPT ![Owner[j]] = @ + RefundAmount(j) - refund[j]]
    BY <1>6 DEF FailCommit
  <2> HIDE DEF j
  <2>3. wallet' = [wallet EXCEPT ![Owner[j]] = @ + Cost[j]]
    <3>1. wallet[Owner[j]] + Cost[j] - 0 = wallet[Owner[j]] + Cost[j]
      BY <2>1 DEF LedgerInvariant, TypeOK
    <3> QED
      BY <2>1, <2>2, <3>1
  <2>4. AccountOf(status[j]) = "held" /\ AccountOf("failed") = "refunded"
    BY <2>1 DEF AccountOf, Pending
  <2>5. after = [before EXCEPT ![j] = "refunded"]
    BY <2>1, <2>2, <2>4 DEF LedgerInvariant, TypeOK
  <2> QED
    BY <2>1, <2>3, <2>4, <2>5
<1>7. ASSUME NEW u \in Users, NEW amount \in Adjustments, AdjustCredits(u, amount)
      PROVE  wallet' = [wallet EXCEPT ![u] = @ + amount] /\ after = before
  BY <1>7 DEF AdjustCredits, database
<1> QED
  BY <1>3, <1>4, <1>5, <1>6, <1>7, StepKinds

\* The ledger implements CreditAccount: through every interleaving, crash and
\* retry a customer sees a price held once and charged or refunded once.
THEOREM Refinement == Spec => ImplementsCreditAccount
<1>1. LedgerInvariant /\ LedgerInvariant' /\ [Next]_vars
        => [Credits!Next]_(Credits!accountVars)
  BY RefinesNext
<1> QED
  BY <1>1, RefinesInit, Invariance, PTL DEF Spec, ImplementsCreditAccount, Credits!Spec
=============================================================================
