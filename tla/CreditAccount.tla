--------------------------- MODULE CreditAccount ---------------------------
(***************************************************************************)
(* What the credit system promises a customer, without tasks, threads,     *)
(* queues or retries: a task's price is held once, against a balance that  *)
(* covers it, and the hold ends once, either as a charge or as a refund of *)
(* exactly what was held.  TaskLedger is shown to implement this.          *)
(***************************************************************************)
EXTENDS Integers

CONSTANTS
  Users,           \* customers, each with one wallet
  Tasks,           \* image tasks
  Owner,           \* Owner[t]: the user who pays for t
  Cost,            \* Cost[t]: credits t costs
  InitialCredits,  \* InitialCredits[u]: the wallet before the first task
  Adjustments      \* amounts an administrator or a redeemed code may add

VARIABLES
  balance,         \* balance[u]: what u can spend
  account          \* account[t]: what became of the price of t

accountVars == <<balance, account>>

AccountStates == {"none", "held", "charged", "refunded"}

Init ==
  /\ balance = InitialCredits
  /\ account = [t \in Tasks |-> "none"]

\* The price of t leaves the wallet: only when the balance covers it.
Hold(t) ==
  /\ account[t] = "none"
  /\ balance[Owner[t]] >= Cost[t]
  /\ account' = [account EXCEPT ![t] = "held"]
  /\ balance' = [balance EXCEPT ![Owner[t]] = @ - Cost[t]]

\* The images were delivered: the hold becomes final.
Charge(t) ==
  /\ account[t] = "held"
  /\ account' = [account EXCEPT ![t] = "charged"]
  /\ UNCHANGED balance

\* The task failed: all that was held comes back.
Refund(t) ==
  /\ account[t] = "held"
  /\ account' = [account EXCEPT ![t] = "refunded"]
  /\ balance' = [balance EXCEPT ![Owner[t]] = @ + Cost[t]]

\* A wallet entry that belongs to no task.
Adjust(u, amount) ==
  /\ balance' = [balance EXCEPT ![u] = @ + amount]
  /\ UNCHANGED account

Next ==
  \/ \E t \in Tasks : Hold(t) \/ Charge(t) \/ Refund(t)
  \/ \E u \in Users, amount \in Adjustments : Adjust(u, amount)

Spec == Init /\ [][Next]_accountVars
=============================================================================
