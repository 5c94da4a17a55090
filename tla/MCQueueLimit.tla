---------------------------- MODULE MCQueueLimit ----------------------------
(***************************************************************************)
(* A small service that starts in one of six ways.  In four of them only   *)
(* one task is still to come: a second instance is started late, a process *)
(* will crash, a call to Redis or PostgreSQL will fail, or a heartbeat is  *)
(* slow.  In the others a fault has cost the service a worker, and two     *)
(* clients with two tasks meet at the queue limit: both tasks are queued,  *)
(* or the request of one of them waits for its images.                     *)
(***************************************************************************)
EXTENDS MCImageQueue

CONSTANTS t1, t2, t3, t4

\* A thread that is gone takes no step before its instance is started again; an
\* instance that is down may be started at any time.
Beginnings ==
  {[come |-> {t1}, down |-> Late, gone |-> {c2}, crashes |-> MaxCrashes, errors |-> MaxErrors],
   [come |-> {t1}, down |-> {}, gone |-> {w2, c2}, crashes |-> 0, errors |-> MaxErrors],
   [come |-> {t1}, down |-> {}, gone |-> {c2}, crashes |-> MaxCrashes, errors |-> 0],
   [come |-> {t4}, down |-> {}, gone |-> {c2}, crashes |-> MaxCrashes, errors |-> MaxErrors],
   [come |-> {t1, t2}, down |-> {}, gone |-> {w2}, crashes |-> MaxCrashes, errors |-> MaxErrors],
   [come |-> {t1, t3}, down |-> {}, gone |-> {w2}, crashes |-> MaxCrashes, errors |-> MaxErrors]}

SetupInit ==
  /\ member = [s \in Sets |-> {}] /\ waiting = <<>>
  /\ due = {} /\ stale = {} /\ dead = {}
  /\ beats = [w \in Workers |-> {}]
  /\ lock = [t \in Tasks |-> Free] /\ attempts = [t \in Tasks |-> 0]
  /\ \E b \in Beginnings :
       /\ status = [t \in Tasks |-> IF t \in b.come THEN "none" ELSE "success"]
       /\ crashes = b.crashes /\ errors = b.errors
       /\ th = [x \in Threads |->
                  IF x \in b.gone THEN At("gone")
                  ELSE IF x \in Instances THEN At(IF x \in b.down THEN "down" ELSE "up")
                  ELSE At(IF Host[x] \in b.down THEN "down" ELSE "idle")]

SetupSpec == SetupInit /\ [][Next]_vars
=============================================================================
