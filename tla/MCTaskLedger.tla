---------------------------- MODULE MCTaskLedger ----------------------------
(***************************************************************************)
(* Instances of TaskLedger for TLC: requests of one user, two of which     *)
(* carry the same idempotency key, or one order of two images.             *)
(***************************************************************************)
EXTENDS TaskLedger, TLC

CONSTANTS u1, t1, t2, t3, k1

MCOwner == [t \in Tasks |-> u1]
MCRepeated == [t \in Tasks |-> IF t = t3 THEN NoKey ELSE k1]
MCNoKey == [t \in Tasks |-> NoKey]
MCOneImage == [t \in Tasks |-> 1]
MCTwoImages == [t \in Tasks |-> 2]
MCCostTwo == [t \in Tasks |-> 2]
MCThreeCredits == [u \in Users |-> 3]
MCAdjustments == {-1, 1}
MCNoAdjustments == {}

\* Threads are interchangeable.
ThreadSymmetry == Permutations(Threads)
=============================================================================
