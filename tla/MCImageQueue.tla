---------------------------- MODULE MCImageQueue ----------------------------
(***************************************************************************)
(* Instances of ImageQueue for TLC.  Every thread of an instance is listed *)
(* under it; instance i2 is the one that starts late.                      *)
(***************************************************************************)
EXTENDS ImageQueue, TLC

CONSTANTS i1, i2, w1, w2, c1, c2

OneInstance == [x \in Workers \cup Clients |-> i1]
TwoInstances == [x \in Workers \cup Clients |-> IF x \in {w2} THEN i2 ELSE i1]
=============================================================================
