---------------------------- MODULE PrintQueueMC ----------------------------
(* Instances of PrintQueue.  Each train is one enqueue request.             *)
EXTENDS PrintQueue

CONSTANTS t1, t2, s1, s2, spooling, sending, c1, c2

EachItsOwn == [j \in Jobs |-> IF j = 1 THEN t1 ELSE t2]
OneTrain == [j \in Jobs |-> t1]
=============================================================================
