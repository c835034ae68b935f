---------------------------- MODULE MCTaskQueue ----------------------------
(* Instances of TaskQueue. *)
EXTENDS TaskQueue, TLC

CONSTANTS w1, w2, t1, t2

AllNow == [t \in Task |-> "now"]

(* One that comes back and one that does not. *)
Scheduled == [t \in Task |-> IF t = t1 THEN "cron" ELSE "once"]

WorkerSymmetry == Permutations(Worker)
=============================================================================
