------------------------- MODULE MCDurableExecution -------------------------
(* Small instances of DurableExecution.                                    *)
EXTENDS DurableExecution, TLC

CONSTANTS a1, a2, a3, e1, e2, e3, k1, k2, v1, v2, h1

(* Executor instances that meet on one key of a tool.                      *)
RivalExec == [a \in Attempt |-> CASE a = a1 -> e1 [] a = a2 -> e2 [] a = a3 -> e3]
RivalWave == [a \in Attempt |-> 1]
RivalKey  == [a \in Attempt |-> k1]

(* One plan of two waves, {a1} then {a2, a3}, all with one key ...         *)
PlanExec == [a \in Attempt |-> e1]
PlanWave == [a \in Attempt |-> IF a = a1 THEN 1 ELSE 2]
PlanKey  == [a \in Attempt |-> k1]

(* ... or with two.                                                        *)
MixedKey == [a \in Attempt |-> IF a = a2 THEN k2 ELSE k1]

SameArch  == [e \in Executor |-> v1]
(* One executor runs another version of the service.                       *)
TwoArchs  == [e \in Executor |-> IF e = e3 THEN v2 ELSE v1]

OneDomain == [k \in Key |-> h1]

(* The two rivals of one architecture are interchangeable.                 *)
RivalSymmetry ==
    {p @@ e1 :> RivalExec[p[a1]] @@ e2 :> RivalExec[p[a2]] :
        p \in Permutations({a1, a2})}

=============================================================================
