--------------------------- MODULE LedgerContract ---------------------------
(***************************************************************************)
(* What execution/ledger.py promises for each execution key, without rows, *)
(* tokens or clocks: at most one holder at a time, a result that is final, *)
(* and a claim that only its holder gives up or completes until it lapses. *)
(***************************************************************************)
CONSTANTS Key, Attempt, None

VARIABLES
    phase,    \* Key -> "open", "held", "lapsed" (lease in the past), "done"
    holder    \* Key -> the attempt that claimed it last, or None

Init == /\ phase = [k \in Key |-> "open"]
        /\ holder = [k \in Key |-> None]

(* An attempt wins a key that nobody holds.                                *)
Acquire(k) == /\ phase[k] \in {"open", "lapsed"}
              /\ phase'[k] = "held"
              /\ holder'[k] \in Attempt

(* The lease runs out.                                                     *)
Lapse(k) == /\ phase[k] = "held"
            /\ phase'[k] = "lapsed"
            /\ holder'[k] = holder[k]

(* The last holder records its result.                                     *)
Finish(k) == /\ phase[k] \in {"held", "lapsed"}
             /\ phase'[k] = "done"
             /\ holder'[k] = None

(* The last holder gives the claim up.                                     *)
Free(k) == /\ phase[k] \in {"held", "lapsed"}
           /\ phase'[k] = "open"
           /\ holder'[k] = None

KeyStep(k) == Acquire(k) \/ Lapse(k) \/ Finish(k) \/ Free(k)

Idle(k) == phase'[k] = phase[k] /\ holder'[k] = holder[k]

(* Keys are independent: a step may move several of them.                  *)
Next == \A k \in Key : KeyStep(k) \/ Idle(k)

Spec == Init /\ [][Next]_<<phase, holder>>

=============================================================================
