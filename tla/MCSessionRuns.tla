---------------------------- MODULE MCSessionRuns ----------------------------
(***************************************************************************)
(* A small instance of SessionRuns: of faults, cancellations, stops and    *)
(* crashes, each at most once, two strike a behaviour, and the node that a *)
(* run gets to adds an ordinary message.                                   *)
(***************************************************************************)
EXTENDS SessionRuns, TLC

CONSTANTS r1, r2

RunSymmetry == Permutations(Run)

Few == faults + cancels + stops + crashes <= 2

Ordinary ==
    \A r \in Run : steps'[r] # steps[r] =>
        \E m \in mem'[r].kept : m.of = r /\ m.n = steps'[r] /\ ~m.lasts

MCSpec == Init /\ [][Next /\ Few' /\ Ordinary]_vars

MCFairSpec ==
    /\ MCSpec
    /\ \A r \in Run : WF_vars(RunStep(r)) /\ WF_vars(Beating(r))
    /\ WF_vars(Tick)

=============================================================================
