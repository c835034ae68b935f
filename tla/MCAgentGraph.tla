----------------------------- MODULE MCAgentGraph -----------------------------
(* Instances of the agent graph. *)
EXTENDS AgentGraph

CONSTANTS send, sum

(* The reducer needs what the sender, which a policy covers, returns.      *)
SumNeedsSend == {<<sum, send>>}
NoNeeds == {}

(* Between turns only what the next turn's initial state leaves alone      *)
(* matters, and nothing does after the last turn.                          *)
Live ==
    CASE at # "END" -> vars
      [] at = "END" /\ turn < MaxTurns
            -> <<Merged(InitialState, s), IF s.workflow THEN made ELSE {}, turn>>
      [] OTHER -> <<turn>>

=============================================================================
