------------------------------ MODULE AgentGraph ------------------------------
(***************************************************************************)
(* The agent graph (agent/graph.py and agent/nodes/): one action per node, *)
(* with the router that follows it, over the channels of the session's     *)
(* state.  A node returns a patch; a channel it does not name keeps its    *)
(* value, also from one turn of the session to the next unless the runner  *)
(* puts the channel into the turn's initial state.                         *)
(*                                                                         *)
(* A plan and a graph are sets of tools.  What the language model, the     *)
(* registry, the compiler and the tools answer is nondeterministic.        *)
(***************************************************************************)
EXTENDS Integers, FiniteSets

CONSTANTS
    Tool,
    Guarded,        \* tools an enabled approval policy covers
    Reducing,       \* nodes of kind "reduce"
    Needs,          \* pairs <<a, b>>: b depends on a
    Steps,          \* steps of the approval policy
    MinNodes,       \* compiler.optimizer_min_nodes
    MaxRounds,      \* compiler.max_plan_validator_rounds
    MaxReplans,     \* compiler.max_replan_rounds
    MaxRetries,     \* agent.max_reflection_retries
    MaxRecompiles,  \* compile failures that go back to the planner
    Budget,         \* the turn's replans in its ReasoningBudget
    MaxHops,        \* agent.max_graph_steps
    MaxTurns,       \* bound: turns of the session
    None

ASSUME ToolAssumption ==
    /\ IsFiniteSet(Tool) /\ None \notin Tool
    /\ None \notin {"approved", "rejected"}
    /\ None \notin [step : 0 .. Steps - 1, tools : SUBSET Tool]
    /\ Guarded \subseteq Tool /\ Reducing \subseteq Tool
    /\ Needs \subseteq Tool \X Tool

ASSUME BoundAssumption ==
    /\ Steps \in Nat \ {0} /\ MinNodes \in Nat /\ MaxRounds \in Nat
    /\ MaxReplans \in Nat /\ MaxRetries \in Nat /\ MaxRecompiles \in Nat
    /\ Budget \in Nat /\ MaxHops \in Nat \ {0} /\ MaxTurns \in Nat \ {0}

VARIABLES
    s,      \* the channels: what the checkpoint of the session holds
    made,   \* the session's artifact graph: tools whose results are in it
    at,     \* the node that runs next, "END" between turns
    hops,   \* node events of the turn
    turn,   \* turns begun
    h       \* history of the turn, for the properties

vars == <<s, made, at, hops, turn, h>>

-----------------------------------------------------------------------------
(* Channels.                                                               *)

Turn == 0 .. MaxTurns

Blank == [done |-> 0, asked |-> {}, bound |-> None]

Chain == [done : 0 .. Steps, asked : SUBSET (0 .. Steps - 1),
          bound : {None} \cup [step : 0 .. Steps - 1, tools : SUBSET Tool]]

Pending == {None} \cup [step : 0 .. Steps - 1, tools : SUBSET Tool]

(* The channels: plans and graphs, decisions of the nodes, counters, words *)
(* and the state of the approval.                                          *)
Sets == {"plan",        \* _logical_workflow
         "graph",       \* _execution_graph
         "patch",       \* _graph_patch
         "failed"}

Flags == {"toPlanner", "toCompiler", "toRouter", "toGate", "bypass", "within",
          "background", "granted", "ok",
          "ready",      \* _ready_to_plan
          "workflow"}   \* _active_workflow_id

Counters == {"rounds",  \* _plan_validator_rounds
             "replans", "retries", "recompiles", "budget",
             "modified"}    \* _approval_modification: the turn it is of

Words == {"route", "said", "cause", "next", "answer"}

Channels == Sets \cup Flags \cup Counters \cup Words \cup {"pending", "chain"}

Nodes == {"RouterNode", "RequirementCollectorNode", "InteractiveWorkflowNode",
          "SemanticPlannerNode", "PlanValidatorNode", "CompilerNode",
          "OptimizerNode", "EstimatorNode", "ValidationNode",
          "ApprovalGateNode", "ApprovalCheckpointResumeNode", "ExecutorNode",
          "AggregatorNode", "ValidatorNode", "RecoveryManagerNode",
          "ReplanNode", "ReflectionNode", "ResponseNode", "MemoryHelperNode"}

NewTurn == [granted |-> FALSE, declined |-> FALSE, replanned |-> FALSE]

Init ==
    /\ s = [plan |-> {}, graph |-> {}, patch |-> {}, route |-> "continue", toPlanner |-> FALSE,
            toCompiler |-> FALSE, toRouter |-> FALSE, toGate |-> FALSE,
            bypass |-> FALSE, rounds |-> 0, replans |-> 0, retries |-> 0,
            recompiles |-> 0, budget |-> Budget, within |-> TRUE,
            background |-> FALSE, ready |-> FALSE, granted |-> FALSE,
            said |-> None, pending |-> None, chain |-> Blank, modified |-> 0,
            failed |-> {}, ok |-> TRUE, cause |-> "none", workflow |-> FALSE,
            next |-> "none", answer |-> "none"]
    /\ made = {}
    /\ at = "END"
    /\ hops = 0
    /\ turn = 0
    /\ h = NewTurn

-----------------------------------------------------------------------------
(* What a patch makes of the channels.                                     *)
Merged(patch, t) ==
    [c \in DOMAIN patch \cup DOMAIN t |->
        IF c \in DOMAIN patch THEN patch[c] ELSE t[c]]

(* A step of the graph: the node's patch is merged into the channels and   *)
(* its router reads the result.  The runner stops the stream when the node *)
(* events of the turn have used up its budget.  A channel that only the    *)
(* node's own router reads is a field of the patch and is not kept.        *)

SlipCounted == IF at = "CompilerNode" THEN 0 ELSE hops + 1

Counted == hops + 1

Spent == Counted >= MaxHops

Go(patch, Router(_)) ==
    LET t == Merged(patch, s) IN
    /\ s' = [c \in DOMAIN s |-> IF c \in DOMAIN patch THEN patch[c] ELSE s[c]]
    /\ hops' = Counted
    /\ at' = IF Spent THEN "END" ELSE Router(t)
    /\ UNCHANGED turn

Keep == UNCHANGED <<made, h>>

Nothing == [c \in {} |-> None]

(* The turn's initial state.  An open approval and what a reply made of it *)
(* are carried over; a channel it does not name keeps its old value.       *)
SlipInitialState ==
    [route |-> "continue", toPlanner |-> FALSE, toCompiler |-> FALSE,
     bypass |-> FALSE, said |-> None, chain |-> Blank, failed |-> {},
     ok |-> TRUE, cause |-> "none", answer |-> "none", budget |-> Budget]

InitialState ==
    [route |-> "continue", toPlanner |-> FALSE, toCompiler |-> FALSE,
     bypass |-> FALSE, granted |-> FALSE, said |-> None, chain |-> Blank,
     failed |-> {}, ok |-> TRUE, cause |-> "none", answer |-> "none",
     budget |-> Budget]

SlipStartTurn ==
    /\ at = "END"
    /\ turn < MaxTurns
    /\ turn' = turn + 1
    /\ s' = Merged([pending |-> None], Merged(InitialState, s))
    /\ made' = IF s.workflow THEN made ELSE {}
    /\ at' = "RouterNode"
    /\ hops' = 0
    /\ h' = NewTurn

StartTurn ==
    /\ at = "END"
    /\ turn < MaxTurns
    /\ turn' = turn + 1
    /\ s' = Merged(InitialState, s)
    /\ made' = IF s.workflow THEN made ELSE {}
    /\ at' = "RouterNode"
    /\ hops' = 0
    /\ h' = NewTurn

-----------------------------------------------------------------------------
(* Routers.                                                                *)

(* The first branch of the code, for a request that was rejected as        *)
(* unsafe, is left out: a turn starts with "allow", and no node changes    *)
(* it.                                                                     *)
AfterRouter(t) ==
    CASE t.pending # None /\ ~t.bypass -> "ApprovalCheckpointResumeNode"
      [] (t.pending = None \/ t.bypass) /\ t.workflow /\ ~t.bypass
            -> "InteractiveWorkflowNode"
      [] OTHER
            -> CASE t.vague -> "RequirementCollectorNode"
                 [] ~t.vague /\ t.query = "chat" -> "ResponseNode"
                 [] ~t.vague /\ t.query = "workflow" /\ ~t.bypass
                        -> "InteractiveWorkflowNode"
                 [] OTHER -> "SemanticPlannerNode"

AfterPlanValidator(t) ==
    CASE t.verdict = "abort" -> "ResponseNode"
      [] t.verdict = "require_more_info" -> "RequirementCollectorNode"
      [] t.verdict = "refine" -> "SemanticPlannerNode"
      [] OTHER -> "CompilerNode"

AfterCompiler(t) ==
    CASE t.toPlanner -> "SemanticPlannerNode"
      [] ~t.toPlanner /\ t.route = "finalize" -> "ResponseNode"
      [] OTHER -> IF t.over \/ Cardinality(t.graph) <= MinNodes
                  THEN "EstimatorNode" ELSE "OptimizerNode"

AfterValidation(t) ==
    CASE t.plan = {} -> "ResponseNode"
      [] t.plan # {} /\ (t.unclear \/ ~t.ready) -> "RequirementCollectorNode"
      [] OTHER -> "ApprovalGateNode"

SlipAfterApproval(t) == IF ~t.granted THEN "ResponseNode" ELSE "ExecutorNode"

AfterApproval(t) ==
    IF t.said = "rejected" \/ ~t.granted THEN "ResponseNode" ELSE "ExecutorNode"

AfterCheckpoint(t) ==
    CASE t.toGate -> "ApprovalGateNode"
      [] ~t.toGate /\ (t.toPlanner \/ t.route = "replan")
            -> "SemanticPlannerNode"
      [] OTHER -> "ResponseNode"

SlipAfterExecutor(t) ==
    IF t.ok THEN IF t.workflow THEN "InteractiveWorkflowNode" ELSE "ResponseNode"
    ELSE "AggregatorNode"

AfterExecutor(t) ==
    CASE t.next = "execute_step" /\ t.ok -> "InteractiveWorkflowNode"
      [] ~(t.next = "execute_step" /\ t.ok)
            /\ t.graph \cap Reducing # {} -> "AggregatorNode"
      [] OTHER -> IF t.ok THEN "ResponseNode" ELSE "AggregatorNode"

AfterRecovery(t) ==
    CASE t.recovery = "retry" -> "ReflectionNode"
      [] t.recovery = "replan" -> "ReplanNode"
      [] OTHER -> "ResponseNode"

AfterReflection(t) ==
    IF t.route = "retry" THEN "ExecutorNode" ELSE "ResponseNode"

AfterRequirementCollector(t) ==
    IF t.ready \/ t.toPlanner THEN "SemanticPlannerNode" ELSE "END"

AfterWorkflow(t) ==
    CASE t.route = "finalize" -> "ResponseNode"
      [] t.route # "finalize" /\ t.toCompiler -> "CompilerNode"
      [] t.route # "finalize" /\ ~t.toCompiler /\ t.toPlanner
            -> "SemanticPlannerNode"
      [] OTHER -> IF t.toRouter THEN "RouterNode" ELSE "END"

-----------------------------------------------------------------------------
(* Understanding the message.                                              *)

(* The primary goal of the message; conversation and information are one   *)
(* chat here, and analysis is an action.                                   *)
Goals(q, v) == [query |-> q, vague |-> v]

(* From the registry alone, or the default.                                *)
HeuristicGoals == {Goals(q, FALSE) : q \in {"action", "chat", "workflow"}}

(* From the model.  Its needs_requirements counts only beside no goal that *)
(* is known: from_values drops it.                                         *)
ModelGoals == HeuristicGoals \cup {Goals("action", TRUE)}

Classified == HeuristicGoals \cup ModelGoals

(* The backstop: a chat with executable units is an action.                *)
Backed(g) == IF g.query = "chat" THEN {g, Goals("action", FALSE)} ELSE {g}

Router ==
    /\ at = "RouterNode"
    /\ \E g \in Classified : \E b \in Backed(g) : Go(b, AfterRouter)
    /\ Keep

(* The collector proceeds when the intent is clear or the rounds are used  *)
(* up; otherwise it asks.                                                  *)
CollectorProceeds ==
    /\ at = "RequirementCollectorNode"
    /\ \E direct \in BOOLEAN :
            Go([ready |-> TRUE, toPlanner |-> direct \/ s.toPlanner],
               AfterRequirementCollector)
    /\ Keep

CollectorAsks ==
    /\ at = "RequirementCollectorNode"
    /\ Go([answer |-> "question", route |-> "finalize"],
          AfterRequirementCollector)
    /\ Keep

-----------------------------------------------------------------------------
(* Planning.                                                               *)

(* A plan, which is empty when every call failed or the calls are used up. *)
SemanticPlanner ==
    /\ at = "SemanticPlannerNode"
    /\ \E p \in SUBSET Tool :
            Go([plan |-> p], LAMBDA t : "PlanValidatorNode")
    /\ Keep

(* What the validator says of the plan.                                    *)
Defect == {"empty_plan", "missing_input", "partial", "other"}

PlanPasses ==
    /\ at = "PlanValidatorNode"
    /\ Go([verdict |-> "proceed"], AfterPlanValidator)
    /\ Keep

PlanNeedsInfo ==
    /\ at = "PlanValidatorNode"
    /\ Go([verdict |-> "require_more_info"], AfterPlanValidator)
    /\ Keep

(* Operations without a source for a required input are removed.           *)
PlanDropsOperations ==
    /\ at = "PlanValidatorNode"
    /\ \E p \in SUBSET s.plan :
            /\ p # s.plan
            /\ Go([verdict |-> "proceed", plan |-> p], AfterPlanValidator)
    /\ Keep

(* One replan of the budget of the invocation, that validator, compiler    *)
(* and recovery share: a budget that is spent stays as it is.              *)
Consumed == IF s.budget = 0 THEN 0 ELSE s.budget - 1

Exhausted == s.rounds >= MaxRounds \/ s.budget = 0

PlanRefined ==
    /\ at = "PlanValidatorNode"
    /\ ~Exhausted
    /\ Go([verdict |-> "refine", rounds |-> s.rounds + 1,
           budget |-> Consumed], AfterPlanValidator)
    /\ Keep

(* Repair is used up: ask, run what there is, or give up.                  *)
PlanUnrepaired(d) ==
    CASE d \in {"empty_plan", "missing_input"}
            -> [verdict |-> "require_more_info"]
      [] d = "partial" -> [verdict |-> "proceed"]
      [] OTHER -> [verdict |-> "abort", plan |-> {}]

PlanGivenUp ==
    /\ at = "PlanValidatorNode"
    /\ Exhausted
    /\ \E d \in Defect :
            /\ d = "empty_plan" => s.plan = {}
            /\ Go(PlanUnrepaired(d), AfterPlanValidator)
    /\ Keep

(* A planning budget that was used up, in this turn or an earlier one,     *)
(* skips the optimizer.                                                    *)
CompileSucceeds ==
    /\ at = "CompilerNode"
    /\ \E over \in BOOLEAN :
            Go([graph |-> s.plan, over |-> over], AfterCompiler)
    /\ Keep

(* Back to the planner while its own bound and the shared budget allow.    *)
CompileFails ==
    /\ at = "CompilerNode"
    /\ s.plan # {}
    /\ IF s.recompiles < MaxRecompiles /\ s.budget > 0
       THEN Go([toPlanner |-> TRUE, ready |-> TRUE, budget |-> Consumed,
                recompiles |-> s.recompiles + 1], AfterCompiler)
       ELSE Go([route |-> "finalize"], AfterCompiler)
    /\ Keep

(* The passes merge and remove nodes of the graph.                         *)
Optimizer ==
    /\ at = "OptimizerNode"
    /\ \E g \in SUBSET s.graph :
            /\ g # {} \/ s.graph = {}
            /\ Go([graph |-> g], LAMBDA t : "EstimatorNode")
    /\ Keep

Estimator ==
    /\ at = "EstimatorNode"
    /\ IF s.graph = {}
       THEN Go([within |-> TRUE], LAMBDA t : "ValidationNode")
       ELSE \E w, b \in BOOLEAN :
                Go([within |-> w, background |-> b],
                   LAMBDA t : "ValidationNode")
    /\ Keep

Validation ==
    /\ at = "ValidationNode"
    /\ LET fine == s.plan # {} /\ s.graph # {} /\ s.within
       IN Go([ready |-> fine, unclear |-> ~fine], AfterValidation)
    /\ Keep

-----------------------------------------------------------------------------
(* Approval.                                                               *)

(* The tools the approval is about: all of the graph, but a reducer is no  *)
(* tool.                                                                   *)
ToolNames == s.graph \ Reducing

(* The policy they match.  A lookup that fails matches none, and so does a *)
(* graph without a guarded tool.                                           *)
PolicyFound == ToolNames \cap Guarded # {}

(* The decision of the chain binds only to the operation that is pending.  *)
BindingOk(step) ==
    /\ s.pending # None /\ s.chain.bound # None
    /\ s.chain.bound.step = step
    /\ s.pending.tools = s.chain.bound.tools

Completed(c) == [c EXCEPT !.done = @ + 1]

(* No graph, no tool that a policy guards, a chain that is through, or a   *)
(* lookup of the policies that failed: whatever the graph has, guarded     *)
(* tools included, the gate may open.                                      *)
GateOpens ==
    /\ at = "ApprovalGateNode"
    /\ Go([granted |-> TRUE], AfterApproval)
    /\ h' = [h EXCEPT !.granted = TRUE]
    /\ UNCHANGED made

StepApproved(step) ==
    IF step + 1 = Steps
    THEN [granted |-> TRUE, said |-> None, pending |-> None,
          chain |-> [Completed(s.chain) EXCEPT !.asked = {}]]
    ELSE [said |-> None, chain |-> Completed(s.chain)]

(* The decision of the conversation is consumed, whether it binds or not.  *)
GateApproved ==
    /\ at = "ApprovalGateNode" /\ PolicyFound
    /\ s.chain.done < Steps /\ s.said = "approved"
    /\ LET step == s.chain.done IN
       IF BindingOk(step)
       THEN /\ Go(StepApproved(step), AfterApproval)
            /\ h' = [h EXCEPT !.granted = @ \/ step + 1 = Steps]
       ELSE /\ Go([said |-> None, granted |-> FALSE], AfterApproval)
            /\ h' = [h EXCEPT !.granted = FALSE]
    /\ UNCHANGED made

GateRejected ==
    /\ at = "ApprovalGateNode" /\ PolicyFound
    /\ s.chain.done < Steps /\ s.said = "rejected"
    /\ Go([granted |-> FALSE, pending |-> None], AfterApproval)
    /\ Keep

(* A step that the policy frees for this operation counts as completed.    *)
GateFrees ==
    /\ at = "ApprovalGateNode" /\ PolicyFound
    /\ s.chain.done < Steps /\ s.said = None
    /\ Go([chain |-> Completed(s.chain)], AfterApproval)
    /\ Keep

GateAsks ==
    /\ at = "ApprovalGateNode" /\ PolicyFound
    /\ s.chain.done < Steps /\ s.said = None
    /\ LET step == s.chain.done IN
       IF step \in s.chain.asked
       THEN Go(Nothing, AfterApproval)
       ELSE Go([answer |-> "approval", route |-> "finalize",
                chain |-> [s.chain EXCEPT !.asked = @ \cup {step}],
                pending |-> [step |-> step, tools |-> ToolNames]],
               AfterApproval)
    /\ Keep

(* The reply to an open approval.                                          *)
Closed == [pending |-> None, modified |-> 0, route |-> "finalize",
           answer |-> "cancelled"]

ReplyExpired ==
    /\ at = "ApprovalCheckpointResumeNode" /\ s.pending # None
    /\ Go(Closed, AfterCheckpoint)
    /\ Keep

ReplyApprove ==
    /\ at = "ApprovalCheckpointResumeNode" /\ s.pending # None
    /\ Go([said |-> "approved", pending |-> None, modified |-> 0,
           toGate |-> TRUE, route |-> "resume",
           chain |-> [s.chain EXCEPT !.bound = s.pending]], AfterCheckpoint)
    /\ Keep

(* What is left of the graph depends on a tool of the refused operation.   *)
DenialBlocks == \E e \in Needs : e[2] \in s.pending.tools \cap s.graph
                               /\ e[1] \in s.graph \ s.pending.tools

ReplyReject ==
    /\ at = "ApprovalCheckpointResumeNode" /\ s.pending # None
    /\ Go(Merged(IF DenialBlocks
                 THEN [said |-> "rejected", answer |-> "text", route |-> "replan"]
                 ELSE [said |-> "rejected"], Closed), AfterCheckpoint)
    /\ h' = [h EXCEPT !.declined = TRUE]
    /\ UNCHANGED made

ReplyCancel ==
    /\ at = "ApprovalCheckpointResumeNode" /\ s.pending # None
    /\ Go(Merged([said |-> "rejected", workflow |-> FALSE], Closed),
          AfterCheckpoint)
    /\ h' = [h EXCEPT !.declined = TRUE]
    /\ UNCHANGED made

ReplyModify ==
    /\ at = "ApprovalCheckpointResumeNode" /\ s.pending # None
    /\ Go([modified |-> turn, pending |-> None,
           toPlanner |-> TRUE, bypass |-> TRUE, route |-> "resume"],
          AfterCheckpoint)
    /\ Keep

ReplyClarify ==
    /\ at = "ApprovalCheckpointResumeNode" /\ s.pending # None
    /\ Go([answer |-> "question", route |-> "finalize"], AfterCheckpoint)
    /\ Keep

-----------------------------------------------------------------------------
(* Execution and recovery.                                                 *)

(* The retry's sub-graph, when there is one, else the graph.               *)
SlipScheduled == IF s.patch # {} THEN s.patch ELSE s.plan

Scheduled == IF s.patch # {} THEN s.patch ELSE s.graph

(* The whole run is handed to a background worker.  (Nothing to execute,   *)
(* lines 633-640, never comes to the executor: Validation turns an empty   *)
(* graph away.)                                                            *)
HandOff ==
    /\ at = "ExecutorNode" /\ s.background
    /\ \/ Go([failed |-> {}, ok |-> TRUE, answer |-> "background"],
             AfterExecutor)
       \/ Go([failed |-> {}, ok |-> FALSE], AfterExecutor)
    /\ Keep

(* An operation fails, or cannot run because one it needs has failed.      *)
Outcome(g) ==
    {f \in SUBSET g : \A e \in Needs : e[2] \in f /\ e[1] \in g => e[1] \in f}

Execute ==
    /\ at = "ExecutorNode" /\ ~s.background
    /\ \E f \in Outcome(Scheduled),
          c \in {"transient", "structural"} :
            /\ f = {} => c = "transient"
            /\ Go([failed |-> f, ok |-> f = {},
                   cause |-> IF f = {} THEN "none" ELSE c], AfterExecutor)
            /\ made' = made \cup (Scheduled \ f)
    /\ UNCHANGED h

(* The reducers find no collection and the results they would reduce are   *)
(* not in the snapshot; the findings of the validator are dropped, because *)
(* their channel is not declared.                                          *)
Aggregator ==
    /\ at = "AggregatorNode"
    /\ Go(Nothing, LAMBDA t : "ValidatorNode")
    /\ Keep

Validator ==
    /\ at = "ValidatorNode"
    /\ Go(Nothing, LAMBDA t : "RecoveryManagerNode")
    /\ Keep

Decision ==
    CASE s.workflow -> "fail"
      [] ~s.workflow /\ (s.replans >= MaxReplans
                         \/ (s.cause = "none" /\ s.within)) -> "fail"
      [] OTHER ->
            CASE s.cause = "structural" \/ ~s.within
                    -> "replan"
              [] OTHER -> IF s.retries < MaxRetries THEN "retry" ELSE "fail"

RecoveryManager ==
    /\ at = "RecoveryManagerNode"
    /\ Go([recovery |-> Decision], AfterRecovery)
    /\ Keep

(* The replan is counted; without budget it only leaves an error.          *)
SlipReplan ==
    /\ at = "ReplanNode"
    /\ Go([replans |-> s.replans + 1, budget |-> s.budget - 1],
          LAMBDA t : "SemanticPlannerNode")
    /\ h' = [h EXCEPT !.replanned = TRUE]
    /\ UNCHANGED made

Replan ==
    /\ at = "ReplanNode"
    /\ Go([replans |-> s.replans + 1, budget |-> Consumed],
          LAMBDA t : "SemanticPlannerNode")
    /\ h' = [h EXCEPT !.replanned = TRUE]
    /\ UNCHANGED made

Dependents(f) == {a \in s.graph : \E b \in f : <<a, b>> \in Needs}

GraphPatch == (s.failed \cap s.graph) \cup Dependents(s.failed)

QuorumLost == 2 * Cardinality(s.failed) > Cardinality(s.graph)

Retryable ==
    s.failed # {} /\ s.graph # {} /\ s.retries < MaxRetries /\ ~QuorumLost

(* Nothing to retry, nothing left to retry with, or too much has failed:   *)
(* then what succeeded is compensated.                                     *)
ReflectionFinalizes ==
    /\ at = "ReflectionNode" /\ ~Retryable
    /\ Go([route |-> "finalize"], AfterReflection)
    /\ Keep

ReflectionRetries ==
    /\ at = "ReflectionNode" /\ Retryable
    /\ Go([route |-> "retry", patch |-> GraphPatch,
           retries |-> s.retries + 1], AfterReflection)
    /\ Keep

-----------------------------------------------------------------------------
(* The interactive workflow, by what it returns.                           *)

Workflow(patch) ==
    /\ at = "InteractiveWorkflowNode"
    /\ Go(patch, AfterWorkflow)
    /\ Keep

WorkflowNotComposed == ~s.workflow /\ Workflow(Nothing)

WorkflowAsks ==
    Workflow([workflow |-> TRUE, route |-> "finalize", answer |-> "question"])

(* The tools of the steps that can run, with those that produce what they  *)
(* take from a name.                                                       *)
StepPlans == SUBSET Tool \ {{}}

WorkflowRunsStep ==
    \E p \in StepPlans :
        Workflow([workflow |-> TRUE, plan |-> p, next |-> "execute_step",
                  toCompiler |-> TRUE])

WorkflowPlansStep ==
    Workflow([workflow |-> TRUE, toPlanner |-> TRUE,
              bypass |-> TRUE])

WorkflowOffTopic ==
    s.workflow /\ Workflow([bypass |-> TRUE, toRouter |-> TRUE])

(* Cancelled, or stopped by a step that cannot run.                        *)
WorkflowStops ==
    \E a \in {"cancelled", "text"} :
        /\ a = "cancelled" => s.workflow
        /\ Workflow([workflow |-> FALSE, route |-> "finalize", answer |-> a])

WorkflowCompletes ==
    Workflow([workflow |-> FALSE, next |-> "finalize", route |-> "finalize"])

-----------------------------------------------------------------------------
(* The answer.                                                             *)

Passthrough == {"question", "approval", "cancelled", "background"}

Response ==
    /\ at = "ResponseNode"
    /\ Go([answer |-> IF s.answer \in Passthrough THEN s.answer ELSE "text",
           route |-> "finalize"], LAMBDA t : "MemoryHelperNode")
    /\ Keep

MemoryHelper ==
    /\ at = "MemoryHelperNode"
    /\ Go(Nothing, LAMBDA t : "END")
    /\ Keep

-----------------------------------------------------------------------------
Planning ==
    \/ SemanticPlanner \/ PlanPasses \/ PlanNeedsInfo \/ PlanDropsOperations
    \/ PlanRefined \/ PlanGivenUp \/ CompileSucceeds \/ CompileFails
    \/ Optimizer \/ Estimator \/ Validation

Approving ==
    \/ GateOpens \/ GateApproved \/ GateRejected \/ GateFrees \/ GateAsks
    \/ ReplyExpired \/ ReplyApprove \/ ReplyReject \/ ReplyCancel
    \/ ReplyModify \/ ReplyClarify

Executing ==
    \/ HandOff \/ Execute \/ Aggregator \/ Validator
    \/ RecoveryManager \/ Replan \/ ReflectionFinalizes
    \/ ReflectionRetries

Conversing ==
    \/ Router \/ CollectorProceeds \/ CollectorAsks
    \/ WorkflowNotComposed \/ WorkflowAsks \/ WorkflowRunsStep
    \/ WorkflowPlansStep \/ WorkflowOffTopic \/ WorkflowStops
    \/ WorkflowCompletes \/ Response \/ MemoryHelper

Node == Planning \/ Approving \/ Executing \/ Conversing

Next == StartTurn \/ Node

Spec == Init /\ [][Next]_vars

(* The graph library runs the next node as soon as one has returned.       *)
FairSpec == Spec /\ WF_vars(Node)

-----------------------------------------------------------------------------
(* Properties.                                                             *)

SetsType ==
    /\ s.plan \in SUBSET Tool /\ s.graph \in SUBSET Tool
    /\ s.patch \in SUBSET Tool /\ s.failed \in SUBSET Tool

FlagsType ==
    /\ s.toPlanner \in BOOLEAN /\ s.toCompiler \in BOOLEAN
    /\ s.toRouter \in BOOLEAN /\ s.toGate \in BOOLEAN
    /\ s.bypass \in BOOLEAN /\ s.within \in BOOLEAN
    /\ s.background \in BOOLEAN /\ s.granted \in BOOLEAN
    /\ s.ok \in BOOLEAN /\ s.ready \in BOOLEAN /\ s.workflow \in BOOLEAN

CountersType ==
    /\ s.rounds \in 0 .. MaxRounds /\ s.replans \in 0 .. MaxReplans
    /\ s.retries \in 0 .. MaxRetries /\ s.recompiles \in 0 .. MaxRecompiles
    /\ s.budget \in 0 .. Budget /\ s.modified \in Turn

WordsType ==
    /\ s.route \in {"continue", "finalize", "retry", "replan", "resume"}
    /\ s.said \in {None, "approved", "rejected"}
    /\ s.cause \in {"none", "transient", "structural"}
    /\ s.next \in {"none", "execute_step", "finalize"}
    /\ s.answer \in {"none", "question", "approval", "cancelled", "background",
                     "text"}

ApprovalType == s.pending \in Pending /\ s.chain \in Chain

PlaceType ==
    /\ made \subseteq Tool
    /\ at \in Nodes \cup {"END"}
    /\ hops \in 0 .. MaxHops
    /\ turn \in Turn
    /\ h \in [granted : BOOLEAN, declined : BOOLEAN, replanned : BOOLEAN]

TypeOK ==
    /\ DOMAIN s = Channels
    /\ SetsType /\ FlagsType /\ CountersType /\ WordsType /\ ApprovalType
    /\ PlaceType

(* The executor runs only in a turn in which the gate has granted: a grant *)
(* of an earlier turn, left in the checkpoint when that turn was stopped   *)
(* between the gate and the executor, is never executed on                 *)
(* (route_after_approval, the resets of runner.invoke).                    *)
GrantedThisTurn == at = "ExecutorNode" => h.granted

(* Once the user has refused or cancelled the pending operation, nothing   *)
(* is executed for the rest of the turn, whatever is replanned in it and   *)
(* whether or not the gate still finds the policy.                         *)
DeclinedRunsNothing == at = "ExecutorNode" => ~h.declined

(* An open approval stays open, over any number of turns and of stopped    *)
(* runs, until a reply to it closes it.                                    *)
ApprovalStaysOpen ==
    [][s.pending # None /\ s'.pending = None
        => at = "ApprovalCheckpointResumeNode"]_vars

(* The results of a turn are those of the graph that was compiled last, as *)
(* long as no retry has left its sub-graph in the checkpoint.              *)
RunsTheGraph ==
    [][s.retries = 0 => made' \subseteq made \cup s.graph]_vars

(* A turn hands a second run to the background workers only after one of   *)
(* its replans, or to execute a step of an interactive workflow: neither a *)
(* reducer nor a retry brings a run that was handed off back to the        *)
(* executor (executor_node, route_after_executor, reflection_node).        *)
OneHandoff ==
    at = "ExecutorNode" /\ s.background /\ s.answer = "background"
        => s.next = "execute_step" \/ h.replanned

(* Every turn ends: the replans, the questions and the compile failures    *)
(* that go back to the planner cannot run past the node budget.            *)
TurnsEnd == [](at # "END" => <>(at = "END"))

-----------------------------------------------------------------------------
(* What comments and documents say, and the code does not do.              *)

(* "approve -> decision=approved -> resume graph from the checkpoint": the *)
(* operation of a policy of one step runs once it is approved.             *)
ApprovedIsResumed ==
    [][at = "ApprovalGateNode" /\ s.said = "approved" /\ Steps = 1 /\ ~Spent
        => at' = "ExecutorNode"]_vars

(* "APPROVAL MODIFICATION: the user altered a pending operation - plan the *)
(* modified request instead of the original one."  A later message is not  *)
(* the original one.                                                       *)
PlansTheMessage == at = "SemanticPlannerNode" => s.modified \in {0, turn}

(* "cleared between turns by the runner": the ephemeral fields.            *)
EphemeralsCleared ==
    at = "RouterNode" /\ hops = 0
        => /\ ~s.ready /\ ~s.toGate /\ ~s.toRouter
           /\ s.rounds = 0 /\ s.replans = 0 /\ s.retries = 0
           /\ s.recompiles = 0

(* "not granted -> ResponseNode": while its approval is asked for, an      *)
(* operation does not run.                                                 *)
AskedMeansWaits ==
    [][at = "ApprovalGateNode" /\ s'.answer = "approval"
        => at' # "ExecutorNode"]_vars

(* "graph ends - user needs to reply to the question".                     *)
QuestionEndsTurn ==
    [][at = "RequirementCollectorNode" /\ s'.answer = "question"
        => at' = "END"]_vars

(* "NO failed nodes -> full graph": a new plan runs, not the sub-graph of  *)
(* an earlier retry.                                                       *)
RunsTheNewGraph ==
    [][s.failed = {} => made' \subseteq made \cup s.graph]_vars

=============================================================================
