--------------------------- MODULE AgentGraph_proofs ---------------------------
(***************************************************************************)
(* Proofs about the agent graph: what has to hold when the executor runs,  *)
(* how an approval is closed and which operations a turn's results are of. *)
(***************************************************************************)
EXTENDS AgentGraph, TLAPS

(* Type correctness, with what the counters rest on: a turn comes to the   *)
(* replan node only while replans are left, and goes on only while node    *)
(* events are.                                                             *)
TypeInv == /\ TypeOK
           /\ at = "ReplanNode" => s.replans < MaxReplans
           /\ at # "END" => hops < MaxHops

ChannelTypes ==
  DOMAIN s = Channels /\ SetsType /\ FlagsType /\ CountersType /\ WordsType /\ ApprovalType

(* What a node's patch leaves in the channels.                             *)
Patched(q) == s' = [c \in DOMAIN s |-> IF c \in DOMAIN q THEN q[c] ELSE s[c]]

(* The approval chain under the gate's updates.                            *)
LEMMA ChainSteps ==
  ASSUME NEW c \in Chain
  PROVE  /\ c.done < Steps => /\ Completed(c) \in Chain
                             /\ [Completed(c) EXCEPT !.asked = {}] \in Chain
                             /\ [c EXCEPT !.asked = @ \cup {c.done}] \in Chain
         /\ \A p \in Pending : [c EXCEPT !.bound = p] \in Chain
<1>1. c.done < Steps => Completed(c) \in Chain
  BY BoundAssumption DEF Chain, Completed
<1>2. c.done < Steps => [Completed(c) EXCEPT !.asked = {}] \in Chain
  BY <1>1 DEF Chain
<1>3. c.done < Steps => [c EXCEPT !.asked = @ \cup {c.done}] \in Chain
  BY BoundAssumption DEF Chain
<1>4. \A p \in Pending : [c EXCEPT !.bound = p] \in Chain
  BY DEF Chain, Pending
<1> QED BY <1>1, <1>2, <1>3, <1>4

LEMMA Zero == 0 \in Turn
BY BoundAssumption DEF Turn

(* The router classifies, and leads on by what it finds.                   *)
LEMMA Understands ==
  ASSUME Router
  PROVE  /\ at = "RouterNode" /\ Keep
         /\ \E q \in {"action", "chat", "workflow"}, v \in BOOLEAN :
               Go([query |-> q, vague |-> v], AfterRouter)
<1>1. PICK g \in Classified : \E b \in Backed(g) : Go(b, AfterRouter)
  BY DEF Router
<1>2. PICK b \in Backed(g) : Go(b, AfterRouter)
  BY <1>1
<1>3. \E q \in {"action", "chat", "workflow"}, v \in BOOLEAN : b = [query |-> q, vague |-> v]
  BY <1>1, <1>2 DEF Classified, HeuristicGoals, ModelGoals, Backed, Goals
<1> QED BY <1>2, <1>3 DEF Router

LEMMA GraphTools ==
  ASSUME SetsType
  PROVE  ToolNames \in SUBSET Tool /\ GraphPatch \in SUBSET Tool /\ Scheduled \in SUBSET Tool
BY DEF SetsType, ToolNames, GraphPatch, Dependents, Scheduled

LEMMA Spending ==
  ASSUME CountersType
  PROVE  Consumed \in 0 .. Budget
BY BoundAssumption DEF CountersType, Consumed

LEMMA PlanningTypes ==
  ASSUME TypeInv, Planning
  PROVE  ChannelTypes'
<1> USE BoundAssumption DEF TypeOK, Go, Merged, Channels, Sets, Flags, Counters, Words,
        SetsType, FlagsType, CountersType, WordsType, ApprovalType, ChannelTypes, Patched
<1>0. TypeOK
  BY DEF TypeInv
<1>1. CASE SemanticPlanner
  BY <1>0, <1>1 DEF SemanticPlanner
<1>2. CASE PlanPasses
  BY <1>0, <1>2 DEF PlanPasses
<1>3. CASE PlanNeedsInfo
  BY <1>0, <1>3 DEF PlanNeedsInfo
<1>4. CASE PlanDropsOperations
  BY <1>0, <1>4 DEF PlanDropsOperations
<1>5. CASE PlanRefined
  <2>1. Patched([verdict |-> "refine", rounds |-> s.rounds + 1, budget |-> Consumed])
    BY <1>5 DEF PlanRefined
  <2>2. s.rounds < MaxRounds
    BY <1>0, <1>5 DEF PlanRefined, Exhausted
  <2> QED BY <1>0, <2>1, <2>2, Spending
<1>6. CASE PlanGivenUp
  BY <1>0, <1>6 DEF PlanGivenUp, PlanUnrepaired
<1>7. CASE CompileSucceeds
  BY <1>0, <1>7 DEF CompileSucceeds
<1>8. CASE CompileFails
  <2>1. CASE s.recompiles < MaxRecompiles /\ s.budget > 0
    <3>1. Patched([toPlanner |-> TRUE, ready |-> TRUE, budget |-> Consumed,
                   recompiles |-> s.recompiles + 1])
      BY <1>8, <2>1 DEF CompileFails
    <3>2. s.recompiles + 1 \in 0 .. MaxRecompiles /\ Consumed \in 0 .. Budget
      BY <1>0, <2>1, Spending
    <3>3. CountersType'
      BY <1>0, <3>1, <3>2
    <3> QED BY <1>0, <3>1, <3>3
  <2>2. CASE ~(s.recompiles < MaxRecompiles /\ s.budget > 0)
    BY <1>0, <1>8, <2>2 DEF CompileFails
  <2> QED BY <2>1, <2>2
<1>9. CASE Optimizer
  BY <1>0, <1>9 DEF Optimizer
<1>10. CASE Estimator
  <2>1. CASE s.graph = {}
    <3>1. Patched([within |-> TRUE])
      BY <1>10, <2>1 DEF Estimator
    <3> QED BY <1>0, <3>1
  <2>2. CASE s.graph # {}
    <3>1. PICK w \in BOOLEAN, b \in BOOLEAN : Patched([within |-> w, background |-> b])
      BY <1>10, <2>2 DEF Estimator
    <3> QED BY <1>0, <3>1
  <2> QED BY <2>1, <2>2
<1>11. CASE Validation
  BY <1>0, <1>11 DEF Validation
<1> QED BY <1>1, <1>2, <1>3, <1>4, <1>5, <1>6, <1>7, <1>8, <1>9, <1>10, <1>11 DEF Planning

LEMMA ApprovingTypes ==
  ASSUME TypeInv, Approving
  PROVE  ChannelTypes'
<1> USE BoundAssumption DEF TypeOK, Go, Merged, Channels, Sets, Flags, Counters, Words,
        SetsType, FlagsType, CountersType, WordsType, ApprovalType, ChannelTypes, Patched
<1>0. TypeOK
  BY DEF TypeInv
<1>1. CASE GateOpens
  BY <1>0, <1>1 DEF GateOpens
<1>2. CASE GateApproved
  <2> DEFINE step == s.chain.done
  <2>1. /\ Completed(s.chain) \in Chain /\ [Completed(s.chain) EXCEPT !.asked = {}] \in Chain
    BY <1>0, <1>2, ChainSteps DEF GateApproved
  <2>2. CASE BindingOk(step) /\ step + 1 = Steps
    <3>1. Patched([granted |-> TRUE, said |-> None, pending |-> None,
                   chain |-> [Completed(s.chain) EXCEPT !.asked = {}]])
      BY <1>2, <2>2 DEF GateApproved, StepApproved
    <3> QED BY <1>0, <2>1, <3>1 DEF Pending
  <2>3. CASE BindingOk(step) /\ step + 1 # Steps
    BY <1>0, <1>2, <2>1, <2>3 DEF GateApproved, StepApproved
  <2>4. CASE ~BindingOk(step)
    <3>1. Patched([said |-> None, granted |-> FALSE])
      BY <1>2, <2>4 DEF GateApproved
    <3> QED BY <1>0, <3>1
  <2> QED BY <2>2, <2>3, <2>4
<1>3. CASE GateRejected
  BY <1>0, <1>3 DEF GateRejected, Pending
<1>4. CASE GateFrees
  BY <1>0, <1>4, ChainSteps DEF GateFrees
<1>5. CASE GateAsks
  <2> DEFINE step == s.chain.done
  <2>1. /\ [s.chain EXCEPT !.asked = @ \cup {step}] \in Chain
        /\ [step |-> step, tools |-> ToolNames] \in Pending
    BY <1>0, <1>5, ChainSteps, GraphTools DEF GateAsks, Chain, Pending
  <2>2. CASE step \in s.chain.asked
    <3>1. Patched(Nothing)
      BY <1>5, <2>2 DEF GateAsks
    <3> QED BY <1>0, <3>1 DEF Nothing
  <2>3. CASE step \notin s.chain.asked
    BY SMTT(20), <1>0, <1>5, <2>1, <2>3 DEF GateAsks
  <2> QED BY <2>2, <2>3
<1>6. CASE ReplyExpired
  BY <1>0, <1>6, Zero DEF ReplyExpired, Closed, Pending
<1>7. CASE ReplyApprove
  BY <1>0, <1>7, Zero, ChainSteps DEF ReplyApprove, Pending
<1>8. CASE ReplyReject
  <2>1. CASE DenialBlocks BY <1>0, <1>8, <2>1, Zero DEF ReplyReject, Closed, Pending
  <2>2. CASE ~DenialBlocks BY <1>0, <1>8, <2>2, Zero DEF ReplyReject, Closed, Pending
  <2> QED BY <2>1, <2>2
<1>9. CASE ReplyCancel
  BY <1>0, <1>9, Zero DEF ReplyCancel, Closed, Pending
<1>10. CASE ReplyModify
  <2>1. Patched([modified |-> turn, pending |-> None, toPlanner |-> TRUE, bypass |-> TRUE,
                   route |-> "resume"])
    BY <1>10 DEF ReplyModify
  <2>2. turn \in Turn
    BY <1>0 DEF PlaceType
  <2> QED BY <1>0, <2>1, <2>2 DEF Pending
<1>11. CASE ReplyClarify
  BY <1>0, <1>11 DEF ReplyClarify
<1> QED BY <1>1, <1>2, <1>3, <1>4, <1>5, <1>6, <1>7, <1>8, <1>9, <1>10, <1>11 DEF Approving

LEMMA ExecutingTypes ==
  ASSUME TypeInv, Executing
  PROVE  ChannelTypes'
<1> USE BoundAssumption DEF TypeOK, Go, Merged, Channels, Sets, Flags, Counters, Words,
        SetsType, FlagsType, CountersType, WordsType, ApprovalType, ChannelTypes, Patched
<1>0. TypeOK
  BY DEF TypeInv
<1>1. CASE HandOff
  <2>1. CASE Patched([failed |-> {}, ok |-> TRUE, answer |-> "background"])
    BY <1>0, <2>1
  <2>2. CASE Patched([failed |-> {}, ok |-> FALSE])
    BY <1>0, <2>2
  <2> QED BY <1>1, <2>1, <2>2 DEF HandOff
<1>2. CASE Execute
  <2>1. PICK f \in Outcome(Scheduled), k \in {"transient", "structural"} :
          Patched([failed |-> f, ok |-> f = {}, cause |-> IF f = {} THEN "none" ELSE k])
    BY <1>2 DEF Execute
  <2>2. f \in SUBSET Tool
    BY GraphTools, <1>0 DEF Outcome
  <2>3. CASE f = {} BY <1>0, <2>1, <2>2, <2>3
  <2>4. CASE f # {} BY <1>0, <2>1, <2>2, <2>4
  <2> QED BY <2>3, <2>4
<1>3. CASE Aggregator
  BY <1>0, <1>3 DEF Aggregator, Nothing
<1>4. CASE Validator
  BY <1>0, <1>4 DEF Validator, Nothing
<1>5. CASE RecoveryManager
  BY <1>0, <1>5 DEF RecoveryManager
<1>6. CASE Replan
  <2>1. Patched([replans |-> s.replans + 1, budget |-> Consumed])
    BY <1>6 DEF Replan
  <2>2. s.replans < MaxReplans
    BY <1>6 DEF Replan, TypeInv
  <2> QED BY <1>0, <2>1, <2>2, Spending
<1>7. CASE ReflectionFinalizes
  BY <1>0, <1>7 DEF ReflectionFinalizes
<1>8. CASE ReflectionRetries
  BY <1>0, <1>8 DEF ReflectionRetries, GraphPatch, Dependents, Retryable
<1> QED BY <1>1, <1>2, <1>3, <1>4, <1>5, <1>6, <1>7, <1>8 DEF Executing

LEMMA ConversingTypes ==
  ASSUME TypeInv, Conversing
  PROVE  ChannelTypes'
<1> USE BoundAssumption DEF TypeOK, Go, Merged, Channels, Sets, Flags, Counters, Words,
        SetsType, FlagsType, CountersType, WordsType, ApprovalType, ChannelTypes, Patched
<1>0. TypeOK
  BY DEF TypeInv
<1>1. CASE Router
  <2>1. PICK q \in {"action", "chat", "workflow"}, v \in BOOLEAN :
          Patched([query |-> q, vague |-> v])
    BY <1>1, Understands
  <2> QED BY <1>0, <2>1
<1>2. CASE CollectorProceeds
  <2>1. PICK direct \in BOOLEAN : Patched([ready |-> TRUE, toPlanner |-> direct \/ s.toPlanner])
    BY <1>2 DEF CollectorProceeds
  <2>2. CASE direct \/ s.toPlanner BY <1>0, <2>1, <2>2
  <2>3. CASE ~(direct \/ s.toPlanner) BY <1>0, <2>1, <2>3
  <2> QED BY <2>2, <2>3
<1>3. CASE CollectorAsks
  BY <1>0, <1>3 DEF CollectorAsks
<1>4. CASE WorkflowNotComposed
  BY <1>0, <1>4 DEF WorkflowNotComposed, Workflow, Nothing
<1>5. CASE WorkflowAsks
  BY <1>0, <1>5 DEF WorkflowAsks, Workflow
<1>6. CASE WorkflowRunsStep
  <2>1. PICK p \in StepPlans :
          Patched([workflow |-> TRUE, plan |-> p, next |-> "execute_step",
                   toCompiler |-> TRUE])
    BY <1>6 DEF WorkflowRunsStep, Workflow
  <2> QED BY <1>0, <2>1 DEF StepPlans
<1>7. CASE WorkflowPlansStep
  BY <1>0, <1>7 DEF WorkflowPlansStep, Workflow
<1>8. CASE WorkflowOffTopic
  BY <1>0, <1>8 DEF WorkflowOffTopic, Workflow
<1>9. CASE WorkflowStops
  <2>1. PICK a \in {"cancelled", "text"} :
          Patched([workflow |-> FALSE, route |-> "finalize", answer |-> a])
    BY <1>9 DEF WorkflowStops, Workflow
  <2> QED BY <1>0, <2>1
<1>10. CASE WorkflowCompletes
  BY <1>0, <1>10 DEF WorkflowCompletes, Workflow
<1>11. CASE Response
  BY <1>0, <1>11 DEF Response
<1>12. CASE MemoryHelper
  BY <1>0, <1>12 DEF MemoryHelper, Nothing
<1> QED BY <1>1, <1>2, <1>3, <1>4, <1>5, <1>6, <1>7, <1>8, <1>9, <1>10, <1>11, <1>12 DEF Conversing

(* Where the nodes lead.                                                   *)
LEMMA Places ==
  ASSUME TypeInv, Node
  PROVE  /\ at' \in Nodes \cup {"END"} /\ at # "END"
         /\ hops' = hops + 1 /\ turn' = turn /\ (hops' >= MaxHops => at' = "END")
         /\ at' = "ReplanNode" => at = "RecoveryManagerNode" /\ Decision = "replan"
                                 /\ s'.replans = s.replans
<1> USE DEF Nodes, Go, Counted, Spent
<1>1. CASE SemanticPlanner BY <1>1 DEF SemanticPlanner
<1>2. CASE PlanPasses BY <1>2 DEF PlanPasses, AfterPlanValidator
<1>3. CASE PlanNeedsInfo BY <1>3 DEF PlanNeedsInfo, AfterPlanValidator
<1>4. CASE PlanDropsOperations BY <1>4 DEF PlanDropsOperations, AfterPlanValidator
<1>5. CASE PlanRefined BY <1>5 DEF PlanRefined, AfterPlanValidator
<1>6. CASE PlanGivenUp BY <1>6 DEF PlanGivenUp, AfterPlanValidator
<1>7. CASE CompileSucceeds BY <1>7 DEF CompileSucceeds, AfterCompiler
<1>8. CASE CompileFails BY <1>8 DEF CompileFails, AfterCompiler
<1>9. CASE Optimizer BY <1>9 DEF Optimizer
<1>10. CASE Estimator BY <1>10 DEF Estimator
<1>11. CASE Validation BY <1>11 DEF Validation, AfterValidation
<1>12. CASE GateOpens BY <1>12 DEF GateOpens, AfterApproval
<1>13. CASE GateApproved BY <1>13 DEF GateApproved, AfterApproval
<1>14. CASE GateRejected BY <1>14 DEF GateRejected, AfterApproval
<1>15. CASE GateFrees BY <1>15 DEF GateFrees, AfterApproval
<1>16. CASE GateAsks BY <1>16 DEF GateAsks, AfterApproval
<1>17. CASE ReplyExpired BY <1>17 DEF ReplyExpired, AfterCheckpoint
<1>18. CASE ReplyApprove BY <1>18 DEF ReplyApprove, AfterCheckpoint
<1>19. CASE ReplyReject BY <1>19 DEF ReplyReject, AfterCheckpoint
<1>20. CASE ReplyCancel BY <1>20 DEF ReplyCancel, AfterCheckpoint
<1>21. CASE ReplyModify BY <1>21 DEF ReplyModify, AfterCheckpoint
<1>22. CASE ReplyClarify BY <1>22 DEF ReplyClarify, AfterCheckpoint
<1>23. CASE HandOff BY <1>23 DEF HandOff, AfterExecutor
<1>24. CASE Execute BY <1>24 DEF Execute, AfterExecutor
<1>25. CASE Aggregator BY <1>25 DEF Aggregator
<1>26. CASE Validator BY <1>26 DEF Validator
<1>27. CASE RecoveryManager BY <1>27 DEF RecoveryManager, AfterRecovery, Merged, TypeInv, TypeOK, Channels, Counters
<1>28. CASE Replan BY <1>28 DEF Replan
<1>29. CASE ReflectionFinalizes BY <1>29 DEF ReflectionFinalizes, AfterReflection
<1>30. CASE ReflectionRetries BY <1>30 DEF ReflectionRetries, AfterReflection
<1>31. CASE Router BY <1>31, Understands DEF AfterRouter
<1>32. CASE CollectorProceeds BY <1>32 DEF CollectorProceeds, AfterRequirementCollector
<1>33. CASE CollectorAsks BY <1>33 DEF CollectorAsks, AfterRequirementCollector
<1>34. CASE WorkflowNotComposed BY <1>34 DEF WorkflowNotComposed, AfterWorkflow, Workflow
<1>35. CASE WorkflowAsks BY <1>35 DEF WorkflowAsks, AfterWorkflow, Workflow
<1>36. CASE WorkflowRunsStep BY <1>36 DEF WorkflowRunsStep, AfterWorkflow, Workflow
<1>37. CASE WorkflowPlansStep BY <1>37 DEF WorkflowPlansStep, AfterWorkflow, Workflow
<1>38. CASE WorkflowOffTopic BY <1>38 DEF WorkflowOffTopic, AfterWorkflow, Workflow
<1>39. CASE WorkflowStops BY <1>39 DEF WorkflowStops, AfterWorkflow, Workflow
<1>40. CASE WorkflowCompletes BY <1>40 DEF WorkflowCompletes, AfterWorkflow, Workflow
<1>41. CASE Response BY <1>41 DEF Response
<1>42. CASE MemoryHelper BY <1>42 DEF MemoryHelper
<1> QED BY <1>1, <1>2, <1>3, <1>4, <1>5, <1>6, <1>7, <1>8, <1>9, <1>10, <1>11, <1>12,
           <1>13, <1>14, <1>15, <1>16, <1>17, <1>18, <1>19, <1>20, <1>21, <1>22, <1>23, <1>24,
           <1>25, <1>26, <1>27, <1>28, <1>29, <1>30, <1>31, <1>32, <1>33, <1>34, <1>35, <1>36,
           <1>37, <1>38, <1>39, <1>40, <1>41, <1>42
           DEF Node, Planning, Approving, Executing, Conversing

LEMMA HistoryType ==
  ASSUME TypeInv, Node
  PROVE  made' \subseteq Tool /\ h' \in [granted : BOOLEAN, declined : BOOLEAN, replanned : BOOLEAN]
<1>1. made \subseteq Tool /\ h \in [granted : BOOLEAN, declined : BOOLEAN, replanned : BOOLEAN] /\ SetsType
  BY DEF TypeInv, TypeOK, PlaceType
<1>2. CASE Planning \/ Conversing
  BY <1>1, <1>2 DEF Planning, Conversing, Keep, Workflow,
     SemanticPlanner, PlanPasses, PlanNeedsInfo, PlanDropsOperations, PlanRefined, PlanGivenUp,
     CompileSucceeds, CompileFails, Optimizer, Estimator, Validation,
     Router, CollectorProceeds, CollectorAsks, WorkflowNotComposed, WorkflowAsks, WorkflowRunsStep,
     WorkflowPlansStep, WorkflowOffTopic, WorkflowStops, WorkflowCompletes, Response, MemoryHelper
<1>3. CASE Approving
  BY <1>1, <1>3 DEF Approving, Keep, GateOpens, GateApproved, GateRejected, GateFrees, GateAsks,
     ReplyExpired, ReplyApprove, ReplyReject, ReplyCancel, ReplyModify, ReplyClarify
<1>4. CASE Execute
  BY <1>1, <1>4, GraphTools DEF Execute
<1>5. CASE Executing /\ ~Execute
  BY <1>1, <1>5 DEF Executing, Keep, HandOff, Aggregator, Validator, RecoveryManager, Replan,
     ReflectionFinalizes, ReflectionRetries
<1> QED BY <1>2, <1>3, <1>4, <1>5 DEF Node, Executing

LEMMA InitTypes == Init => TypeInv
BY BoundAssumption DEF Init, TypeInv, TypeOK, Channels, Sets, Flags, Counters, Words, SetsType,
   FlagsType, CountersType, WordsType, ApprovalType, PlaceType, Pending, Chain, Blank, Turn,
   NewTurn, Nodes

LEMMA StartTypes == TypeInv /\ StartTurn => TypeInv'
<1> SUFFICES ASSUME TypeInv, StartTurn PROVE TypeInv'
  OBVIOUS
<1>1. Blank \in Chain
  BY BoundAssumption DEF Blank, Chain
<1>2. ChannelTypes'
  <2> USE DEF TypeInv, TypeOK, StartTurn, InitialState, Merged, Channels, Sets, Flags, Counters, Words
  <2>1. DOMAIN s' = Channels /\ SetsType' /\ WordsType'
    BY DEF SetsType, WordsType
  <2>2. FlagsType'
    BY DEF FlagsType
  <2>3. CountersType'
    BY BoundAssumption DEF CountersType
  <2>4. ApprovalType'
    BY <1>1 DEF ApprovalType
  <2> QED BY <2>1, <2>2, <2>3, <2>4 DEF ChannelTypes
<1>3. PlaceType' /\ hops' < MaxHops /\ at' # "ReplanNode"
  BY BoundAssumption DEF TypeInv, TypeOK, StartTurn, PlaceType, Nodes, Turn, NewTurn
<1> QED BY <1>2, <1>3 DEF TypeInv, TypeOK, ChannelTypes

LEMMA TypeStep == TypeInv /\ [Next]_vars => TypeInv'
<1> SUFFICES ASSUME TypeInv, [Next]_vars PROVE TypeInv'
  OBVIOUS
<1>1. CASE StartTurn
  BY <1>1, StartTypes
<1>2. CASE Node
  <2>1. ChannelTypes'
    BY <1>2, PlanningTypes, ApprovingTypes, ExecutingTypes, ConversingTypes DEF Node
  <2>2. hops' \in 0 .. MaxHops /\ (at' # "END" => hops' < MaxHops)
    BY <1>2, Places, BoundAssumption DEF TypeInv, TypeOK, PlaceType
  <2>3. at' = "ReplanNode" => s'.replans < MaxReplans
    <3>1. Decision = "replan" => s.replans < MaxReplans
      BY BoundAssumption DEF Decision, TypeInv, TypeOK, CountersType
    <3> QED BY <1>2, <3>1, Places
  <2>4. PlaceType'
    BY <1>2, <2>2, Places, HistoryType DEF PlaceType, TypeInv, TypeOK
  <2> QED BY <2>1, <2>2, <2>3, <2>4 DEF TypeInv, TypeOK, ChannelTypes
<1>3. CASE UNCHANGED vars
  BY <1>3 DEF vars, TypeInv, TypeOK, SetsType, FlagsType, CountersType, WordsType, ApprovalType,
     PlaceType, Decision
<1> QED BY <1>1, <1>2, <1>3 DEF Next

(* Every channel keeps its type and every counter its bound, over any      *)
(* number of turns of the session.                                         *)
THEOREM TypeCorrect == Spec => []TypeOK
<1>1. TypeInv => TypeOK
  BY DEF TypeInv
<1> QED BY <1>1, InitTypes, TypeStep, PTL DEF Spec
-----------------------------------------------------------------------------
(* The channels that the safety properties are about are there.            *)
Shaped == /\ {"granted", "said", "pending", "retries", "patch", "graph", "route"} \subseteq DOMAIN s
          /\ h \in [granted : BOOLEAN, declined : BOOLEAN, replanned : BOOLEAN]

LEMMA Shape == TypeInv => Shaped
BY DEF TypeInv, TypeOK, Shaped, Channels, Sets, Flags, Counters, Words, PlaceType

(* The nodes a turn can only be at once its gate has let it through.       *)
Past == {"ExecutorNode", "AggregatorNode", "ValidatorNode", "RecoveryManagerNode", "ReflectionNode"}

Same == /\ s'.granted = s.granted /\ s'.said = s.said /\ s'.pending = s.pending
        /\ s'.retries = s.retries /\ s'.patch = s.patch

LEMMA PlanningSteps ==
  ASSUME Shaped, Planning
  PROVE  Same /\ at' \notin Past /\ UNCHANGED <<made, h>>
<1> USE DEF Shaped, Same, Past, Keep, Go, Merged
<1>1. CASE SemanticPlanner BY <1>1 DEF SemanticPlanner
<1>2. CASE PlanPasses BY <1>2 DEF PlanPasses, AfterPlanValidator
<1>3. CASE PlanNeedsInfo BY <1>3 DEF PlanNeedsInfo, AfterPlanValidator
<1>4. CASE PlanDropsOperations BY <1>4 DEF PlanDropsOperations, AfterPlanValidator
<1>5. CASE PlanRefined BY <1>5 DEF PlanRefined, AfterPlanValidator
<1>6. CASE PlanGivenUp BY <1>6 DEF PlanGivenUp, PlanUnrepaired, AfterPlanValidator
<1>7. CASE CompileSucceeds BY <1>7 DEF CompileSucceeds, AfterCompiler
<1>8. CASE CompileFails BY <1>8 DEF CompileFails, AfterCompiler
<1>9. CASE Optimizer BY <1>9 DEF Optimizer
<1>10. CASE Estimator BY <1>10 DEF Estimator
<1>11. CASE Validation BY <1>11 DEF Validation, AfterValidation
<1> QED BY <1>1, <1>2, <1>3, <1>4, <1>5, <1>6, <1>7, <1>8, <1>9, <1>10, <1>11 DEF Planning

LEMMA ConversingSteps ==
  ASSUME Shaped, Conversing
  PROVE  Same /\ at' \notin Past /\ UNCHANGED <<made, h>>
<1> USE DEF Shaped, Same, Past, Keep, Go, Merged, Workflow, AfterWorkflow, Nothing
<1>1. CASE Router
  <2>1. PICK q \in {"action", "chat", "workflow"}, v \in BOOLEAN :
          Go([query |-> q, vague |-> v], AfterRouter)
    BY <1>1, Understands
  <2>2. UNCHANGED <<made, h>>
    BY <1>1, Understands
  <2> QED BY <2>1, <2>2 DEF AfterRouter
<1>2. CASE CollectorProceeds BY <1>2 DEF CollectorProceeds, AfterRequirementCollector
<1>3. CASE CollectorAsks BY <1>3 DEF CollectorAsks, AfterRequirementCollector
<1>4. CASE WorkflowNotComposed BY <1>4 DEF WorkflowNotComposed
<1>5. CASE WorkflowAsks BY <1>5 DEF WorkflowAsks
<1>6. CASE WorkflowRunsStep BY <1>6 DEF WorkflowRunsStep
<1>7. CASE WorkflowPlansStep BY <1>7 DEF WorkflowPlansStep
<1>8. CASE WorkflowOffTopic BY <1>8 DEF WorkflowOffTopic
<1>9. CASE WorkflowStops BY <1>9 DEF WorkflowStops
<1>10. CASE WorkflowCompletes BY <1>10 DEF WorkflowCompletes
<1>11. CASE Response BY <1>11 DEF Response
<1>12. CASE MemoryHelper BY <1>12 DEF MemoryHelper
<1> QED BY <1>1, <1>2, <1>3, <1>4, <1>5, <1>6, <1>7, <1>8, <1>9, <1>10, <1>11, <1>12 DEF Conversing

LEMMA ExecutingSteps ==
  ASSUME Shaped, Executing
  PROVE  /\ s'.granted = s.granted /\ s'.said = s.said /\ s'.pending = s.pending
         /\ h'.granted = h.granted /\ h'.declined = h.declined
         /\ at \in Past \cup {"ReplanNode"} /\ (at' \in Past => at \in Past)
<1> USE DEF Shaped, Past, Keep, Go, Merged, Nothing
<1>1. CASE HandOff BY <1>1 DEF HandOff, AfterExecutor
<1>2. CASE Execute BY <1>2 DEF Execute, AfterExecutor
<1>3. CASE Aggregator BY <1>3 DEF Aggregator
<1>4. CASE Validator BY <1>4 DEF Validator
<1>5. CASE RecoveryManager BY <1>5 DEF RecoveryManager, AfterRecovery
<1>6. CASE Replan BY <1>6 DEF Replan
<1>7. CASE ReflectionFinalizes BY <1>7 DEF ReflectionFinalizes, AfterReflection
<1>8. CASE ReflectionRetries BY <1>8 DEF ReflectionRetries, AfterReflection
<1> QED BY <1>1, <1>2, <1>3, <1>4, <1>5, <1>6, <1>7, <1>8 DEF Executing

(* What a reply to an open approval does.                                  *)
LEMMA ReplySteps ==
  ASSUME Shaped,
         ReplyExpired \/ ReplyApprove \/ ReplyReject \/ ReplyCancel \/ ReplyModify \/ ReplyClarify
  PROVE  /\ at = "ApprovalCheckpointResumeNode" /\ s.pending # None
         /\ at' \notin Past /\ made' = made /\ h'.granted = h.granted
         /\ s'.granted = s.granted /\ s'.retries = s.retries /\ s'.patch = s.patch
         /\ s'.said # s.said => s'.pending = None
         /\ h'.declined = h.declined \/ (s'.said = "rejected" /\ s'.pending = None)
<1> USE DEF Shaped, Past, Keep, Go, Merged, AfterCheckpoint, Closed
<1>1. CASE ReplyExpired BY <1>1 DEF ReplyExpired
<1>2. CASE ReplyApprove BY <1>2 DEF ReplyApprove
<1>3. CASE ReplyReject BY <1>3 DEF ReplyReject
<1>4. CASE ReplyCancel BY <1>4 DEF ReplyCancel
<1>5. CASE ReplyModify BY <1>5 DEF ReplyModify
<1>6. CASE ReplyClarify BY <1>6 DEF ReplyClarify
<1> QED BY <1>1, <1>2, <1>3, <1>4, <1>5, <1>6

(* No decision is none.                                                    *)
LEMMA Decided == None \notin {"approved", "rejected"}
BY ToolAssumption

(* A decision is consumed, the grant set or withdrawn; only an open        *)
(* decision is made.                                                       *)
LEMMA GateSteps ==
  ASSUME TypeInv, s.said # None => s.pending = None,
         GateOpens \/ GateApproved \/ GateRejected \/ GateFrees \/ GateAsks
  PROVE  /\ at = "ApprovalGateNode" /\ made' = made /\ h'.declined = h.declined
         /\ s'.retries = s.retries /\ s'.patch = s.patch
         /\ s'.said = s.said \/ (s'.said = None /\ s.said = "approved")
         /\ s'.said # None => s'.pending = None
         /\ s.pending # None => s'.pending # None
         /\ (s.granted => h.granted) => (s'.granted => h'.granted)
         /\ at' \in Past => s'.granted /\ s'.said # "rejected"
<1> USE Decided DEF Past, Keep, Go, Merged, AfterApproval
<1>0. Shaped /\ (s.granted \in BOOLEAN)
  BY Shape DEF TypeInv, TypeOK, FlagsType
<1> USE <1>0 DEF Shaped
<1>1. CASE GateOpens BY <1>1 DEF GateOpens
<1>2. CASE GateApproved
  <2>1. ~BindingOk(s.chain.done)
    BY <1>2 DEF GateApproved, BindingOk
  <2> QED BY <1>2, <2>1 DEF GateApproved
<1>3. CASE GateRejected BY <1>3 DEF GateRejected
<1>4. CASE GateFrees BY <1>4 DEF GateFrees
<1>5. CASE GateAsks
  <2> DEFINE step == s.chain.done
  <2>1. [step |-> step, tools |-> ToolNames] # None
    <3>1. step \in 0 .. Steps - 1 /\ ToolNames \in SUBSET Tool
      BY <1>5, GraphTools, BoundAssumption DEF GateAsks, TypeInv, TypeOK, ApprovalType, Chain
    <3> QED BY <3>1, ToolAssumption
  <2>2. CASE step \in s.chain.asked BY <1>5, <2>2 DEF GateAsks, Nothing
  <2>3. CASE step \notin s.chain.asked BY <1>5, <2>1, <2>3 DEF GateAsks
  <2> QED BY <2>2, <2>3
<1> QED BY <1>1, <1>2, <1>3, <1>4, <1>5

-----------------------------------------------------------------------------
(* What the gate has said of this turn.  A decision is there only once its  *)
(* approval is closed; so no decision ever binds to a pending operation.    *)
GateInv ==
    /\ TypeInv
    /\ s.said # None => s.pending = None
    /\ h.declined => s.said = "rejected"
    /\ s.granted => h.granted
    /\ at \in Past => h.granted /\ ~h.declined

(* A sub-graph of a retry is there only once a retry has been counted.      *)
PatchInv == s.retries = 0 => s.patch = {}

LEMMA GateStep == GateInv /\ [Next]_vars => GateInv'
<1> SUFFICES ASSUME GateInv, [Next]_vars PROVE GateInv'
  OBVIOUS
<1>1. TypeInv /\ TypeInv' /\ Shaped
  BY TypeStep, Shape DEF GateInv
<1>2. CASE StartTurn
  BY <1>1, <1>2 DEF StartTurn, InitialState, NewTurn, Merged, Past, GateInv, Shaped
<1>3. CASE Planning \/ Conversing
  BY <1>1, <1>3, PlanningSteps, ConversingSteps DEF GateInv, Same
<1>4. CASE Executing
  BY <1>1, <1>4, ExecutingSteps DEF GateInv
<1>5. CASE GateOpens \/ GateApproved \/ GateRejected \/ GateFrees \/ GateAsks
  BY <1>1, <1>5, GateSteps, Decided DEF GateInv, Shaped
<1>6. CASE ReplyExpired \/ ReplyApprove \/ ReplyReject \/ ReplyCancel \/ ReplyModify \/ ReplyClarify
  BY <1>1, <1>6, ReplySteps, Decided DEF GateInv, Shaped
<1>7. CASE UNCHANGED vars
  BY <1>1, <1>7 DEF vars, GateInv
<1> QED BY <1>2, <1>3, <1>4, <1>5, <1>6, <1>7 DEF Next, Node, Approving

LEMMA GateInvariance == Spec => []GateInv
<1>1. Init => GateInv
  BY InitTypes DEF Init, GateInv, NewTurn, Past
<1> QED BY <1>1, GateStep, PTL DEF Spec

(* The executor runs only in a turn whose gate has granted it, whatever an  *)
(* earlier turn has left in the checkpoint.                                 *)
THEOREM Granted == Spec => []GrantedThisTurn
<1>1. GateInv => GrantedThisTurn
  BY DEF GateInv, GrantedThisTurn, Past
<1> QED BY <1>1, GateInvariance, PTL

(* Nothing is executed in a turn after the user has declined, whatever is   *)
(* planned again in it.                                                     *)
THEOREM Declined == Spec => []DeclinedRunsNothing
<1>1. GateInv => DeclinedRunsNothing
  BY DEF GateInv, DeclinedRunsNothing, Past
<1> QED BY <1>1, GateInvariance, PTL

(* Only a reply closes an open approval.                                    *)
THEOREM StaysOpen == Spec => ApprovalStaysOpen
<1>1. GateInv /\ [Next]_vars
        => (s.pending # None /\ s'.pending = None => at = "ApprovalCheckpointResumeNode")
  <2> SUFFICES ASSUME GateInv, [Next]_vars, s.pending # None, at # "ApprovalCheckpointResumeNode"
               PROVE  s'.pending # None
    OBVIOUS
  <2>1. TypeInv /\ Shaped
    BY Shape DEF GateInv
  <2>2. CASE StartTurn
    BY <2>1, <2>2 DEF StartTurn, InitialState, Merged, Shaped
  <2>3. CASE Node
    BY <2>1, <2>3, PlanningSteps, ConversingSteps, ExecutingSteps, GateSteps, ReplySteps
       DEF Node, Approving, GateInv, Same
  <2>4. CASE UNCHANGED vars
    BY <2>4 DEF vars
  <2> QED BY <2>2, <2>3, <2>4 DEF Next
<1> QED BY <1>1, GateInvariance, PTL DEF Spec, ApprovalStaysOpen

LEMMA PatchStep == TypeInv /\ PatchInv /\ [Next]_vars => PatchInv'
<1> SUFFICES ASSUME TypeInv, PatchInv, [Next]_vars PROVE PatchInv'
  OBVIOUS
<1>1. Shaped /\ s.retries \in Nat
  BY Shape, BoundAssumption DEF TypeInv, TypeOK, CountersType
<1>2. CASE ReflectionRetries
  BY <1>1, <1>2 DEF ReflectionRetries, Go, PatchInv, Shaped
<1>3. CASE Executing /\ ~ReflectionRetries
  BY <1>1, <1>3 DEF Executing, HandOff, Execute, Aggregator, Validator, RecoveryManager, Replan,
     ReflectionFinalizes, Go, Nothing, PatchInv, Shaped
<1>4. CASE StartTurn
  BY <1>1, <1>4 DEF StartTurn, InitialState, Merged, PatchInv, Shaped
<1>5. CASE Planning \/ Conversing
  BY <1>1, <1>5, PlanningSteps, ConversingSteps DEF Same, PatchInv
<1>6. CASE Approving
  <2>1. CASE GateOpens \/ GateApproved \/ GateRejected \/ GateFrees \/ GateAsks
    BY <1>1, <2>1 DEF GateOpens, GateApproved, StepApproved, GateRejected, GateFrees, GateAsks, Go,
       Nothing, PatchInv, Shaped
  <2>2. CASE ReplyExpired \/ ReplyApprove \/ ReplyReject \/ ReplyCancel \/ ReplyModify
             \/ ReplyClarify
    BY <1>1, <2>2, ReplySteps DEF PatchInv
  <2> QED BY <1>6, <2>1, <2>2 DEF Approving
<1>7. CASE UNCHANGED vars
  BY <1>7 DEF vars, PatchInv
<1> QED BY <1>2, <1>3, <1>4, <1>5, <1>6, <1>7 DEF Next, Node

(* Until a retry is counted, a step adds only results of the graph that was *)
(* compiled last.                                                           *)
THEOREM ResultsOfTheGraph == Spec => RunsTheGraph
<1>1. Init => TypeInv /\ PatchInv
  BY InitTypes DEF Init, PatchInv
<1>2. TypeInv /\ PatchInv /\ [Next]_vars => (TypeInv /\ PatchInv)'
  BY TypeStep, PatchStep
<1>3. TypeInv /\ PatchInv /\ [Next]_vars => (s.retries = 0 => made' \subseteq made \cup s.graph)
  <2> SUFFICES ASSUME TypeInv, PatchInv, [Next]_vars, s.retries = 0
               PROVE  made' \subseteq made \cup s.graph
    OBVIOUS
  <2>1. Shaped
    BY Shape
  <2>2. CASE StartTurn
    BY <2>2 DEF StartTurn
  <2>3. CASE Execute
    BY <2>3 DEF Execute, Scheduled, PatchInv
  <2>4. CASE Executing /\ ~Execute
    BY <2>4 DEF Executing, Keep, HandOff, Aggregator, Validator, RecoveryManager, Replan,
       ReflectionFinalizes, ReflectionRetries
  <2>5. CASE Planning \/ Conversing
    BY <2>1, <2>5, PlanningSteps, ConversingSteps
  <2>6. CASE Approving
    BY <2>6 DEF Approving, Keep, GateOpens, GateApproved, GateRejected, GateFrees, GateAsks,
       ReplyExpired, ReplyApprove, ReplyReject, ReplyCancel, ReplyModify, ReplyClarify
  <2>7. CASE UNCHANGED vars
    BY <2>7 DEF vars
  <2> QED BY <2>2, <2>3, <2>4, <2>5, <2>6, <2>7 DEF Next, Node
<1> QED BY <1>1, <1>2, <1>3, PTL DEF Spec, RunsTheGraph
-----------------------------------------------------------------------------
(* The nodes of a turn after its run has been handed off.                   *)
Settled == {"AggregatorNode", "ValidatorNode", "RecoveryManagerNode", "ReplanNode",
            "ReflectionNode", "ResponseNode", "MemoryHelperNode", "END"}

HandedOff == s.answer = "background" /\ ~h.replanned /\ s.next # "execute_step"

(* A run that was handed off has no failed operation, so the reflection has *)
(* nothing to retry; the turn ends, or a replan begins another run.         *)
HandInv ==
    /\ TypeInv
    /\ HandedOff => /\ at \in Settled
                    /\ at \in Past => s.failed = {}

(* The channels the hand-off is about.                                      *)
Kept == /\ s'.answer = s.answer /\ s'.next = s.next /\ s'.failed = s.failed
        /\ h' = h

HandShaped == /\ {"answer", "next", "failed", "route"} \subseteq DOMAIN s
              /\ h \in [granted : BOOLEAN, declined : BOOLEAN, replanned : BOOLEAN]

LEMMA HandShape == TypeInv => HandShaped
BY DEF TypeInv, TypeOK, HandShaped, Channels, Sets, Flags, Counters, Words, PlaceType

(* Planning is not among the nodes a settled turn comes to, and leaves the  *)
(* hand-off alone.                                                          *)
LEMMA PlanningKeeps ==
  ASSUME HandShaped, Planning
  PROVE  at \notin Settled /\ Kept
<1> USE DEF HandShaped, Settled, Kept, Keep, Go
<1>1. CASE SemanticPlanner BY <1>1 DEF SemanticPlanner
<1>2. CASE PlanPasses BY <1>2 DEF PlanPasses
<1>3. CASE PlanNeedsInfo BY <1>3 DEF PlanNeedsInfo
<1>4. CASE PlanDropsOperations BY <1>4 DEF PlanDropsOperations
<1>5. CASE PlanRefined BY <1>5 DEF PlanRefined
<1>6. CASE PlanGivenUp BY <1>6 DEF PlanGivenUp, PlanUnrepaired
<1>7. CASE CompileSucceeds BY <1>7 DEF CompileSucceeds
<1>8. CASE CompileFails BY <1>8 DEF CompileFails
<1>9. CASE Optimizer BY <1>9 DEF Optimizer
<1>10. CASE Estimator BY <1>10 DEF Estimator
<1>11. CASE Validation BY <1>11 DEF Validation
<1> QED BY <1>1, <1>2, <1>3, <1>4, <1>5, <1>6, <1>7, <1>8, <1>9, <1>10, <1>11 DEF Planning

(* An approval says nothing of a hand-off.                                  *)
LEMMA ApprovingKeeps ==
  ASSUME HandShaped, Approving
  PROVE  /\ at \notin Settled /\ s'.next = s.next /\ h'.replanned = h.replanned
         /\ s'.answer = "background" => s.answer = "background"
<1> USE DEF HandShaped, Settled, Keep, Go, Merged, Closed, Nothing
<1>1. CASE GateOpens BY <1>1 DEF GateOpens
<1>2. CASE GateApproved BY <1>2 DEF GateApproved, StepApproved
<1>3. CASE GateRejected BY <1>3 DEF GateRejected
<1>4. CASE GateFrees BY <1>4 DEF GateFrees
<1>5. CASE GateAsks BY <1>5 DEF GateAsks
<1>6. CASE ReplyExpired BY <1>6 DEF ReplyExpired
<1>7. CASE ReplyApprove BY <1>7 DEF ReplyApprove
<1>8. CASE ReplyReject BY <1>8 DEF ReplyReject
<1>9. CASE ReplyCancel BY <1>9 DEF ReplyCancel
<1>10. CASE ReplyModify BY <1>10 DEF ReplyModify
<1>11. CASE ReplyClarify BY <1>11 DEF ReplyClarify
<1> QED BY <1>1, <1>2, <1>3, <1>4, <1>5, <1>6, <1>7, <1>8, <1>9, <1>10, <1>11 DEF Approving

(* The nodes of the conversation that a settled turn comes to lead to its   *)
(* end; the others come from a turn that has not handed off, and do not.    *)
LEMMA ConversingKeeps ==
  ASSUME HandShaped, Conversing
  PROVE  /\ at \in Settled => at' \in Settled \ Past /\ s'.next = s.next
         /\ h' = h
         /\ s'.answer = "background" => s.answer = "background"
         /\ s'.next # s.next => at' \in {"ResponseNode", "END"} \/ s'.next = "execute_step"
<1> USE DEF HandShaped, Settled, Past, Keep, Go, Workflow, Nothing
<1>1. CASE Router BY <1>1, Understands
<1>2. CASE CollectorProceeds BY <1>2 DEF CollectorProceeds
<1>3. CASE CollectorAsks BY <1>3 DEF CollectorAsks
<1>4. CASE WorkflowNotComposed BY <1>4 DEF WorkflowNotComposed
<1>5. CASE WorkflowAsks BY <1>5 DEF WorkflowAsks
<1>6. CASE WorkflowRunsStep BY <1>6 DEF WorkflowRunsStep
<1>7. CASE WorkflowPlansStep BY <1>7 DEF WorkflowPlansStep
<1>8. CASE WorkflowOffTopic BY <1>8 DEF WorkflowOffTopic
<1>9. CASE WorkflowStops BY <1>9 DEF WorkflowStops
<1>10. CASE WorkflowCompletes BY <1>10 DEF WorkflowCompletes, AfterWorkflow, Merged
<1>11. CASE Response BY <1>11 DEF Response, Passthrough
<1>12. CASE MemoryHelper BY <1>12 DEF MemoryHelper
<1> QED BY <1>1, <1>2, <1>3, <1>4, <1>5, <1>6, <1>7, <1>8, <1>9, <1>10, <1>11, <1>12 DEF Conversing

(* Executing: a hand-off leads out of the executor with nothing failed, and *)
(* only the replan leads back to planning.                                  *)
LEMMA ExecutingKeeps ==
  ASSUME HandInv, HandShaped, Executing, HandedOff'
  PROVE  at' \in Settled /\ (at' \in Past => s'.failed = {})
<1> USE DEF HandShaped, HandInv, HandedOff, Settled, Past, Keep, Go, Nothing
<1>1. CASE HandOff
  <2>1. at = "ExecutorNode" /\ s'.failed = {} /\ s'.next = s.next /\ h' = h
    BY <1>1 DEF HandOff
  <2>2. ~HandedOff
    BY <2>1
  <2>3. CASE Go([failed |-> {}, ok |-> TRUE, answer |-> "background"], AfterExecutor)
    <3> DEFINE p == [failed |-> {}, ok |-> TRUE, answer |-> "background"]
    <3>1. Merged(p, s).ok /\ Merged(p, s).next # "execute_step"
      BY <2>1 DEF Merged
    <3>2. AfterExecutor(Merged(p, s)) \in Settled
      <4> HIDE DEF p
      <4> QED BY <3>1 DEF AfterExecutor
    <3> QED BY <2>1, <2>3, <3>2
  <2>4. CASE Go([failed |-> {}, ok |-> FALSE], AfterExecutor)
    BY <2>1, <2>2, <2>4
  <2> QED BY <1>1, <2>3, <2>4 DEF HandOff
<1>2. CASE Execute BY <1>2 DEF Execute
<1>3. CASE Aggregator BY <1>3 DEF Aggregator
<1>4. CASE Validator BY <1>4 DEF Validator
<1>5. CASE RecoveryManager BY <1>5 DEF RecoveryManager, AfterRecovery
<1>6. CASE Replan BY <1>6 DEF Replan
<1>7. CASE ReflectionFinalizes BY <1>7 DEF ReflectionFinalizes, AfterReflection, Merged
<1>8. CASE ReflectionRetries BY <1>8 DEF ReflectionRetries, Retryable
<1> QED BY <1>1, <1>2, <1>3, <1>4, <1>5, <1>6, <1>7, <1>8 DEF Executing

LEMMA HandStep == HandInv /\ [Next]_vars => HandInv'
<1> SUFFICES ASSUME HandInv, [Next]_vars PROVE HandInv'
  OBVIOUS
<1>1. TypeInv /\ TypeInv' /\ HandShaped
  BY TypeStep, HandShape DEF HandInv
<1>2. CASE StartTurn
  BY <1>1, <1>2 DEF StartTurn, InitialState, Merged, HandInv, HandedOff, HandShaped
<1>3. CASE Planning
  BY <1>1, <1>3, PlanningKeeps DEF Kept, HandInv, HandedOff
<1>4. CASE Approving
  BY <1>1, <1>4, ApprovingKeeps DEF HandInv, HandedOff
<1>5. CASE Executing
  BY <1>1, <1>5, ExecutingKeeps DEF HandInv
<1>6. CASE Conversing
  BY <1>1, <1>6, ConversingKeeps DEF HandInv, HandedOff, Settled, Past
<1>7. CASE UNCHANGED vars
  BY <1>1, <1>7 DEF vars, HandInv, HandedOff
<1> QED BY <1>2, <1>3, <1>4, <1>5, <1>6, <1>7 DEF Next, Node

(* Within a turn, neither a reducer nor a retry brings a run that was       *)
(* handed to the background workers back to the executor.                   *)
THEOREM HandsOffOnce == Spec => []OneHandoff
<1>1. Init => HandInv
  BY InitTypes DEF Init, HandInv, HandedOff
<1>2. HandInv => OneHandoff
  BY DEF HandInv, HandedOff, Settled, OneHandoff
<1> QED BY <1>1, <1>2, HandStep, PTL DEF Spec
=============================================================================
