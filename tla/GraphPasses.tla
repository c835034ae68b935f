------------------------------ MODULE GraphPasses ------------------------------
(***************************************************************************)
(* The compiler behind the planner: compiler/codegen.py turns a logical    *)
(* plan into an execution graph (producers of RESOLVE expressions,         *)
(* endpoints, dependencies, waves), and compiler/pass_manager.py runs the  *)
(* passes of compiler/passes over the graph until one round of all of them *)
(* leaves it unchanged, or the iterations run out.                         *)
(*                                                                         *)
(* The nodes of a plan are its references 1..N in the plan's order; the    *)
(* producer inserted for node r is N + r, which is where codegen appends   *)
(* it.  A wave is the set of nodes it runs (their order inside a wave is   *)
(* for connection reuse only).  Of the inputs of a node the model keeps    *)
(* the references of its placeholders, a literal, whether a key is spelled *)
(* like the node's own reference, a RESOLVE expression, and the few keys   *)
(* the input policies of the registry talk about.                          *)
(***************************************************************************)
EXTENDS Naturals, Sequences, FiniteSets, SequencesExt, FiniteSetsExt, Functions, TLC

CONSTANTS
    Plans,          \* the plans: sequences of LogicalNode records
    Capability,             \* the capabilities
    Idempotent,     \* those whose contract says idempotent (and dedup safe)
    Batch,          \* those with an endpoint that supports batches
    Endpoints,      \* op -> the endpoints of its providers, a sequence
    Policy,         \* op -> profile parameters, defaults and renamed key
    Threshold,      \* _BATCH_FUSION_THRESHOLD: 5 in the code
    MaxIterations,  \* settings.compiler.max_fixpoint_iterations: 5
    TopK,           \* settings.resolver.top_k_candidates
    MaxFaults       \* database errors of one compilation (a bound)

ASSUME PlansAssumption ==
    \A p \in Plans : Len(p) \in Nat /\ DOMAIN p = 1..Len(p)

ASSUME LimitsAssumption ==
    /\ {Threshold, MaxIterations, TopK} \subseteq Nat \ {0}
    /\ MaxFaults \in Nat
    /\ Idempotent \cup Batch \subseteq Capability

VARIABLES
    plan,    \* the logical workflow being compiled
    user,    \* the permissions of the request: "unknown", "lacking", "holding"
    graph,   \* the ExecutionGraph: nodes and waves
    phase,   \* "chains", "build", "passes", "done" or "failed"
    pass,    \* the position in the discovered passes
    round,   \* the fixpoint iteration
    start,   \* the graph the iteration began with (before_hash)
    faults

passesVars == <<plan, user, graph, phase, pass, round, start, faults>>

--------------------------------------------------------------------------------
(* Endpoints.  An endpoint is [on, needs, old, base]: enabled with its     *)
(* provider, asking for a permission, deprecated, and the weighted sum of  *)
(* its other factors.                                                      *)

PermissionWeight == 2

Permitted(e) == IF user = "lacking" THEN 0 ELSE PermissionWeight

Score(e) == LET sum == e.base + (IF e.needs THEN Permitted(e) ELSE 0)
            IN  IF e.old THEN sum \div 2 ELSE sum

(* The candidates of an operation, best first, the earlier one on a tie.   *)
Ahead(op, i, j) == LET a == Score(Endpoints[op][i])
                       b == Score(Endpoints[op][j])
                   IN  a > b \/ (a = b /\ i < j)

Resolve(op) ==
    LET on     == {i \in DOMAIN Endpoints[op] : Endpoints[op][i].on}
        sorted == SetToSortSeq(on, LAMBDA i, j : Ahead(op, i, j))
    IN  SubSeq(sorted, 1, IF Len(sorted) < TopK THEN Len(sorted) ELSE TopK)

--------------------------------------------------------------------------------
(* RESOLVE expressions.  The chain of a node names the capability that has *)
(* to produce its input, "bad" stands for a form codegen cannot parse and  *)
(* for a capability the registry does not know.                            *)

HasChain(r) == plan[r].chain # "none"

Refused(r) == HasChain(r) /\ plan[r].chain \notin {op \in Capability : Resolve(op) # <<>>}

Producer(r) == Len(plan) + r

Ids == 1..(2 * Len(plan))

Logical(r) ==
    IF r <= Len(plan)
    THEN IF HasChain(r)
         THEN [plan[r] EXCEPT !.uses = @ \cup {Producer(r)}, !.deps = @ \cup {Producer(r)}]
         ELSE plan[r]
    ELSE [op |-> plan[r - Len(plan)].chain, lit |-> plan[r - Len(plan)].lit, uses |-> {},
          deps |-> {}, over |-> 0, echo |-> FALSE, chain |-> "none", gates |-> {},
          inputs |-> <<>>]

Known == {r \in Ids : r <= Len(plan) \/ HasChain(r - Len(plan))}

--------------------------------------------------------------------------------
(* Code generation.                                                        *)

(* Slip: the static dataflow analysis is left out, the plan's own          *)
(* dependencies have to do.                                                *)
SlipWired(n) == n.deps \cap Known

(* The dependencies of the physical node.  A placeholder makes its         *)
(* reference a dependency of the call it stands in, which for a map is the *)
(* body; the map itself gets its collection only.                          *)
Wired(n) == (n.deps \cup (IF n.over # 0 THEN {n.over} ELSE n.uses)) \cap Known

(* No candidate is not an error: the node is compiled without an endpoint. *)
Physical(r) ==
    LET n == Logical(r)
    IN  [op |-> n.op, kind |-> IF n.over # 0 THEN "map" ELSE "tool", lit |-> n.lit,
         inputs |-> n.inputs, uses |-> n.uses, over |-> n.over, deps |-> Wired(n),
         echo |-> n.echo, candidates |-> Resolve(n.op), ranked |-> FALSE]

(* Kahn's algorithm: wave i runs the nodes whose dependencies are all in   *)
(* the waves before it.  (An empty wave, which the code drops, runs        *)
(* nothing; it is kept here, so that a node's wave keeps its number.)      *)
Reached(nodes) ==
    LET by[i \in 0..Cardinality(DOMAIN nodes)] ==
            IF i = 0 THEN {} ELSE {n \in DOMAIN nodes : nodes[n].deps \subseteq by[i - 1]}
    IN  by

Waves(nodes) ==
    LET by == Reached(nodes)
    IN  [i \in 1..Cardinality(DOMAIN nodes) |-> by[i] \ by[i - 1]]

Acyclic(nodes) == Reached(nodes)[Cardinality(DOMAIN nodes)] = DOMAIN nodes

--------------------------------------------------------------------------------
(* The passes.                                                             *)

Prune(waves, kept) == [i \in DOMAIN waves |-> waves[i] \cap kept]

Pruned(g, nodes) == [nodes |-> nodes, waves |-> Prune(g.waves, DOMAIN nodes)]

Dropping(f, key) == Restrict(f, DOMAIN f \ {key})

(* input_enrichment: the parameters of the profile named by the model      *)
(* replace its own, the defaults do not, and keys are then renamed to what *)
(* the API expects.  Maps are not enriched.  Fields computed from others   *)
(* and the unwrapping of a nested 'item', which only reshape values, are   *)
(* left out.                                                               *)
Profiled(op, in) == IF "profile" \in DOMAIN in
                    THEN Policy[op].profile @@ Dropping(in, "profile")
                    ELSE in

Rename(op, in) == LET m == Policy[op].rename
                  IN  IF m # <<>> /\ m[1] \in DOMAIN in
                      THEN (m[2] :> in[m[1]]) @@ Dropping(in, m[1])
                      ELSE in

Supplied(op, in) == Rename(op, Profiled(op, in) @@ Policy[op].defaults)

Enriched(n) == IF n.kind = "tool" THEN [n EXCEPT !.inputs = Supplied(n.op, @)] ELSE n

Enrich(g) == [g EXCEPT !.nodes = [i \in DOMAIN @ |-> Enriched(@[i])]]

(* pass_candidate_ranking: the primary endpoint becomes the first of the   *)
(* candidates, also where there was none.                                  *)
Rank(g) == [g EXCEPT !.nodes = [i \in DOMAIN @ |-> [@[i] EXCEPT !.ranked = TRUE]]]

(* pass_constraint_optimizer: nodes of one tool are put side by side, and  *)
(* ids without a node leave the waves.                                     *)
Group(g) == [g EXCEPT !.waves = Prune(@, DOMAIN g.nodes)]

(* Slip: every capability may be merged.                                   *)
SlipMergeable(n) == n.op \in Capability

(* pass_deduplication: only capabilities declared idempotent are merged.   *)
Mergeable(n) == n.op \in Idempotent

(* What makes two calls the same: the tool, its inputs, the collection.    *)
Signature(nodes, i) ==
    LET n == nodes[i]
    IN  <<n.op, n.lit, n.inputs, n.uses, IF n.echo THEN i ELSE 0, n.over>>

Same(nodes, i) == {j \in DOMAIN nodes : /\ Mergeable(nodes[i]) /\ Mergeable(nodes[j])
                                        /\ Signature(nodes, j) = Signature(nodes, i)}

Canonical(nodes, i) == Min(Same(nodes, i) \cup {i})

(* Slip: the calls that depended on a removed one keep its id.             *)
SlipRemapped(nodes, n) == n

Remapped(nodes, n) == [n EXCEPT !.deps = {IF d \in DOMAIN nodes THEN Canonical(nodes, d) ELSE d
                                          : d \in @}]

(* Slip: the removed calls stay in the waves.                              *)
SlipDedup(g) ==
    LET kept == {i \in DOMAIN g.nodes : Canonical(g.nodes, i) = i}
    IN  [g EXCEPT !.nodes = [i \in kept |-> Remapped(g.nodes, g.nodes[i])]]

(* Dependencies follow the merge; placeholders in the inputs do not, and   *)
(* the waves are pruned, not computed again.                               *)
Dedup(g) ==
    LET kept == {i \in DOMAIN g.nodes : Canonical(g.nodes, i) = i}
    IN  IF kept = DOMAIN g.nodes THEN g
        ELSE Pruned(g, [i \in kept |-> Remapped(g.nodes, g.nodes[i])])

(* pass_dead_task_elimination: calls and maps always stay, other nodes     *)
(* when something refers to them.                                          *)
Eliminate(g) ==
    LET kept == {i \in DOMAIN g.nodes :
                    \/ g.nodes[i].kind \in {"tool", "map"}
                    \/ \E j \in DOMAIN g.nodes : i \in g.nodes[j].deps}
    IN  IF kept = DOMAIN g.nodes THEN g
        ELSE [nodes |-> Restrict(g.nodes, kept), waves |-> Waves(Restrict(g.nodes, kept))]

(* pass_dependency_simplification: a call with an input key spelled like   *)
(* its own reference counts as a pass-through and is removed; what         *)
(* depended on it depends on what it depended on.                          *)
PassThrough(n) == n.kind = "tool" /\ n.echo

Simplify(g) ==
    LET gone == {i \in DOMAIN g.nodes : PassThrough(g.nodes[i])}
        Rewired(n) == [n EXCEPT !.deps =
                          (@ \ gone) \cup UNION {g.nodes[d].deps : d \in @ \cap gone}]
    IN  IF gone = {} \/ Cardinality(DOMAIN g.nodes) < 2 THEN g
        ELSE Pruned(g, [i \in DOMAIN g.nodes \ gone |-> Rewired(g.nodes[i])])

(* pass_parallel_fusion: enough maps of one batched capability over one    *)
(* collection become a single call in the place of the first.  It has the  *)
(* dependencies of all of them and the endpoint of none.                   *)
Fellows(nodes, i) == {j \in DOMAIN nodes : /\ nodes[i].kind = "map" /\ nodes[j].kind = "map"
                                           /\ nodes[j].op = nodes[i].op
                                           /\ nodes[j].over = nodes[i].over}

Fusible(nodes, i) == /\ nodes[i].op \in Batch
                     /\ Cardinality(Fellows(nodes, i)) >= Threshold

Fused(nodes, i) ==
    IF ~Fusible(nodes, i) THEN nodes[i]
    ELSE LET all == Fellows(nodes, i)
         IN  [nodes[i] EXCEPT !.kind = "tool", !.inputs = <<>>, !.echo = FALSE,
                              !.uses = UNION {nodes[j].uses : j \in all},
                              !.deps = UNION {nodes[j].deps : j \in all},
                              !.candidates = <<>>, !.ranked = FALSE]

Fuse(g) ==
    LET kept == {i \in DOMAIN g.nodes : Fusible(g.nodes, i) => i = Min(Fellows(g.nodes, i))}
    IN  IF kept = DOMAIN g.nodes THEN g
        ELSE Pruned(g, [i \in kept |-> Fused(g.nodes, i)])

(* The discovered passes in the order of their priorities.                 *)
Passes == 1..7

Apply(p, g) == CASE p = 1 -> Enrich(g)   [] p = 2 -> Rank(g)      [] p = 3 -> Group(g)
                 [] p = 4 -> Dedup(g)    [] p = 5 -> Eliminate(g) [] p = 6 -> Simplify(g)
                 [] p = 7 -> Fuse(g)

--------------------------------------------------------------------------------
Empty == [nodes |-> <<>>, waves |-> <<>>]

PassesInit == /\ plan \in Plans
        /\ user \in {"unknown", "lacking", "holding"}
        /\ graph = Empty
        /\ start = Empty
        /\ phase = "chains"
        /\ pass = 1
        /\ round = 1
        /\ faults = 0

Fail == /\ phase' = "failed"
        /\ UNCHANGED <<plan, user, graph, pass, round, start>>

(* The producers of RESOLVE expressions, or a CompilerError: an expression *)
(* never reaches a call as a literal.                                      *)
Synthesize == /\ phase = "chains"
              /\ \A r \in DOMAIN plan : ~Refused(r)
              /\ phase' = "build"
              /\ UNCHANGED <<plan, user, graph, pass, round, start, faults>>

RefuseChain == /\ phase = "chains"
               /\ \E r \in DOMAIN plan : Refused(r)
               /\ Fail
               /\ UNCHANGED faults

(* A node with a condition and branches becomes a ConditionalNode, which   *)
(* has a field, source_ref, that codegen does not give a value.            *)
Gated == {r \in DOMAIN plan : plan[r].gates # {}}

Build == /\ phase = "build"
         /\ LET nodes == [r \in Known |-> Physical(r)]
            IN  IF Gated # {} \/ ~Acyclic(nodes)
                THEN Fail
                ELSE /\ graph' = [nodes |-> nodes, waves |-> Waves(nodes)]
                     /\ start' = graph'
                     /\ phase' = "passes"
                     /\ UNCHANGED <<plan, user, pass, round>>
         /\ UNCHANGED faults

(* An error of the database under the resolver leaves compile().           *)
ResolverFails == /\ phase \in {"chains", "build"}
                 /\ faults < MaxFaults
                 /\ faults' = faults + 1
                 /\ Fail

RunPass == /\ phase = "passes"
           /\ pass \in Passes
           /\ graph' = Apply(pass, graph)
           /\ pass' = pass + 1
           /\ UNCHANGED <<plan, user, phase, round, start, faults>>

(* The pass that reads the registry raises: it is skipped in this          *)
(* iteration, whatever it had done to its copy of the graph.               *)
PassFails == /\ phase = "passes"
             /\ pass = 1
             /\ faults < MaxFaults
             /\ faults' = faults + 1
             /\ pass' = 2
             /\ UNCHANGED <<plan, user, graph, phase, round, start>>

(* Slip: one iteration more than the settings allow.                       *)
SlipRoundsUsed == round > MaxIterations

RoundsUsed == round >= MaxIterations

EndRound == /\ phase = "passes"
            /\ pass \notin Passes
            /\ IF graph = start \/ RoundsUsed
               THEN phase' = "done" /\ UNCHANGED <<pass, round, start>>
               ELSE /\ pass' = 1
                    /\ round' = round + 1
                    /\ start' = graph
                    /\ UNCHANGED phase
            /\ UNCHANGED <<plan, user, graph, faults>>

PassesNext == Synthesize \/ RefuseChain \/ Build \/ ResolverFails \/ RunPass \/ PassFails \/ EndRound

PassesSpec == PassesInit /\ [][PassesNext]_passesVars

--------------------------------------------------------------------------------
(* Properties.                                                             *)

(* Types: the nodes of the graph are nodes of the plan or its producers,   *)
(* and the iterations stay within the settings.                            *)
GraphTypeOK == /\ phase \in {"chains", "build", "passes", "done", "failed"}
          /\ DOMAIN graph.nodes \subseteq Known
          /\ \A i \in DOMAIN graph.nodes : graph.nodes[i].deps \subseteq Known
          /\ pass \in 1..8
          /\ round \in 1..MaxIterations
          /\ faults \in 0..MaxFaults

WaveOf(i) == CHOOSE w \in DOMAIN graph.waves : i \in graph.waves[w]

Compiled == phase \in {"passes", "done"}

(* Every node the passes leave runs in exactly one wave, and no wave names *)
(* a node they removed: what one pass drops from the nodes, and the waves  *)
(* that the next passes only prune, never part.                            *)
EveryNodeOnce ==
    Compiled => /\ UNION Range(graph.waves) = DOMAIN graph.nodes
                /\ \A v, w \in DOMAIN graph.waves : v # w => graph.waves[v] \cap graph.waves[w] = {}

(* What the plan has a node wait for: the dependencies the model wrote and *)
(* the producer of its RESOLVE expression, the collection of a map, and    *)
(* the placeholders of any other call.                                     *)
WaitsFor(i) == LET n == Logical(i) IN n.deps \cup (IF n.over # 0 THEN {n.over} ELSE n.uses)

(* Of two calls of the plan that the passes left, the one the other needs  *)
(* runs in an earlier wave, whether or not the model wrote the dependency  *)
(* and whatever the passes removed around the two (codegen.py:415-417).    *)
(* It does not say when a call runs whose producer is gone: the waves are  *)
(* pruned, not computed again, and the call a producer was merged into may *)
(* run after it (WavesFollowDeps and PlaceholdersResolve, below).  Nor     *)
(* does it say anything of the placeholders in a map's body                *)
(* (MapsAreOrdered).                                                       *)
OrderedDataflow ==
    Compiled => \A i \in DOMAIN graph.nodes :
        \A u \in WaitsFor(i) \cap DOMAIN graph.nodes : WaveOf(u) < WaveOf(i)

(* A call with side effects that the plan asks for is in the graph the     *)
(* executor gets: two identical writes are two writes                      *)
(* (pass_deduplication.py:30-34).  A write taken for a pass-through is     *)
(* lost (CallsAreNeverEliminated, below), and of the maps a batch call     *)
(* stands for one is left.                                                 *)
EffectsKept ==
    Compiled => \A i \in Known \ DOMAIN graph.nodes :
        Logical(i).op \in Idempotent \/ Logical(i).echo \/ Logical(i).over # 0

(* What is merged leaves no trace in the dependencies: a dependency on a   *)
(* node that is gone is one on a pass-through or on a fused map.           *)
DepsResolve ==
    Compiled => \A i \in DOMAIN graph.nodes : \A d \in graph.nodes[i].deps \ DOMAIN graph.nodes :
        Logical(d).echo \/ Logical(d).over # 0

(* The calls that survive the passes are run once each and keep the order  *)
(* the plan has for them, no write is lost except as a pass-through or in  *)
(* a batch, and no call waits for one that was merged away                 *)
(* (pass_manager.py).  The graph need not be a schedule of the whole plan: *)
(* see OrderedDataflow for what the passes may break.                      *)
SurvivorsScheduled == EveryNodeOnce /\ OrderedDataflow /\ EffectsKept /\ DepsResolve

--------------------------------------------------------------------------------
(* What the code and its comments say, and the model refutes.              *)

(* codegen.py:266-267, "the node routes execution based on condition": a   *)
(* plan with a branch compiles.                                            *)
BranchesCompile ==
    phase = "failed" /\ faults = 0 /\ (\A r \in DOMAIN plan : ~Refused(r))
        => ~Acyclic([r \in Known |-> Physical(r)])

(* codegen.py:417, "this catches all cases": the placeholders of a map *)
(* wait for their producers too.                                           *)
MapsAreOrdered ==
    Compiled => \A i \in DOMAIN graph.nodes :
        \A u \in graph.nodes[i].uses \cap DOMAIN graph.nodes : WaveOf(u) < WaveOf(i)

(* The waves respect the dependencies of the graph they run                *)
(* (pass_deduplication.py:4-5): a write whose producer was merged into a   *)
(* call that waits for the write runs before that call.                    *)
WavesFollowDeps ==
    Compiled => \A i \in DOMAIN graph.nodes :
        \A d \in graph.nodes[i].deps \cap DOMAIN graph.nodes : WaveOf(d) < WaveOf(i)

(* Every placeholder still names a node: pass_deduplication.py:4-5, "all   *)
(* depends_on references to the removed duplicates are remapped".          *)
PlaceholdersResolve ==
    phase = "done" => \A i \in DOMAIN graph.nodes :
        graph.nodes[i].uses \cap Known \subseteq DOMAIN graph.nodes

(* pass_dead_task_elimination.py:3-4, "ToolNodes and MapNodes are NEVER    *)
(* eliminated because they represent intentional, side-effectful API       *)
(* calls": no pass removes a write.                                        *)
CallsAreNeverEliminated ==
    Compiled => \A i \in Known \ DOMAIN graph.nodes : Logical(i).op \in Idempotent

(* input_enrichment.py:12-13, "LLM inputs take precedence": a value the    *)
(* model gave is not replaced by a default.                                *)
InputsTakePrecedence ==
    [][phase = "passes" /\ pass = 1 =>
         \A i \in DOMAIN graph.nodes : \A k \in DOMAIN graph.nodes[i].inputs :
             graph.nodes[i].inputs[k] = "given" /\ k # "profile"
                 => \E j \in DOMAIN graph'.nodes[i].inputs : graph'.nodes[i].inputs[j] = "given"]_passesVars

(* resolver.py:226, "1.0 if user has all required, 0.0 otherwise": an  *)
(* endpoint that asks for a permission gains nothing from a user of whom   *)
(* no permission is known.                                                 *)
UnknownIsNotPermitted == user = "unknown" => \A op \in Capability : \A e \in Range(Endpoints[op]) :
                             ~(e.needs /\ Permitted(e) > 0)

(* codegen.py:37-38, an operation that cannot be resolved is an error.     *)
UnresolvedNeverCompiles ==
    Compiled => \A i \in DOMAIN graph.nodes : Resolve(graph.nodes[i].op) # <<>>
================================================================================
