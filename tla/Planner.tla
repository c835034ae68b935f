-------------------------------- MODULE Planner --------------------------------
(***************************************************************************)
(* Planning a request: nodes/semantic_parser_node.py has the model draft a *)
(* plan or takes one from the parse cache (compiler/cache.py),             *)
(* compiler/binder.py says where every required input comes from,          *)
(* nodes/plan_validator_node.py judges the plan by its own rules, and      *)
(* nodes/compiler_node.py hands it on.  The cache is written before the    *)
(* plan is judged, and sessions share it.                                  *)
(*                                                                         *)
(* A node of a plan is [op, ref, about, inputs, deps, over]: the           *)
(* capability, its label and the entity words in it, the values of its     *)
(* inputs, the labels it waits for, and whether it is mapped over a        *)
(* collection: "no", "own" (declared) or "lost".  A value is a literal the *)
(* user said, a guess, a blank, junk of the wrong type, or a placeholder   *)
(* ("from") for another node's output.  What the registry and the          *)
(* resolution engine know of capabilities and messages are constants.      *)
(* Plans of workflow steps and modified approvals, which are planned       *)
(* under another message than the user's last one, are left out.           *)
(***************************************************************************)
EXTENDS Naturals, FiniteSets, Sequences, SequencesExt, FiniteSetsExt, Functions

CONSTANTS
    Session,      \* the sessions that plan
    Home,         \* session -> the process it runs in
    Op,           \* capability_index: the registered capabilities
    Needs,        \* op -> input_required, a sequence
    Knows,        \* op -> the optional inputs of its schema
    Defaulted,    \* op -> those that declare a default
    Gives,        \* op -> what it produces
    Alias,        \* alias -> capability
    Message,      \* what users ask
    Units,        \* message -> the intents detected in it
    Retrieved,    \* message -> the capabilities the engine selects for it
    Favoured,     \* message -> the dominant declared candidate, or None
    Parts,        \* message -> the drafts of its chunks; <<>>: one pass is enough
    Drafted,      \* message -> what the model may answer in one pass
    MaxRounds,    \* compiler.max_plan_validator_rounds
    MaxReplans,   \* agent.max_replans
    MaxPlanCalls, \* agent.max_llm_calls
    MaxRequests,  \* turns of all sessions together (a bound)
    Wishes,       \* functions: session -> the messages its user may send (a bound)
    MaxOutages,   \* Redis outages (a bound)
    None

VARIABLES
    wishes,    \* the element of Wishes the users keep to
    work,      \* session -> the channels of its turn
    cache,     \* place -> key -> plan: Redis and the memory of each process
    up,        \* Redis answers
    outages,
    leftover   \* <<place, key, plan>>: plans that nobody will judge or remove

planVars == <<wishes, work, cache, up, outages, leftover>>

Place == {"redis"} \cup {Home[s] : s \in Session}

Ops(p) == {p[i].op : i \in DOMAIN p}

--------------------------------------------------------------------------------
(* Capabilities and values.                                                *)

RequiredOf(op) == IF op \in Op THEN ToSet(Needs[op]) ELSE {}
Produced(op) == IF op \in Op THEN Gives[op] ELSE {}

Literal(kind, word) ==
    [kind |-> kind, words |-> IF word = None THEN {} ELSE {word}, from |-> None]

Item == [kind |-> "item", words |-> {}, from |-> None]

Output(n, param) ==
    [kind |-> "from", words |-> n.about \cup {"result", param}, from |-> n.ref]

Given(n) == {k \in DOMAIN n.inputs : n.inputs[k].kind # "blank"}

MissingInputs(n) == RequiredOf(n.op) \ Given(n)

UnknownKeys(n) ==
    IF n.op \in Op THEN DOMAIN n.inputs \ (RequiredOf(n.op) \cup Knows[n.op]) ELSE {}

WrongType(n) ==
    \E k \in DOMAIN n.inputs \ UnknownKeys(n) : n.op \in Op /\ n.inputs[k].kind = "junk"

(* A required input whose literal is nowhere in the message.               *)
Unproven(n) ==
    \E k \in DOMAIN n.inputs \cap RequiredOf(n.op) : n.inputs[k].kind \in {"guess", "junk"}

UnsafeToCache(p) ==
    \E i \in DOMAIN p : \/ WrongType(p[i]) \/ MissingInputs(p[i]) # {}
                        \/ UnknownKeys(p[i]) # {} \/ Unproven(p[i])

--------------------------------------------------------------------------------
(* The capabilities a plan may use.                                        *)

(* Those retrieved, all of them when an executable request retrieves none; *)
(* those a replan marked unavailable are left out while others remain; the *)
(* candidates of units the validator found uncovered are added.            *)
Actionable(m) == {u \in Units[m] : ~u.negated}

Fetched(m) == IF Retrieved[m] = {} THEN Op ELSE Retrieved[m]

Scoped(found, avoid) == IF found \ avoid = {} THEN found ELSE found \ avoid

Widening(w) == IF "coverage" \in w.faults THEN w.uncovered ELSE {}

Offered(w) == Scoped(Fetched(w.asked), w.avoid) \cup Widening(w)

(* An operation outside the offer is looked up as an alias, whose          *)
(* capability is taken even when it is not offered.                        *)
Sanitized(p, offer) ==
    [i \in DOMAIN p |-> IF p[i].op \notin offer /\ p[i].op \in DOMAIN Alias
                        THEN [p[i] EXCEPT !.op = Alias[p[i].op]] ELSE p[i]]

Resolved(n, offer, was) == was \in offer \/ was \in DOMAIN Alias

(* The dominant candidate replaces the first operation of a plan without   *)
(* it.  (Its other case, an empty plan, is never reached.)                 *)
Corrected(p, m) ==
    IF p # <<>> /\ Favoured[m] # None /\ Favoured[m] \notin Ops(p)
    THEN [p EXCEPT ![1].op = Favoured[m]] ELSE p

--------------------------------------------------------------------------------
(* Parameter binding.                                                      *)

Words(n) == n.about \cup UNION {n.inputs[k].words : k \in DOMAIN n.inputs}

Overlap(a, b) == Cardinality(Words(a) \cap Words(b))

Producers(p, i, param) ==
    {j \in DOMAIN p \ {i} : param \in Produced(p[j].op)}

(* The one whose words overlap most; on a tie the position-th, while each  *)
(* consumer finds one of its own or the user named one entity for all.     *)
PickProducer(p, i, param, position) ==
    LET from   == Producers(p, i, param)
        share(j) == Overlap(p[i], p[j])
        scored == SetToSortSeq(from, LAMBDA a, b : share(a) > share(b)
                                                  \/ (share(a) = share(b) /\ a < b))
        named  == UNION {UNION {p[j].inputs[k].words : k \in {k \in DOMAIN p[j].inputs :
                                    p[j].inputs[k].kind = "said"}} : j \in from}
        n      == Len(scored)
        reuse  == Cardinality(named) = 1
    IN  CASE n = 1 -> IF position > 0 /\ share(scored[1]) = 0 /\ ~reuse
                      THEN None ELSE scored[1]
          [] n > 1 /\ share(scored[1]) > 0 /\ share(scored[2]) < share(scored[1]) -> scored[1]
          [] OTHER -> IF position >= n /\ ~reuse THEN None
                      ELSE scored[(position % n) + 1]

With(n, k, v) == [n EXCEPT !.inputs = [x \in DOMAIN n.inputs \cup {k} |->
                                          IF x = k THEN v ELSE n.inputs[x]]]

Chained(p, i, param, j) ==
    [p EXCEPT ![i] = [With(p[i], param, Output(p[j], param)) EXCEPT
                          !.deps = @ \cup {p[j].ref}]]

(* One missing input: taken from a producer in the plan, ambiguous, or     *)
(* without a source so far.                                                *)
BindInput(b, i, param) ==
    IF Producers(b.plan, i, param) = {}
    THEN [b EXCEPT !.open = @ \cup {<<b.plan[i].ref, param>>}]
    ELSE LET j == PickProducer(b.plan, i, param, b.position[param])
             c == [b EXCEPT !.position[param] = @ + 1]
         IN  IF j = None THEN [c EXCEPT !.missing = @ \cup {param}]
             ELSE [c EXCEPT !.plan = Chained(b.plan, i, param, j)]

(* A node's values for inputs that have a default are dropped first.       *)
Undefaulted(n) ==
    IF n.op \notin Op THEN n
    ELSE [n EXCEPT !.inputs = Restrict(n.inputs, DOMAIN n.inputs \ Defaulted[n.op])]

BindNode(b, i) ==
    LET n    == Undefaulted(b.plan[i])
        open == SelectSeq(IF n.op \in Op THEN Needs[n.op] ELSE <<>>,
                          LAMBDA k : k \in MissingInputs(n))
    IN  FoldLeft(LAMBDA c, k : BindInput(c, i, k), [b EXCEPT !.plan[i] = n], open)

Param == UNION {RequiredOf(op) : op \in Op}

Bound(p) ==
    FoldLeft(BindNode, [plan |-> p, open |-> {}, missing |-> {},
                        position |-> [k \in Param |-> 0]], [i \in DOMAIN p |-> i])

(* What is left to the user once the model found some of the open inputs.  *)
Unsourced(b, found) == b.missing \cup {o[2] : o \in b.open \ found}

(* The inputs the model finds in the message, each in the last node of its *)
(* label.                                                                  *)
Extracted(p, found) ==
    [i \in DOMAIN p |->
        LET here == {k \in Param : /\ <<p[i].ref, k>> \in found
                                   /\ \A j \in DOMAIN p : p[j].ref = p[i].ref => j <= i}
        IN  [p[i] EXCEPT !.inputs = [k \in DOMAIN @ \cup here |->
                IF k \in here THEN Literal("said", None) ELSE @[k]]]]

--------------------------------------------------------------------------------
(* Maps.  Nodes that differ in one distinct value only become one node     *)
(* over a collection; a collection nobody declares is taken off.           *)

Alike(a, b) == a.op = b.op /\ a.deps = b.deps /\ DOMAIN a.inputs = DOMAIN b.inputs

Varying(p, group) ==
    LET a == p[Min(group)].inputs
    IN  {k \in DOMAIN a : \E i \in group : p[i].inputs[k] # a[k]}

Collapses(p, group) ==
    /\ Cardinality(group) > 1
    /\ \E k \in Varying(p, group) :
            /\ Varying(p, group) = {k}
            /\ \A i, j \in group : i # j => p[i].inputs[k] # p[j].inputs[k]
            /\ \A i \in group : p[i].inputs[k].kind # "blank"

MapOf(p, group) ==
    LET first == p[Min(group)]
        k     == CHOOSE k \in Varying(p, group) : TRUE
    IN  [With(first, k, Item) EXCEPT !.over = "own"]

Collapsed(p) ==
    LET of(i)  == {j \in DOMAIN p : Alike(p[i], p[j])}
        groups == {g \in {of(i) : i \in DOMAIN p} : Collapses(p, g)}
        maps   == SetToSortSeq(groups, LAMBDA g, h : Min(g) < Min(h))
        rest   == SetToSortSeq(DOMAIN p \ UNION groups, <)
    IN  [x \in DOMAIN rest |-> p[rest[x]]] \o [x \in DOMAIN maps |-> MapOf(p, maps[x])]

Stripped(p) == [i \in DOMAIN p |-> IF p[i].over = "lost" THEN [p[i] EXCEPT !.over = "no"]
                                   ELSE p[i]]

--------------------------------------------------------------------------------
(* What the validator finds wrong with a plan.  A unit is [negated,        *)
(* bridge, ranked, order, strong, dominant]: the capabilities its words    *)
(* point to, those the engine ranks for it (best first), all of them by    *)
(* the strength of the match, and whether the engine's first is strong or  *)
(* dominant.                                                               *)

Classifiable(u) == ~u.negated /\ (u.bridge # {} \/ u.strong)

Candidates(u) == u.bridge \cup ToSet(u.ranked)

Matches(u, ops) == ops \cap Candidates(u)

Forbidden(units) == UNION {u.bridge : u \in {u \in units : u.negated}}

Served(u, ops, units) ==
    /\ Matches(u, ops) # {}
    /\ Matches(u, ops) \cap Forbidden(units) = {}

Uncovered(ops, units) == {u \in units : Classifiable(u) /\ ~Served(u, ops, units)}

Chosen(u, ops) == SelectSeq(u.order, LAMBDA op : op \in Matches(u, ops))[1]

(* Only strong evidence for another capability holds a choice against it.  *)
Outranked(u, chosen) == u.dominant /\ chosen # u.ranked[1]

Misaligned(u, ops) ==
    Classifiable(u) /\ Matches(u, ops) # {} /\ Outranked(u, Chosen(u, ops))

(* Operations that serve no unit and feed no other operation, and those    *)
(* that a negated unit excludes.                                           *)
Extraneous(ops, units) ==
    {op \in ops : \/ op \in Forbidden(units)
                  \/ /\ \A u \in units : Classifiable(u) => op \notin u.bridge
                     /\ Produced(op) \cap UNION {RequiredOf(o) : o \in ops} = {}}

Cyclic(p) ==
    LET refs  == {p[i].ref : i \in DOMAIN p}
        waits == UNION {{p[i].ref} \X (p[i].deps \cup {p[i].inputs[k].from : k \in DOMAIN p[i].inputs}) :
                            i \in DOMAIN p}
    IN  \E loop \in SUBSET refs \ {{}} : \A r \in loop : \E d \in loop : <<r, d>> \in waits

Constructible(op, keys, outputs) ==
    /\ RequiredOf(op) # {}
    /\ RequiredOf(op) \subseteq keys \/ RequiredOf(op) \subseteq outputs

(* A literal for what an absent capability could produce from the plan.    *)
Derivable(p, i) ==
    LET keys    == UNION {DOMAIN p[j].inputs : j \in DOMAIN p}
        outputs == UNION {Produced(op) : op \in Ops(p)}
    IN  \E k \in RequiredOf(p[i].op) \cap Given(p[i]) :
            /\ p[i].inputs[k].kind \in {"said", "guess", "junk"}
            /\ \E op \in Op \ Ops(p) : k \in Gives[op] /\ Constructible(op, keys, outputs)

(* A producer of the previous turn's chain without its first consumer.     *)
Unconsumed(p, chain) ==
    \E x \in DOMAIN chain :
        /\ chain[x] \in Ops(p)
        /\ LET later == {y \in x + 1 .. Len(chain) :
                            Produced(chain[x]) \cap RequiredOf(chain[y]) # {}}
           IN  later # {} /\ chain[Min(later)] \notin Ops(p)

(* The binder left a missing input of the node to the user, and the plan   *)
(* has other operations.                                                   *)
Droppable(p, i, missing) ==
    MissingInputs(p[i]) \cap missing # {} /\ Len(p) > 1

Is(code, wrong) == IF wrong THEN {code} ELSE {}

(* Unknown operations, cycles, and maps over no collection.                *)
IllFormed(p) ==
    Is("undefined", Ops(p) \ Op # {}) \cup Is("cycle", Cyclic(p))
    \cup Is("iterate", \E i \in DOMAIN p : p[i].over = "lost")

Unfilled(p, missing) ==
    {IF Droppable(p, i, missing) THEN "drop" ELSE "missing" :
        i \in {i \in DOMAIN p : MissingInputs(p[i]) # {}}}

IllGiven(p) ==
    Is("type", \E i \in DOMAIN p : WrongType(p[i]))
    \cup Is("key", \E i \in DOMAIN p : UnknownKeys(p[i]) # {})
    \cup Is("provenance", \E i \in DOMAIN p : Unproven(p[i]))

Incomplete(p, chain) ==
    Is("consumer", Unconsumed(p, chain)) \cup Is("producer", \E i \in DOMAIN p : Derivable(p, i))

(* What was asked and what is planned, each against the other.             *)
Unfaithful(p, units) ==
    Is("alignment", \E u \in units : Misaligned(u, Ops(p)))
    \cup Is("coverage", Uncovered(Ops(p), units) # {})
    \cup Is("forbidden", Forbidden(units) # {} /\ Extraneous(Ops(p), units) # {})

(* An empty plan is only held against a request for something.             *)
Findings(p, chain, units, missing) ==
    IF p = <<>> THEN Is("empty", \E u \in units : ~u.negated /\ u.bridge # {})
    ELSE IllFormed(p) \cup Unfilled(p, missing) \cup IllGiven(p) \cup Incomplete(p, chain)
         \cup Unfaithful(p, units)

(* The operations without a source are dropped and the rest proceeds,      *)
(* unless something is wrong that neither a drop nor a repair is for.      *)
Drops(found) == "drop" \in found /\ found \cap {"undefined", "cycle", "type", "forbidden"} = {}

Eligible(key, p) == Findings(p, key[2], Units[key[1]], {}) = {}

--------------------------------------------------------------------------------
(* The parse cache: Redis, and the memory of the process when Redis does   *)
(* not take the plan.                                                      *)

Key(w) == <<w.asked, w.chain>>

Stored(place, key) == IF key \in DOMAIN cache[place] THEN cache[place][key] ELSE None

Found(s, key) ==
    IF up /\ Stored("redis", key) # None THEN Stored("redis", key) ELSE Stored(Home[s], key)

Target(s) == IF up THEN "redis" ELSE Home[s]

Put(place, key, p) ==
    [cache EXCEPT ![place] = [k \in DOMAIN @ \cup {key} |-> IF k = key THEN p ELSE @[k]]]

(* A slip: only the memory that was written last is cleared.               *)
SlipWithout(s, key) ==
    [cache EXCEPT ![Target(s)] = Restrict(@, DOMAIN @ \ {key})]

(* A removal reaches Redis if it answers, and the process's own memory.    *)
Without(s, key) ==
    [place \in Place |-> IF place = Home[s] \/ (place = "redis" /\ up)
                         THEN Restrict(cache[place], DOMAIN cache[place] \ {key})
                         ELSE cache[place]]

(* The places of from that still hold what session s put or found there.   *)
Remains(s, from) ==
    {<<place, Key(work[s]), work[s].stored>> : place \in {place \in from :
        Key(work[s]) \in DOMAIN cache[place] /\ cache[place][Key(work[s])] = work[s].stored}}

Removed(s) ==
    /\ cache' = Without(s, Key(work[s]))
    /\ leftover' = leftover \cup Remains(s, IF up THEN {} ELSE {"redis"})

Patched(w, patch) ==
    [x \in DOMAIN w \cup DOMAIN patch |-> IF x \in DOMAIN patch THEN patch[x] ELSE w[x]]

Then(s, patch) == work' = [work EXCEPT ![s] = Patched(@, patch)]

--------------------------------------------------------------------------------
(* What the model can draft, as [plan, calls, broken].                     *)

(* Up to three times the strict extraction, which is held to the offer,    *)
(* and then the free one.  When all six fail the ledger is not saved.      *)
OnePass(w, calls) ==
    {[plan |-> d, calls |-> calls + n, broken |-> FALSE] : d \in Drafted[w.asked], n \in 1 .. 6}

Allowed(w, r, calls) ==
    /\ r.calls <= MaxPlanCalls
    /\ (r.calls - calls) % 2 = 1 => Ops(r.plan) \subseteq Offered(w)

Exhausted(w, calls) ==
    [plan |-> <<>>, calls |-> IF calls + 6 > MaxPlanCalls THEN MaxPlanCalls ELSE w.calls,
     broken |-> TRUE]

Single(w, calls) ==
    {r \in OnePass(w, calls) : Allowed(w, r, calls)} \cup {Exhausted(w, calls)}

(* The chunks that get a call: they draw on the budget before they start.  *)
Funded(parts, calls) == {c \in DOMAIN parts : calls + c <= MaxPlanCalls}

(* A chunk that gets no call, or no answer, has no nodes.  A label already *)
(* used gets the number of its chunk; a unit without a capability gets the *)
(* best that is ranked for it.                                             *)
Merged(m, chunks) ==
    LET name(used, n, c) == IF n.ref \in used THEN Append(n.ref, c) ELSE n.ref
        add(acc, n, c)   == Append(acc, [n EXCEPT !.ref = name({acc[i].ref : i \in DOMAIN acc}, n, c)])
        join == FoldLeft(LAMBDA acc, c : FoldLeft(LAMBDA a, n : add(a, n, c), acc, chunks[c]),
                         <<>>, [c \in DOMAIN chunks |-> c])
        cover(acc, u) ==
            IF u.bridge \cap Ops(acc) # {} \/ u.ranked = <<>> \/ u.ranked[1] \in Ops(acc) THEN acc
            ELSE Append(acc, [op |-> u.ranked[1], ref |-> <<"cov", Len(acc)>>, about |-> {"cov"},
                              inputs |-> <<>>, deps |-> {}, over |-> "no"])
    IN  IF join = <<>> THEN <<>> ELSE FoldLeft(cover, join, SetToSeq(Actionable(m)))

Chunked(w, calls) ==
    LET parts  == Parts[w.asked]
        funded == Funded(parts, calls)
    IN  IF parts = <<>> THEN {}
        ELSE {[plan   |-> Merged(w.asked, [c \in DOMAIN parts |-> IF c \in has THEN parts[c] ELSE <<>>]),
               calls  |-> calls + Cardinality(funded),
               broken |-> FALSE] : has \in SUBSET funded}

(* An empty draft for an executable request is repaired once, within the   *)
(* offer, or planned in chunks.                                            *)
Repaired(w, r) ==
    LET offered(d) == SelectSeq(d, LAMBDA n : n.op \in Offered(w))
        paid  == IF r.calls < MaxPlanCalls THEN r.calls + 1 ELSE r.calls
        again == {c \in Chunked(w, paid) : c.plan # <<>>}
    IN  IF r.broken \/ r.plan # <<>> \/ Actionable(w.asked) = {} THEN {r}
        ELSE {[r EXCEPT !.calls = paid]} \cup again
             \cup (IF r.calls = MaxPlanCalls THEN {}
                   ELSE {[r EXCEPT !.plan = offered(d), !.calls = paid] :
                             d \in {d \in Drafted[w.asked] : offered(d) # <<>>}})

Drafts(w) ==
    LET chunked == Chunked(w, w.calls)
        first   == {r \in chunked : r.plan # <<>>}
                   \cup (IF Parts[w.asked] = <<>> THEN Single(w, w.calls)
                         ELSE UNION {Single(w, r.calls) : r \in {r \in chunked : r.plan = <<>>}})
    IN  UNION {Repaired(w, r) : r \in first}

(* Operations that are neither offered nor an alias are mapped by the      *)
(* model, some or none of them, onto the offer; the plan is then corrected *)
(* and what stays unresolved is reported.  It is not dropped: the list     *)
(* without it is overwritten by the one the binder was given.              *)
Unresolved(p, offer) == {i \in DOMAIN p : ~Resolved(p[i], offer, p[i].op)}

Mendings(p, offer) ==
    LET bad == {p[i].op : i \in Unresolved(p, offer)}
    IN  {[i \in DOMAIN p |-> IF p[i].op \in DOMAIN map THEN [p[i] EXCEPT !.op = map[p[i].op]]
                             ELSE p[i]] : map \in UNION {[some -> offer] : some \in SUBSET bad}}

(* Each is [plan, calls, errors].                                          *)
Settled(w, r) ==
    LET offer == Offered(w)
        known == Sanitized(r.plan, offer)
    IN  IF Unresolved(r.plan, offer) = {}
        THEN {[plan |-> known, calls |-> r.calls, errors |-> FALSE]}
        ELSE {[plan |-> Corrected(q, w.asked), calls |-> r.calls + 1,
               errors |-> Ops(Corrected(q, w.asked)) \ offer # {}] : q \in Mendings(known, offer)}

--------------------------------------------------------------------------------
(* The channels of a turn, and those the checkpoint keeps for the next:    *)
(* the validator's rounds, errors and evidence, the compiler's tries and   *)
(* errors, the detected intents, the operations a replan set aside, and    *)
(* the graph of the last plan that compiled.                               *)
Over == [at |-> "idle", asked |-> None, plan |-> <<>>, stored |-> None, missing |-> {}, calls |-> 0,
         replans |-> 0, errors |-> FALSE, replanned |-> FALSE]

Kept == [turns |-> 0, intents |-> None, chain |-> <<>>, avoid |-> {}, rounds |-> 0, faults |-> {},
         uncovered |-> {}, tries |-> 0, cerrs |-> FALSE]

PlanInit ==
    /\ wishes \in Wishes
    /\ work = [s \in Session |-> Patched(Kept, Over)]
    /\ cache = [place \in Place |-> <<>>]
    /\ up = TRUE /\ outages = 0
    /\ leftover = {}

Request(s, m) ==
    /\ work[s].at = "idle" /\ m \in wishes[s]
    /\ MapThenSumSet(LAMBDA x : work[x].turns, Session) < MaxRequests
    /\ Then(s, [at |-> "lookup", asked |-> m, turns |-> work[s].turns + 1])
    /\ UNCHANGED <<cache, up, outages, leftover>>

(* The cached plan as the session takes it up: its collections were not    *)
(* stored with it; what is not on offer goes.                              *)
TakenUp(w, p) ==
    LET bare == [i \in DOMAIN p |-> IF p[i].over = "own" THEN [p[i] EXCEPT !.over = "lost"] ELSE p[i]]
    IN  Corrected(SelectSeq(Sanitized(bare, Offered(w)), LAMBDA n : n.op \in Offered(w)), w.asked)

(* No cache after a rejection; a plan that is unsafe now is a miss; one    *)
(* that is not is bound without the model.                                 *)
Lookup(s) ==
    LET w     == work[s]
        found == IF w.faults # {} \/ w.cerrs THEN None ELSE Found(s, Key(w))
        plan  == IF found = None THEN <<>> ELSE TakenUp(w, found)
        b     == Bound(plan)
    IN  /\ w.at = "lookup"
        /\ IF found = None \/ UnsafeToCache(plan)
           THEN Then(s, [at |-> "plan", stored |-> None])
           ELSE Then(s, [at |-> "judge", plan |-> b.plan, stored |-> found,
                         missing |-> Unsourced(b, {})])
        /\ UNCHANGED <<cache, up, outages, leftover>>

(* The plan is bound, with the model if a call is left, and what came of   *)
(* it is cached unless it is unsafe.                                       *)
Binds(s, q) ==
    LET w     == work[s]
        b     == Bound(q.plan)
        model == b.open # {} /\ q.calls < MaxPlanCalls
    IN  \E found \in IF model THEN SUBSET b.open ELSE {{}} :
            LET p    == Stripped(Collapsed(Extracted(b.plan, found)))
                puts == p # <<>> /\ ~UnsafeToCache(p)
            IN  /\ Then(s, [at |-> "judge", plan |-> p, intents |-> w.asked,
                            missing |-> Unsourced(b, found),
                            stored |-> IF puts THEN p ELSE None, errors |-> w.errors \/ q.errors,
                            calls |-> q.calls + IF model THEN 1 ELSE 0])
                /\ cache' = IF puts THEN Put(Target(s), Key(w), p) ELSE cache

Plan(s) ==
    LET w == work[s] IN
    /\ w.at = "plan"
    /\ \E r \in Drafts(w) :
        \/ /\ r.broken
           /\ Then(s, [at |-> "judge", plan |-> <<>>, stored |-> None, errors |-> TRUE,
                       calls |-> r.calls])
           /\ UNCHANGED cache
        \* no call is left for the mapping, and its result is read unassigned
        \/ /\ ~r.broken /\ r.calls = MaxPlanCalls
           /\ Unresolved(r.plan, Offered(w)) # {}
           /\ Then(s, Over) /\ UNCHANGED cache
        \/ /\ ~r.broken
           /\ r.calls < MaxPlanCalls \/ Unresolved(r.plan, Offered(w)) = {}
           /\ \E q \in Settled(w, r) : Binds(s, q)
    /\ UNCHANGED <<up, outages, leftover>>

(* A slip: the errors are cleared when what there is of the plan runs.     *)
SlipLastResort(s, found, units) ==
    IF found \cap {"empty", "missing"} # {} THEN Patched(Over, [faults |-> found])
    ELSE [at |-> "compile", faults |-> {}]

(* After the bounded repair: the user is asked, or what there is of the    *)
(* plan runs with what is wrong on record, or nothing does.                *)
LastResort(s, found, units) ==
    LET ops     == Ops(work[s].plan)
        traced  == \E u \in units : Classifiable(u) \/ (u.negated /\ u.bridge # {})
        partial == "coverage" \in found \/ (traced /\ Extraneous(ops, units) # {})
    IN  IF found \cap {"empty", "missing"} # {} \/ ~partial
        THEN Patched(Over, [faults |-> found])
        ELSE [at |-> "compile", faults |-> found]

Decision(s, found, units) ==
    LET w == work[s] IN
    IF found = {} THEN [at |-> "compile", faults |-> {}]
    ELSE IF Drops(found)
    THEN [at |-> "compile", faults |-> {}, errors |-> TRUE,
          plan |-> LET gone == {w.plan[i].op : i \in {i \in DOMAIN w.plan :
                                                       Droppable(w.plan, i, w.missing)}}
                   IN  SelectSeq(w.plan, LAMBDA n : n.op \notin gone)]
    ELSE IF w.rounds >= MaxRounds \/ w.replans >= MaxReplans THEN LastResort(s, found, units)
    ELSE [at |-> "lookup", faults |-> found, rounds |-> w.rounds + 1, replans |-> w.replans + 1]

(* The units are those of the last message that was planned by the model.  *)
Detected(w) == Units[IF w.intents = None THEN w.asked ELSE w.intents]

Judge(s) ==
    LET w     == work[s]
        units == Detected(w)
        found == Findings(w.plan, w.chain, units, w.missing)
        seen  == {u \in units : ~u.negated /\ ~(Classifiable(u) /\ Served(u, Ops(w.plan), units))}
    IN  /\ w.at = "judge"
        /\ Then(s, Patched(Decision(s, found, units),
                           [stored |-> None,
                            uncovered |-> IF w.plan = <<>> THEN {}
                                          ELSE UNION {Candidates(u) : u \in seen}]))
        /\ IF found = {} THEN UNCHANGED <<cache, leftover>> ELSE Removed(s)
        /\ UNCHANGED <<up, outages>>

(* The capabilities of a graph, in the order of their first nodes.         *)
ChainOf(p) ==
    SetToSortSeq(Ops(p), LAMBDA a, b :
        \E i \in DOMAIN p : p[i].op = a /\ \A j \in 1 .. i : p[j].op # b)

(* Compilation fails for reasons that are not the validator's, or the      *)
(* graph replaces the one of the last plan.                                *)
Compile(s) ==
    LET w == work[s] IN
    /\ w.at = "compile"
    /\ \/ /\ Then(s, [at |-> "run", chain |-> ChainOf(w.plan)])
          /\ UNCHANGED <<cache, leftover>>
       \/ /\ Then(s, IF w.tries < 2 /\ w.replans < MaxReplans
                     THEN [at |-> "lookup", cerrs |-> TRUE, tries |-> w.tries + 1,
                           replans |-> w.replans + 1]
                     ELSE Patched(Over, [cerrs |-> TRUE]))
          /\ Removed(s)
    /\ UNCHANGED <<up, outages>>

(* Calls of the plan fail in a way that asks for another plan.             *)
Replan(s) ==
    LET w == work[s] IN
    /\ w.at = "run" /\ ~w.replanned
    /\ \E failed \in SUBSET Ops(w.plan) \ {{}} :
            Then(s, [at |-> "lookup", avoid |-> failed, replanned |-> TRUE,
                     replans |-> IF w.replans < MaxReplans THEN w.replans + 1 ELSE w.replans,
                     errors |-> w.replans >= MaxReplans])
    /\ UNCHANGED <<cache, up, outages, leftover>>

EndTurn(s) ==
    /\ work[s].at = "run"
    /\ Then(s, Over)
    /\ UNCHANGED <<cache, up, outages, leftover>>

(* The turn is cancelled or dies before its plan is judged.                *)
Cancel(s) ==
    /\ work[s].at \in {"lookup", "plan", "judge", "compile"}
    /\ Then(s, Over)
    /\ leftover' = leftover \cup Remains(s, Place)
    /\ UNCHANGED <<cache, up, outages>>

Outage == /\ up /\ outages < MaxOutages
          /\ up' = FALSE /\ outages' = outages + 1
          /\ UNCHANGED <<work, cache, leftover>>

Heal == /\ ~up /\ up' = TRUE
        /\ UNCHANGED <<work, cache, outages, leftover>>

PlanNext ==
    /\ \/ \E s \in Session : \/ \E m \in Message : Request(s, m)
                            \/ Lookup(s) \/ Plan(s) \/ Judge(s) \/ Compile(s)
                            \/ Replan(s) \/ EndTurn(s) \/ Cancel(s)
       \/ Outage \/ Heal
    /\ UNCHANGED wishes

PlanSpec == PlanInit /\ [][PlanNext]_planVars

--------------------------------------------------------------------------------
(* No plan is left in the cache that the validator would reject for the    *)
(* message and the chain it is filed under, except one that a session is   *)
(* still to judge and one whose removal could not be made or whose session *)
(* is gone: the cache is written before the plan is judged.                *)
RejectedPlansLeave ==
    \A place \in Place : \A key \in DOMAIN cache[place] :
        LET p == cache[place][key] IN
        \/ Eligible(key, p)
        \/ \E s \in Session : work[s].at = "judge" /\ work[s].stored = p /\ Key(work[s]) = key
        \/ <<place, key, p>> \in leftover

(* A plan that was judged by the intents of its own message, and runs,     *)
(* serves every one of them, or the session carries an error or a finding  *)
(* that says which it does not.  Of a plan from the cache, which the       *)
(* validator judges by the intents that an earlier message left, it says   *)
(* nothing: such a plan may run partial and unsaid.                        *)
NeverSilentlyPartial ==
    \A s \in Session : LET w == work[s] IN
        (w.at = "run" /\ w.intents = w.asked /\ w.plan # <<>> /\ Uncovered(Ops(w.plan), Units[w.asked]) # {})
            => (w.errors \/ w.faults # {})
================================================================================
