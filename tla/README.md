# Nexus Agent in TLA+

Nexus Agent (`src/nexus-agent/src/nexus`) answers conversational requests.  A
request runs through a graph of nodes that understand, plan, validate, compile,
approve, execute and answer it; sessions, messages, memories, background tasks
and an execution ledger are kept in PostgreSQL, and locks, flags, streams and
caches in Redis.  Several requests, workers and maintenance loops share these.

This directory models the parts of it whose correctness depends on the order in
which things happen, checks them with TLC on small instances, and proves most
of what is checked for every value of the constants with TLAPS.

Contents: the system and its parts; the modules; what each run checks; the
proofs; what is model-checked only; what is not modelled; what the models say
about the code; how to run it.

## The system

| Component | State it keeps | Operations | What makes it correct |
| --- | --- | --- | --- |
| Execution ledger (`execution/ledger.py`) and concurrent executor (`agent/executors/`) | rows of `completed_executions` with token, lease, result and architecture; waves, retries and domain slots of an executor | find, claim, complete, release; execute a wave, retry, time out, cancel | one call per key at a time; a recorded result is final and is what a replay returns |
| Background tasks (`tasks/`, `api/tasks.py`, `providers/queue/`, `utils/scheduler.py`) | task rows with leases, attempts and flags; a stream with one consumer group | create, pause, resume, cancel; poll, take over, lease, start, finish, retry, acknowledge; post what is due | one executor per task; what is acknowledged was settled; a cancellation spares what has not started; one post per period |
| Session runs (`agent/runner.py`) | session lock, cancel flag, checkpoint, in-process artifact graph | `invoke`, its heartbeat, `cancel`, the finally block | one stream per session; a message leaves the checkpoint only by the window; a flag stops the run it was meant for |
| Agent graph (`agent/graph.py`, `agent/nodes/`) | the channels of the session's checkpoint, counters, the artifact graph | every node with the router behind it | nothing guarded runs before this turn's gate let it pass, which takes an approval or a policy that cannot be read; retries run the graph compiled last |
| Planning (`agent/nodes/semantic_parser_node.py`, `plan_validator_node.py`, `compiler_node.py`, `replan_node.py`, `compiler/binder.py`, `compiler/cache.py`) | the plan of the turn and what is wrong with it; the parse cache in Redis and in each process, per message and chain | look up, draft, map, bind, collapse, judge, compile, replan | no rejected plan is replayed; no partial plan runs in silence |
| Workflow compiler (`compiler/`) | the execution graph and its waves | code generation and seven passes to a fixpoint | every call left is scheduled once, after those it needs that are left; no write is lost but as a pass-through or in a batch |
| Answers (`agent/nodes/response.py`, `artifacts/evidence.py`) | status and text of the turn, working memory | passthrough, draft, repair, ground, entail, remember | a success quotes what was produced and nothing else |
| Long-term memory (`memory/`) | the memory table shared by all sessions | extract, store, recall, merge, promote, dedupe, decay | a session's artifacts are its own unless they are public; merged rows have heirs |
| Conversation (`api/chat.py`, `api/websocket.py`, `sessions/`) | queues between runs and observers, message rows, active-run count | stream, reply, disconnect, record, page, rename, shut down | "done" is said after everything else; a turn is recorded with its answer if it had one, or not at all |
| LLM access (`llm/`) | attempts, the probe cache | complete, stream, embed, the chain of models | bounded attempts, no replay of a stream, no retry of what cannot pass |
| Tool calls (`tools/executor.py`, `tools/mcp_client.py`, `redis_client/rate_limiter.py`, `metrics/store.py`) | attempts, redirections and response of a call; token buckets; execution rows; reliability scores | admit, take a token, send, follow, retry, conclude, record, publish, score | what must not be repeated is done at most once; a success was answered so |

Parts interact through the database and Redis (ledger, tasks, memory, locks),
through the channels of the checkpoint (nodes of the graph, and one turn of a
session with the next), and through queues (a run and its observers).  What is
hard about them: coroutines that interleave at every `await`; cancellation,
which strikes at any `await`, the ones of a `finally` block included; leases
and locks that lapse under a slow holder; processes that die between two
commits; entries that are delivered again; state of an earlier turn that is
still in the checkpoint; reads taken before a lock and used under it.
`PROJECT.json` lists these at their lines under `hazards`, with the properties
that cover them, and lists every component, the ones left out included.

## The modules

One action is what the code does from one `await` to the next, or one node, one
statement of SQL, one call of Redis, one compiler pass.  Names are the code's
where it has one.  Operators called `Slip...` are not part of a specification:
each is a mistake a change of the code could make, and states by contrast what
a definition has to get right; the mutation of the definition beside it into
that form makes the property named for it in `PROJECT.json` fail.

**`DurableExecution`** (`execution/ledger.py`,
`agent/executors/concurrent_executor.py`).  An attempt is one task of one
executor instance; its `pc` walks through `_run` and `_execute_single`:
placeholders that cannot be resolved, skip of idempotent completed keys, `find`,
`claim`, the re-check of a loser, the slot of the domain, the call, retries,
artifact cache, `complete`, registration and `release`.  Executors arm a global
timeout for their first wave, cancel what is left, die.  `row` is the table,
read and written by every instance.  Time is kept as countdowns: `ttl` of a row,
`left` of a timeout.  A failing database operation (`...Degraded`) lets the code
go on without the ledger, as it does.

**`LedgerContract`**.  The abstract lease: per key a phase (`open`, `held`,
`lapsed`, `done`) and a holder.  Both the ledger and the task rows are shown to
implement it, under different refinement mappings.

**`TaskQueue`**.  The task table, the stream and its group; the worker's
`run_once` (take over stale entries, poll, check the flag, lease, start,
execute, complete or fail, acknowledge, release) with its heartbeat; the
scheduler's tick over due tasks; the API's calls.  Each call of the database or
of Redis may fail, and each actor may die between two of them.

**`SessionRuns`**.  `AgentRunner.invoke` of several invocations of one session:
read the checkpoint, refuse or reset, lock, start the heartbeat, clear the flag,
stream, the else and finally blocks (marker, heartbeat, release).  A message is
a number in the order in which the reducer took it in, and a milestone (`lasts`)
or not; `Windowed` is the reducer's rolling window, which milestones stay
outside of; `Earlier` messages come from the turns before.  A cancellation may
strike at each await and takes the path the code takes from
there.

**`AgentGraph`**.  The channels `s` of the checkpoint and one action per node
and outcome, with the router that follows.  A node writes what its patch names;
every other channel keeps its value, also over turns, except those that the
runner's initial state sets.  Plans and graphs are sets of tools.  The goals of a
request are a heuristic's or the classifier's, and the router's backstop turns a
chat with executable intents into an action.

**`Planner`**.  From the user's message to a plan that runs: `Lookup` takes a
plan from the cache and binds it, `Plan` has the model draft one (in one pass or
in chunks, within the budget of calls), maps unknown operations, binds every
required input to a producer or to the user, collapses repetitions into maps and
files the plan in the cache; `Judge` is the validator with its repair rounds, its
drops and its last resort; `Compile` and `Replan` send it back.  A node of a plan
is `[op, ref, about, inputs, deps, over]`, and an intent of the message is a unit
`[negated, bridge, ranked, order, strong, dominant]`; both come from constants,
since what the model drafts and what the resolution engine ranks are inputs.  A
unit names one instance of a capability.  `leftover` is a history variable: the
places that keep a plan which no session will judge or can remove.  Plans of
workflow steps and of modified approvals, and the cache of compiled graphs, are
left out.

**`GraphPasses`**.  `codegen.py` and `pass_manager.py` with the passes of
`compiler/passes` in their order.  A plan is a sequence of nodes with operation,
placeholders, dependencies and the few input keys that policies speak about.
Waves are numbered by the rounds of Kahn's algorithm: one that is empty, which
the code drops, keeps its number here and runs nothing.  The passes prune the
waves and never compute them again, so what `SurvivorsScheduled` promises is
about the calls they leave; what else the comments of the passes promise is
stated behind it in the module, and refuted (see the last section but one).

**`Answer`**.  `response_node` from the choice of a way to answer through draft,
floor, grounding, entailment and fallback, then `memory_helper_node` and the
outcome row.  A text is what the guards look for in it: length, artifacts
quoted, entities named, numbers invented.

**`LongTermMemory`**.  The table, by row: the turns of sessions
(`_dedup_and_store` as search and put, two transactions), the artifact cache,
the maintenance loop with its stages, deletions and restarts.  A text is the
fact it states; near-identical texts state the same fact.  The artifacts of
`Public` operations (`cache_scope` "public") are looked up across sessions, as
invariant I7 of `docs/invariants.md` allows; those of other operations are not.

**`Conversation`**.  Runs, queues and observers of one session, the websocket,
the record of turns, a paging client, a rename and a process that shuts down,
dies and starts again.  A request is `Post`ed past the drain check, waits for its
session's row (`Ensure`) and for its runner, and is counted only then (`Handle`);
a websocket run never is.

**`LlmCalls`**.  A call through resolution, prompt format, overflow, retries,
trimming, streaming and the chain.  A prompt is the sequence of its messages'
sizes.  `Probe`, the call that finds out a model's prompt format, is an action,
but no attempt.

**`ToolCalls`**.  One call of a capability: turned away, or limited by the token
bucket, sent over HTTP or to an MCP server, retried, redirected, concluded,
recorded, published and scored.  A request that is given up may still be acted
on later (`stray`), and `acted` counts how often the provider did something for
a call.  Payloads are left out; an answer is its kind.

`MC...` modules define the constants of the runs.  `MCStages` runs stages that
share no state (`Answer`, `Planner`, `GraphPasses`) in one run: its variable
`stage` says which of them a behaviour exercises, and the others stay where they
start.  `MCCalls` does the same for `LlmCalls` and `ToolCalls`, by whether calls
of tools are wanted.  What is wanted is chosen at the start: `Wishes` of
`Planner` and `Batches` of `ToolCalls` are sets of loads, so that one run covers
several small ones.  `..._proofs` modules hold the theorems.

## What each run checks

Every run is exhaustive over its bounds.  `CHECK_DEADLOCK FALSE` is set where
the modelled activity ends (all turns taken, all calls answered).

| Run | Instance | Properties |
| --- | --- | --- |
| `rivals` | three executors, two architectures, one key; lease and timeout one tick, one fault; executors interchangeable (symmetry over those of one architecture) | `OneCallerPerKey`, `NoCallOnceCompleted`, `ReplayedWasRecorded`, `LiveClaimStands`, `ImplementsContract` |
| `plan_live` | one plan, two waves, three tasks of one key; one retry, one domain slot, one fault; fair | `SucceedsOnce`, `TasksSettle`, `ClaimsNeverBlockForever` |
| `task_one` | two workers, one task, two API calls, one failed call, one death | `OneExecutorPerTask`, `CancelledNeverStarts`, `ImplementsLease` |
| `task_faults` | one worker, the scheduler, a recurring task and a one-shot nobody handles; one failed call, one death | `AckedWasSettled`, `CronPostedOncePerPeriod` |
| `session` | two invocations after a turn that left two messages, one a milestone; a window of two; each run's node adds an ordinary message; of one fault, cancellation, stop and crash, two in a behaviour; the lock lives two ticks and is renewed every tick | `OneStreamPerSession`, `CancelsAreOwn`, `RunningMeansRunning`, `MessagesKept` |
| `agent` | two turns, a guarded tool and a reducer that needs it; one round, replan, retry and recompile each | `GrantedThisTurn`, `DeclinedRunsNothing`, `ApprovalStaysOpen`, `RunsTheGraph`, `OneHandoff` |
| `memory` | two sessions, one fact, three rows, a private and a public operation, one maintenance cycle, one fault; fair | `CacheIsolated`, `HeirsExist`, `TurnsAloneIsolate`, `MaintenanceEnds` |
| `conversation` | two requests of two events each, a queue of one, which fills; one failure, death or session call | `DoneIsLast`, `WholeTurns`, `WatchersAreCounted` |
| `calls` | two callers, three models (unserved, small window, no tools), prompts around the window; or two calls of a tool that writes, is limited to one a minute and is checked, or one call of a read, of a write whose provider knows the key, or of an MCP tool, with two retries and two redirections; one fault; symmetry of the callers and of the two calls | `AttemptsAreBounded`, `NoReplay`, `FailsFast`, `FiredOnce`, `SuccessIsAnswered` |
| `stages` | two turns over three artifacts of different kinds; plans of up to three nodes over reading, writing and unavailable capabilities, in all shapes; planning, two turns with three model calls each, by two sessions in two processes that send the same request, or by one session that sends a request planned in chunks and one that excludes a capability; one Redis outage | `SuccessIsGrounded`, `NothingDoneIsSaid`, `RemembersOnlyAnswers`, `SurvivorsScheduled`, `RejectedPlansLeave`, `NeverSilentlyPartial` |
| `release_doc` | two executors and a tool that is not idempotent | `ReleaseIsDefinite`, violated (a finding) |
| `approval_doc` | one guarded tool, two turns | `ApprovedIsResumed`, violated (a finding) |

Why the bounds are enough to meet the interesting cases: a takeover needs two
claimants and a lease that lapses during a call (`Lease = 1` lapses after one
tick); the loser's re-check needs a third that completes in between; a
redelivery needs an entry that grows stale while its worker is alive
(`MaxEntries = 2`, one task); a stray cancel needs two runs; a merged heir needs
two twins and a third row that the merge writes; a question answered in a later
turn needs two turns; a merge that reorders needs three nodes; a message that
rolls out of the window under a run that has read it needs a window no longer
than what another run adds; a run that waits for its observer needs a queue
shorter than its events.  Each bound is a
constant with the comment "bound" beside it; the proofs hold for every value.

For every property of a passing run `PROJECT.json` names a mutant: a plausible
slip in a definition that models code, under which the run finds the property
violated.

**Fairness.**  `DurableExecution!FairSpec` takes every coroutine that is ready
and lets time pass: an event loop does that, and nothing is assumed of faults,
cancellations or crashes.  `LongTermMemory!Spec` is fair to the steps of the
maintenance loop, one coroutine that the process keeps, and to nothing else.
`AgentGraph!FairSpec` is fair to the next node, which the graph library runs;
the finding `approval_doc` is a safety violation and does not need it.

## What is proved

Theorems hold for any number of actors, keys, turns and rows, under the
`ASSUME`s of the modules, which TLC evaluates in every run.  The assumptions are
types of constants, and facts about settings: a plan's timeout is not
longer than a lease (`LeaseCoversPlan`: 60 s and 120 s are shipped), a lock is
renewed before it lapses (`Beat < LockTtl`: the code takes a third), clusters
have at least two members, the window holds at least one message
(`WindowAssumption`), and `None` is nothing else.  `Answer`, `Conversation`
and `LlmCalls` state their assumptions as a definition that their theorems have
as a hypothesis and that the module of the run assumes.  The theorems about
`Planner` assume nothing, those about `GraphPasses` its two `ASSUME`s (a plan is
a sequence; the limits are positive).

| Module | Theorems | Inductive invariant |
| --- | --- | --- |
| `DurableExecution_proofs` | `TypeCorrect`, `OneCaller`, `NoReexecution`, `ReplayIsFaithful`, `ResultsAreFinal`, `ClaimsStand`, `LedgerImplementsContract`, `OneSuccess` | `IInv`, `OnceInv` |
| `TaskQueue_proofs` | `TypeCorrect`, `FlaggedIsSpared`, `NothingIsLost`, `OnePostPerPeriod`, `LeasesImplementContract`, `OneExecutorWhileCovered`, `OneExecutor` | `CancelInv`, `AckInv`, `CronInv`, `LeaseInv` |
| `SessionRuns_proofs` | `TypeCorrect`, `OneStream`, `CancelsOwn`, `RunningIsTrue`, `KeepsMessages` | `HoldInv`, `Flagged`, `Told`, `Snapshots` |
| `AgentGraph_proofs` | `TypeCorrect`, `Granted`, `Declined`, `StaysOpen`, `ResultsOfTheGraph`, `HandsOffOnce` | `TypeInv`, `GateInv`, `PatchInv`, `HandInv` |
| `Conversation_proofs` | `EndsTheStream`, `RecordsTurns`, `CountsWatchers` | `Safe` |
| `LongTermMemory_proofs` | `IsolatesTheCache`, `KeepsHeirs`, `IsolatesTheTurns` | `MemInv` |
| `Stages_proofs` | of `Answer`: `TypeCorrect`, `GroundsSuccess`, `SaysNothingDone`, `RemembersAnswers`; of `Planner`: `RejectedLeave`, `PartialIsSaid`; of `GraphPasses`: `GraphTypeCorrect`, `SchedulesSurvivors` | `EarnedInv`; `PlanInv`; `PassesInv` |
| `Calls_proofs` | of `LlmCalls`: `BoundsAttempts`, `ReplaysNothing`, `FailsAtOnce`; of `ToolCalls`: `FiresOnce`, `AnswersSuccess` | `CallInv`; `ToolInv` |

**The ledger.**  `OneCallerPerKey` is not inductive: nothing in it says why a
second executor cannot pass the claim.  `IInv` adds the shape of a row (a result
has neither token nor lease), that a task which holds a claim under a running
timeout is the token of its row, and that the lease of such a row outlives what
is left of the timeout (`ClaimsHeld`, which is where `LeaseCoversPlan` is used),
and that an executor that has not armed its timeout has no task past its start
(`FreshStart`).  The refinement and the action properties follow from a lemma
that classifies what any step does to one row (`RowSteps`).  `SucceedsOnce`
speaks of waves that never overlap, so `OnceInv` follows each task's path: which
steps it can have come from (`Paths`, `Reaches`), that a success over the row
left a result there (`Records`), and that only one task can have (`Once`).

**Tasks.**  Four invariants, one for each property.  `CancelInv`: a task that
was cancelled in time keeps its flag, which pausing never sets, and the lease is
granted only to a row without one.  `AckInv`: a worker on its way to acknowledge
has settled the entry it will acknowledge. `CronInv`: the posts of a recurring
task plus what the scheduler has already taken in hand do not exceed its
periods.  `LeaseInv` relates the clock of a worker to the lease of its row: what
is left of the lease plus the time since the last beat plus a beat for every
failed call is at least the lease; the theorem holds where one more beat fits
(`Covered`), and in every run whose bound on failures satisfies that.

**Session runs.**  `HoldInv` follows a run through its lock: what the lock's
token means at each await, that a run between its lock and its release is either
its holder or one that Redis left without an answer, and that the countdowns of
lock and heartbeat leave room for one another (`missed` beats counted).
`Flagged` says for whom a flag is set, `Told` whose status the checkpoint shows,
`Snapshots` that, while Redis serves every run, the channels of the run with the
stream are the messages of the checkpoint.  The last is the argument that reading
the history before the lock takes nothing out of the checkpoint but what the
window does: the run merges what it read into the checkpoint it finds under the
lock.  `MessagesKept` bounds
what leaves, not what comes back: history that is merged late re-enters behind
newer messages (`WindowRolls`, refuted).

**The agent graph.**  `GateInv` ties the decision, the open approval and the
grant of the turn to the node that runs next: a turn is beyond the gate only
with a grant that this turn's gate gave.  `PatchInv` says that a graph patch is
empty until a retry is counted, although the channel survives from turn to turn.
`HandInv` is about the runs given to the background workers: a turn that has
handed its run off and not replanned since stands in the part of the graph
behind the executor, and up to the reflection with no failed operation, so that
there is nothing to retry.  `OneHandoff` has the exception for a replan because
the proof needed it and the code does too: a run with reducers goes on to the
aggregator after it was handed off, what the validator finds missing can be
replanned, and the new plan is handed off again, once for each replan round the
settings allow.

**Conversation.**  `Safe` says for each request where its run, its queue, its
observer and its record are in step (`Sound`): the closing event is the last of
the queue and is put there after every other; a turn that is recorded has the
user's message, has an answer exactly when its run gave one, and has both at one
time; one that is not recorded has neither.  `WatchersAreCounted` begins where
the handler counts: a request that still awaits its session or its runner, and a
websocket, watch uncounted.

**Memory.**  `MemInv`: an artifact row is active, owned and untouched by merges
(`Cached`), so that a hit is the session's own or one of a public operation; a
row's heir was stored (`Inherited`); a writer's goal is a row that its search
could find (`Aimed`); and rows recalled by a session are its own until
maintenance runs (`Alone`).

**Answers.**  `EarnedInv` says what has been established at each stage: text past
the floor engages every artifact, text past the gate leaves nothing unnamed.

**Planning.**  Neither property is inductive.  `RejectedPlansLeave` lets a plan
stay while a session judges it, but says nothing of whether that session will
find it: its removal reaches Redis only while Redis answers, and otherwise the
memory of its own process.  `CacheInv` adds that the session is the one that
filed the plan, as it is filed, in a place it can reach, by the intents of the
key's message (`Claims`); then each way out of judging either accepts the plan,
removes it, or leaves it over.  The hypotheses of the theorems are empty: what a
plan is bound, collapsed and stripped to does not matter, only that the plan
filed is the plan judged.  `Owned` says the other property of every plan from
the moment it is accepted, provided it was judged by its own message's intents,
and follows the decision of the validator: nothing found, something dropped with
an error, or found and on record.

**Compiling.**  `SurvivorsScheduled` is about the end of a pipeline, and every pass
has to keep it, so it is proved of the pipeline: `Faithful` says of a graph that
its nodes are nodes of the plan with no placeholders but theirs (`OfThePlan`),
that its waves partition them in the order of what the plan has them wait for
(`Scheduled`), and that what is gone could go (`Accounted`).  It relates pairs of
calls that are both left.  It says nothing of a call whose producer was merged
away, of the placeholders in a map's body, or of a write that was taken for a
pass-through, because the code gives nothing there.  What code generation builds is
faithful, and one lemma for each pass says that the pass leaves a faithful graph
faithful.  The waves are a recursive function, the rounds of Kahn's algorithm.
The prover cannot instantiate the library's induction rules, so the lemmas about
them (`ReachedRounds`, `RoundsGrow`) argue by the least round that is a
counterexample, which `LeastNatural` takes from the well-foundedness of the
natural numbers.

**Model calls.**  `CallInv` bounds attempts, probes of the prompt format
excluded, by the place in the chain and the retries of the place, and says when
a consumer has been given something.

**Tool calls.**  `ToolInv` gives every deed of a provider an attempt of its own:
what was done for a call, the requests nobody has answered and the request still
open are together no more than its attempts, and none is open while the call may
still be turned away.  A redirection repeats a request within an attempt, and a
read is free; both are told apart in `Open`.  Where one key is carried by every
attempt, or no second attempt is granted, the sum is one.

## What is only model-checked

- Liveness (`TasksSettle`, `ClaimsNeverBlockForever`, `MaintenanceEnds`): the
  prover has no rule for fairness over `ENABLED`.  Every other property of a
  run that is expected to pass is a theorem too.
- `LlmCalls!TypeOK` is kept as documentation; a prompt's size is a fold.

## What is not modelled

What is detected in a text, and the planner's prompts (their answers are inputs
of `AgentGraph` and `Planner`);
the coercion of a tool's inputs (that they do not fit in the end is an outcome,
`Unfit` in `ToolCalls`), its credentials, the tracker of latencies, which nobody
reads, and the tool registry;
the slots and captures of an interactive workflow, whose node is modelled by
what it returns; the computed fields of input enrichment; the branch of the
router for a message that was rejected, since every turn starts with "allow" and
no node changes it; `recover` and `resume` of the runner, which nothing calls;
the outbox table; the API of workflow definitions and projects;
the circuit breakers, which no caller registers, and the saga coordinator, which
no caller starts; the dead-letter queue; plain reads and lists of the API; fork
and the context window of sessions; settings, telemetry and wiring; the client
programs and scripts of the repository.  The graph library, the checkpointer,
PostgreSQL, Redis and LiteLLM are external and modelled from how the code uses
them: a call takes effect at once or fails.

`TaskQueue` has two constants that stand for facts outside the repository:
`ReplyIsFields` (whether the reply of `XCLAIM` is what `_decode` expects) and
`Prompt` (a worker takes its steps before the next beat is due).

## What the models say about the code

Two divergences are checked as runs:

- `release_doc`: `docs/invariants.md` says that only definite failures release a
  claim; the executor releases it after a per-tool timeout too, when the call
  may have had its effect (`concurrent_executor.py:1017`).
- `approval_doc`: `approval_checkpoint_resume_node.py` says that an approval
  resumes the graph; it clears the pending approval before the gate can bind it
  to the operation, so the approved operation is not executed in that turn.

Others were met while modelling and are in the models as the code has them:

- The waves after the first run without the global timeout (`settings.py:373`
  says "for all execution waves"); they can outlive leases, and two tasks of one
  key may then both call. The properties say "within the global timeout" for
  that reason.
- A run that is cancelled inside its `finally` block before its heartbeat is
  stopped leaves it renewing the session lock (`runner.py:819`).
- The artifact graph of a session is reset before the lock is asked for, so a
  refused invocation clears what the running one has produced.
- An observer that stops reading with a full queue blocks the run, which holds
  the session lock; the comment at `chat.py:211` says otherwise.
- Answers over the websocket, and JSON replies that fail, are never recorded as
  messages; a shutdown does not wait for a run whose observer has left, for a
  websocket, or for a request that has passed the drain check and awaits its
  session or its runner (`chat.py:140`, `142`).
- A run that read the history before its lock merges it under the lock: what
  other runs rolled out of the window meanwhile comes back, behind newer
  messages that leave in its stead (`state_schema.py:248`, `WindowRolls`).
- A tool whose approval policy cannot be read passes the gate without a question
  (`multi_approval_gate_node.py:67-78`, `130-132`).
- The call that probes a model's prompt format is paid for and not counted as an
  attempt (`client.py:184`).
- Deduplication of memories reaches across sessions and overwrites the
  attribution of the row it updates, so that a session can be given what another
  one learnt (`RecallIsolates`).
- What the validator and the compiler leave in the checkpoint outlives the turn:
  rounds used, errors, the detected intents and the operations a replan set
  aside. A plan that a later turn takes from the cache is judged by the intents
  of the last message that was planned by the model, and after one compile error
  a session never reads the cache again. `NeverSilentlyPartial` therefore speaks
  of plans judged by the intents of their own message.
- What the comments of the compiler promise and the model refutes, each stated
  in `GraphPasses` with the line it quotes: a plan with a branch never compiles
  (`BranchesCompile`); the placeholders in a map's body order nothing
  (`MapsAreOrdered`, against `codegen.py:417`); after deduplication a write can
  run before the call its producer was merged into (`WavesFollowDeps`), and a
  placeholder can name a node that is gone (`PlaceholdersResolve`, both against
  `pass_deduplication.py:4-5`); a write taken for a pass-through is removed
  (`CallsAreNeverEliminated`, against `pass_dead_task_elimination.py:3-4`); what
  a profile or a renaming writes replaces a value the model gave
  (`InputsTakePrecedence`, against `input_enrichment.py:12-13`); a user of whom
  no permission is known is scored as one who has it (`UnknownIsNotPermitted`,
  against `resolver.py:226`); an operation that cannot be resolved compiles all
  the same (`UnresolvedNeverCompiles`, against `codegen.py:37-38`).
- Unresolved operations are reported and filtered, and are back in the plan when
  the list given to the binder is stored over the filtered one.
- The classifier's `needs_requirements` is dropped whenever a goal was
  recognized (`router.py`, `ExecutionGoals.from_values`): only a request without
  a goal reaches the requirement collector on the classifier's word.
- The parse cache does not keep a map's collection, so a cached plan with a map
  is always rejected; what the cache drops is meant to be surfaced, and the
  function that does it returns nothing.
- A background run with reducers can be replanned after it was handed off, and
  is handed to the workers again in the same turn, whatever the first run does.
- When the turn's calls are used up before unknown operations are mapped, the
  result of the mapping is read unassigned and the turn ends in an exception.
  When all six extractions of a plan fail, their calls are not counted.
- The dominant candidate is injected into an empty plan by code that an empty
  plan never reaches.
- When the last attempt of a tool times out, the response of an earlier attempt
  is still there and is what is reported (`executor.py`, `_build_result`).
- A write that is redirected with 301 to 303 becomes a read of the place it is
  sent to, whose answer is reported as the success of the write.
- The correction of inputs after an error is never reached: the statuses it is
  meant for are retried as transient before.
- When the event of a finished call cannot be published, the call raises after
  it has succeeded; an MCP server's error status raises and leaves no row.
- Reliability scores are read and written without a lock, so outcomes are lost;
  the row that the registry creates for a provider, whose name has a suffix, is
  found and never updated.
- The fallback chain changes models only when no provider is configured for one.

## Running it

`tlc -config MCRivals.cfg MCDurableExecution` and so on, by the table `runs` of
`PROJECT.json`; `tlapm SessionRuns_proofs.tla` and so on for the proofs.  The
longest runs take two to three minutes on two workers.
