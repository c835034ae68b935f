-------------------------- MODULE DurableExecution --------------------------
(***************************************************************************)
(* The durable idempotency ledger (execution/ledger.py) and the tasks of   *)
(* the wave executor that use it (ConcurrentExecutor._run and              *)
(* _execute_single).  One session.  An attempt is one task of one executor *)
(* instance; executor instances are the passes over a plan: the first one, *)
(* reflection retries, checkpoint resumes, a worker running the same plan. *)
(*                                                                         *)
(* Every await of the code is a boundary between two actions.  Time is     *)
(* kept as countdowns (what is left of a lease, what is left of an         *)
(* executor's global timeout), so no clock grows without bound.            *)
(***************************************************************************)
EXTENDS Integers, FiniteSets

CONSTANTS
    Attempt,        \* one run of one task by one executor instance
    Executor,       \* ConcurrentExecutor instances
    Key,            \* execution keys: SHA256(tool, resolved inputs)
    Arch,           \* architecture fingerprints
    Domain,         \* API hosts
    ExecOf,         \* [Attempt -> Executor]
    WaveOf,         \* [Attempt -> Nat], the wave of the plan the task is in
    KeyOf,          \* [Attempt -> Key]
    ArchOf,         \* [Executor -> Arch]
    DomainOf,       \* [Key -> Domain]
    Idempotent,     \* keys whose tool is declared idempotent
    Lease,          \* DEFAULT_LEASE_S, in ticks
    GlobalTimeout,  \* agent.global_execution_timeout_s, in ticks
    MaxRetries,     \* ExecutionTask.max_retries
    DomainCap,      \* tools.max_domain_concurrency
    MaxFaults,      \* bound: failing database operations explored
    None

ASSUME MappingAssumption ==
    /\ ExecOf \in [Attempt -> Executor]
    /\ WaveOf \in [Attempt -> Nat]
    /\ KeyOf \in [Attempt -> Key]
    /\ ArchOf \in [Executor -> Arch]
    /\ DomainOf \in [Key -> Domain]
    /\ Idempotent \subseteq Key

ASSUME BoundAssumption ==
    /\ Lease \in Nat
    /\ GlobalTimeout \in Nat
    /\ MaxRetries \in Nat
    /\ DomainCap \in Nat \ {0}
    /\ MaxFaults \in Nat

ASSUME NoneAssumption == None \notin Attempt /\ None \notin Arch

(* The shipped settings: a 60 s plan timeout under a 120 s lease.          *)
ASSUME LeaseCoversPlan == GlobalTimeout <= Lease

VARIABLES
    row,        \* completed_executions: Key -> row
    cache,      \* artifact memories: Key -> fingerprints with a raw result
    normCache,  \* artifact memories: Key -> fingerprints with a normalized one
    mode,       \* Executor -> "new", "armed" (timeout running), "late", "dead"
    left,       \* Executor -> ticks left of the global timeout while armed
    completed,  \* Executor -> _completed_keys
    pc,         \* Attempt -> where its coroutine is
    tries,      \* Attempt -> index of the retry loop
    outcome,    \* Attempt -> status it returned (or is about to return)
    durable,    \* attempts whose claim is on the row
    replayed,   \* attempts that answered with a recorded result
    registered, \* attempts that went through _register_artifact
    renormed,   \* attempts that normalized an already normalized payload
    fired,      \* attempts whose calls may have had their side effect
    faults      \* database failures so far

vars == <<row, cache, normCache, mode, left, completed, pc, tries, outcome,
          durable, replayed, registered, renormed, fired, faults>>

store == <<row, cache, normCache>>
exec  == <<mode, left>>
ghost == <<durable, replayed, registered, renormed, fired>>

-----------------------------------------------------------------------------

(* Where a coroutine is: each value names the await it has reached.  The   *)
(* attempts in Holding own a claim token that they have not given back.    *)
Holding == {"slot", "try", "call", "cacheput", "complete", "reuse",
            "reusenorm", "reject"}
Running == {"begin", "find", "claim", "recheck", "register", "release"}
               \cup Holding
PC      == {"idle", "done", "dead"} \cup Running

Status == {"none", "success", "error", "timeout", "uncertain"}

(* What is left of a lease: from Lease down to 0, and Lapsed once          *)
(* lease_expires_at is in the past.                                        *)
Lapsed == -1

(* A row that does not exist and a row without result and lease are the    *)
(* same to every operation of the store.                                   *)
Row == [result : {"none", "raw", "normalized"},
        token  : Attempt \cup {None},
        ttl    : -1 .. Lease,
        arch   : Arch \cup {None}]

NoRow == [result |-> "none", token |-> None, ttl |-> Lapsed, arch |-> None]

Fingerprint(a) == ArchOf[ExecOf[a]]

(* Definitions whose name starts with Slip are the next definition with one *)
(* plausible mistake; nothing uses them but the mutation checks.           *)
SlipReplayable(a) == row[KeyOf[a]].result # "none"

SlipClaimableLive(k) == row[k].result = "none"
SlipClaimableDone(k) == row[k].token = None \/ row[k].ttl = Lapsed
SlipClaimableFree(k) == row[k].result = "none" /\ row[k].token = None

(* SqlLedgerStore.find as _run reads it: a result of this architecture.    *)
(* An executor without a fingerprint would take any result; the            *)
(* fingerprint is the hash of a constant, and is always there.             *)
Replayable(a) == /\ row[KeyOf[a]].result # "none"
                 /\ row[KeyOf[a]].arch = Fingerprint(a)

(* SqlLedgerStore.claim: the insert wins on an absent row, the update on a *)
(* row with no result whose lease is NULL or in the past.                  *)
Claimable(k) == /\ row[k].result = "none"
                /\ row[k].token = None \/ row[k].ttl = Lapsed

ClaimedBy(a) == [result |-> row[KeyOf[a]].result, token |-> a,
                 ttl |-> Lease, arch |-> Fingerprint(a)]

(* The guard "WHERE lease_token = token" of complete and release.          *)
OwnsRow(a) == row[KeyOf[a]].token = a

(* SqlLedgerStore.complete and release; without the token, no row matches. *)
Recorded(r, form) ==
    [result |-> form, token |-> None, ttl |-> Lapsed, arch |-> r.arch]
Freed(r) == Recorded(r, r.result)

SlipCompleteRow(a, form) == row' = [row EXCEPT ![KeyOf[a]] = Recorded(@, form)]
SlipReleaseRow(a) == row' = [row EXCEPT ![KeyOf[a]] = Freed(@)]

CompleteRow(a, form) ==
    row' = IF OwnsRow(a) THEN [row EXCEPT ![KeyOf[a]] = Recorded(@, form)] ELSE row

ReleaseRow(a) ==
    row' = IF OwnsRow(a) THEN [row EXCEPT ![KeyOf[a]] = Freed(@)] ELSE row

Goto(a, l) == pc' = [pc EXCEPT ![a] = l]

(* The coroutine returns a ToolExecutionResult with this status.           *)
Return(a, status) ==
    /\ Goto(a, "done")
    /\ outcome' = [outcome EXCEPT ![a] = status]

AddCompleted(a) ==
    completed' = [completed EXCEPT ![ExecOf[a]] = @ \cup {KeyOf[a]}]

(* A database operation that raises: the ledger client degrades.           *)
Fault == /\ faults < MaxFaults
         /\ faults' = faults + 1

(* Attempts of e that the event loop has to settle before e goes on.       *)
InFlight(e) == {a \in Attempt : ExecOf[a] = e /\ pc[a] \in Running}

(* Tasks of e that have not started.                                       *)
Waiting(e) == {a \in Attempt : ExecOf[a] = e /\ pc[a] = "idle"}

Init ==
    /\ row = [k \in Key |-> NoRow]
    /\ cache = [k \in Key |-> {}]
    /\ normCache = [k \in Key |-> {}]
    /\ mode = [e \in Executor |-> "new"]
    /\ left = [e \in Executor |-> GlobalTimeout]
    /\ completed = [e \in Executor |-> {}]
    /\ pc = [a \in Attempt |-> "idle"]
    /\ tries = [a \in Attempt |-> 0]
    /\ outcome = [a \in Attempt |-> "none"]
    /\ durable = {}
    /\ replayed = {}
    /\ registered = {}
    /\ renormed = {}
    /\ fired = {}
    /\ faults = 0

-----------------------------------------------------------------------------
(* The executor: execute(), its timeout, a cancellation, a crash.          *)

StartExecutor(e) ==
    /\ mode[e] = "new"
    /\ mode' = [mode EXCEPT ![e] = "armed"]
    /\ UNCHANGED <<store, left, completed, pc, tries, outcome, ghost, faults>>

(* _execute_wave: once the previous wave has settled, every task of the    *)
(* next one is created.                                                    *)
StartWave(e) ==
    /\ mode[e] \in {"armed", "late"}
    /\ InFlight(e) = {}
    /\ \E w \in {WaveOf[a] : a \in Waiting(e)} :
          /\ \A a \in Waiting(e) : w <= WaveOf[a]
          /\ pc' = [a \in Attempt |-> IF a \in Waiting(e) /\ WaveOf[a] = w
                                      THEN "begin" ELSE pc[a]]
    /\ UNCHANGED <<store, exec, completed, tries, outcome, ghost, faults>>

(* Cancelled at the await it has reached, a coroutine is turned into an    *)
(* "uncertain" outcome by _guarded_run; the row keeps the claim.  A        *)
(* release that was being cancelled may have reached the database.         *)
CancelWave(e) ==
    /\ InFlight(e) # {}
    /\ pc' = [a \in Attempt |-> IF a \in InFlight(e) THEN "done" ELSE pc[a]]
    /\ outcome' = [a \in Attempt |-> IF a \in InFlight(e) THEN "uncertain"
                                                          ELSE outcome[a]]
    /\ \E freed \in SUBSET {KeyOf[b] : b \in {c \in InFlight(e) :
                             pc[c] \in {"reject", "release"} /\ OwnsRow(c)}} :
          row' = [k \in Key |-> IF k \in freed THEN Freed(row[k]) ELSE row[k]]
    /\ UNCHANGED <<cache, normCache, left, completed, tries, ghost, faults>>

(* asyncio.timeout(global_timeout) fires and cancels the wave that runs.   *)
(* _execute_wave swallows the cancellation and collects the outcomes, so   *)
(* later waves still start, with no timeout over them.                     *)
GlobalTimeoutFires(e) ==
    /\ mode[e] = "armed"
    /\ left[e] = 0
    /\ mode' = [mode EXCEPT ![e] = "late"]
    /\ CancelWave(e)

(* The invocation is cancelled (user, shutdown) while a wave runs.         *)
CancelInvocation(e) ==
    /\ mode[e] \in {"armed", "late"}
    /\ CancelWave(e)
    /\ UNCHANGED mode

(* The process dies: memory is lost, rows and memories stay.               *)
Crash(e) ==
    /\ mode[e] \in {"armed", "late"}
    /\ InFlight(e) # {}
    /\ mode' = [mode EXCEPT ![e] = "dead"]
    /\ pc' = [a \in Attempt |-> IF ExecOf[a] = e /\ pc[a] # "done"
                                THEN "dead" ELSE pc[a]]
    /\ UNCHANGED <<store, left, completed, tries, outcome, ghost, faults>>

(* Time passes for leases and armed timeouts.  A timeout that is due is    *)
(* handled before more time passes.                                        *)
Tick ==
    /\ \A e \in Executor : mode[e] = "armed" /\ InFlight(e) # {} => left[e] > 0
    /\ row' = [k \in Key |-> [row[k] EXCEPT !.ttl = IF @ = Lapsed THEN @ ELSE @ - 1]]
    /\ left' = [e \in Executor |-> IF mode[e] = "armed" /\ left[e] > 0
                                   THEN left[e] - 1 ELSE left[e]]
    /\ <<row, left>>' # <<row, left>>
    /\ UNCHANGED <<cache, normCache, mode, completed, pc, tries, outcome,
                   ghost, faults>>

-----------------------------------------------------------------------------
(* _run: placeholders, in-memory check, durable replay, claim, slot.       *)

(* What one of its placeholders names is missing or failed, or has no such *)
(* field: the exception is collected with the outcomes of the wave.        *)
Unresolved(a) ==
    /\ pc[a] = "begin"
    /\ Return(a, "error")
    /\ UNCHANGED <<store, exec, completed, tries, ghost, faults>>

(* A key this executor completed already: success, with whatever the task  *)
(* itself had accumulated, and no artifact.                                *)
IdempotentSkip(a) ==
    /\ pc[a] = "begin"
    /\ KeyOf[a] \in completed[ExecOf[a]]
    /\ Return(a, "success")
    /\ UNCHANGED <<store, exec, completed, tries, ghost, faults>>

Begin(a) ==
    /\ pc[a] = "begin"
    /\ KeyOf[a] \notin completed[ExecOf[a]]
    /\ Goto(a, "find")
    /\ UNCHANGED <<store, exec, completed, tries, outcome, ghost, faults>>

(* A recorded result of this architecture is replayed, and its artifact    *)
(* registered from the payload.  A payload recorded in normalized form     *)
(* lost its marker and is normalized again.                                *)
FindReplay(a) ==
    /\ pc[a] = "find"
    /\ Replayable(a)
    /\ AddCompleted(a)
    /\ Return(a, "success")
    /\ replayed' = replayed \cup {a}
    /\ registered' = registered \cup {a}
    /\ renormed' = IF row[KeyOf[a]].result = "normalized"
                   THEN renormed \cup {a} ELSE renormed
    /\ UNCHANGED <<store, exec, tries, durable, fired, faults>>

FindNothing(a) ==
    /\ pc[a] = "find"
    /\ ~Replayable(a)
    /\ Goto(a, "claim")
    /\ UNCHANGED <<store, exec, completed, tries, outcome, ghost, faults>>

(* find raises: the client answers None and _run goes on to claim.         *)
FindDegraded(a) ==
    /\ pc[a] = "find"
    /\ Fault
    /\ Goto(a, "claim")
    /\ UNCHANGED <<store, exec, completed, tries, outcome, ghost>>

ClaimWon(a) ==
    /\ pc[a] = "claim"
    /\ Claimable(KeyOf[a])
    /\ row' = [row EXCEPT ![KeyOf[a]] = ClaimedBy(a)]
    /\ durable' = durable \cup {a}
    /\ Goto(a, "slot")
    /\ UNCHANGED <<cache, normCache, exec, completed, tries, outcome, replayed,
                   registered, renormed, fired, faults>>

ClaimLost(a) ==
    /\ pc[a] = "claim"
    /\ ~Claimable(KeyOf[a])
    /\ Goto(a, "recheck")
    /\ UNCHANGED <<store, exec, completed, tries, outcome, ghost, faults>>

(* claim raises: the client hands out a token anyway.  The statement may   *)
(* have been committed before the connection failed.                       *)
ClaimDegraded(a) ==
    /\ pc[a] = "claim"
    /\ Fault
    /\ \/ UNCHANGED <<row, durable>>
       \/ /\ Claimable(KeyOf[a])
          /\ row' = [row EXCEPT ![KeyOf[a]] = ClaimedBy(a)]
          /\ durable' = durable \cup {a}
    /\ Goto(a, "slot")
    /\ UNCHANGED <<cache, normCache, exec, completed, tries, outcome, replayed,
                   registered, renormed, fired>>

(* The second look after a lost claim: replay (no artifact registered) ... *)
RecheckReplay(a) ==
    /\ pc[a] = "recheck"
    /\ Replayable(a)
    /\ AddCompleted(a)
    /\ Return(a, "success")
    /\ replayed' = replayed \cup {a}
    /\ UNCHANGED <<store, exec, tries, durable, registered, renormed, fired,
                   faults>>

(* ... or the explicit "execution already in progress" error.              *)
RecheckConflict(a) ==
    /\ pc[a] = "recheck"
    /\ ~Replayable(a)
    /\ Return(a, "error")
    /\ UNCHANGED <<store, exec, completed, tries, ghost, faults>>

RecheckDegraded(a) ==
    /\ pc[a] = "recheck"
    /\ Fault
    /\ Return(a, "error")
    /\ UNCHANGED <<store, exec, completed, tries, ghost>>

(* The semaphore of the domain, held over _execute_single and the release. *)
InSlot == (Holding \ {"slot"}) \cup {"register", "release"}

SlotUsers(e, d) == {b \in Attempt : /\ ExecOf[b] = e
                                    /\ DomainOf[KeyOf[b]] = d
                                    /\ pc[b] \in InSlot}

SlipTakeSlot(a) ==
    /\ pc[a] = "slot"
    /\ Cardinality(SlotUsers(ExecOf[a], DomainOf[KeyOf[a]])) < DomainCap - 1
    /\ Goto(a, "try")
    /\ UNCHANGED <<store, exec, completed, tries, outcome, ghost, faults>>

TakeSlot(a) ==
    /\ pc[a] = "slot"
    /\ Cardinality(SlotUsers(ExecOf[a], DomainOf[KeyOf[a]])) < DomainCap
    /\ Goto(a, "try")
    /\ UNCHANGED <<store, exec, completed, tries, outcome, ghost, faults>>

-----------------------------------------------------------------------------
(* _execute_single: cache, budget, call, retry, recording of the result.   *)

(* The tool is not in the map, or the tool-call budget is used up: the     *)
(* claim is released here, and again by _run.                              *)
Refuse(a) ==
    /\ pc[a] = "try"
    /\ Goto(a, "reject")
    /\ outcome' = [outcome EXCEPT ![a] = "error"]
    /\ UNCHANGED <<store, exec, completed, tries, ghost, faults>>

FirstRelease(a) ==
    /\ pc[a] = "reject"
    /\ \/ ReleaseRow(a) /\ UNCHANGED faults
       \/ Fault /\ UNCHANGED row
    /\ Goto(a, "release")
    /\ UNCHANGED <<cache, normCache, exec, completed, tries, outcome, ghost>>

(* A cached artifact of this key and architecture answers for the call: in *)
(* its normalized form if that was cached too, and else the raw payload,   *)
(* which is normalized (and cached so) on registration.                    *)
CacheHit(a) ==
    /\ pc[a] = "try"
    /\ Fingerprint(a) \in cache[KeyOf[a]]
    /\ KeyOf[a] \notin completed[ExecOf[a]]
    /\ AddCompleted(a)
    /\ registered' = registered \cup {a}
    /\ \/ /\ Fingerprint(a) \in normCache[KeyOf[a]]
          /\ Goto(a, "reusenorm")
          /\ UNCHANGED normCache
       \/ /\ Goto(a, "reuse")
          /\ normCache' = [normCache EXCEPT ![KeyOf[a]] = @ \cup {Fingerprint(a)}]
    /\ UNCHANGED <<row, cache, exec, tries, outcome, durable, replayed, renormed,
                   fired, faults>>

(* The payload that answered, stripped of its marker, completes the row.   *)
CompleteReuse(a) ==
    /\ pc[a] \in {"reuse", "reusenorm"}
    /\ \/ /\ CompleteRow(a, IF pc[a] = "reuse" THEN "raw" ELSE "normalized")
          /\ UNCHANGED faults
       \/ Fault /\ UNCHANGED row
    /\ Return(a, "success")
    /\ UNCHANGED <<cache, normCache, exec, completed, tries, ghost>>

(* No usable cache entry (none, a read error, another registry or schema   *)
(* fingerprint): the budget is consumed and the tool is called.            *)
StartCall(a) ==
    /\ pc[a] = "try"
    /\ Goto(a, "call")
    /\ fired' = fired \cup {a}
    /\ UNCHANGED <<store, exec, completed, tries, outcome, durable, replayed,
                   registered, renormed, faults>>

CallSucceeds(a) ==
    /\ pc[a] = "call"
    /\ Goto(a, "cacheput")
    /\ UNCHANGED <<store, exec, completed, tries, outcome, ghost, faults>>

(* The retry budget is metadata-driven: none for a non-idempotent tool.    *)
TaskRetries(a) == IF KeyOf[a] \in Idempotent THEN MaxRetries ELSE 0

(* After an error that is worth another attempt: next index of the loop,   *)
(* or the loop is over and the task has failed.                            *)
SlipRetryOr(a, status) ==
    IF tries[a] <= TaskRetries(a)
    THEN /\ tries' = [tries EXCEPT ![a] = @ + 1]
         /\ Goto(a, "try")
         /\ UNCHANGED outcome
    ELSE /\ Goto(a, "release")
         /\ outcome' = [outcome EXCEPT ![a] = status]
         /\ UNCHANGED tries

RetryOr(a, status) ==
    IF tries[a] < TaskRetries(a)
    THEN /\ tries' = [tries EXCEPT ![a] = @ + 1]
         /\ Goto(a, "try")
         /\ UNCHANGED outcome
    ELSE /\ Goto(a, "release")
         /\ outcome' = [outcome EXCEPT ![a] = status]
         /\ UNCHANGED tries

(* What is known of the side effect when the call at hand left none: an    *)
(* earlier try may have.                                                   *)
NotFired(a) == IF tries[a] = 0 THEN fired \ {a} ELSE fired

(* Nothing reached the provider's side effect: rejected inputs, 4xx.       *)
CallRejected(a) ==
    /\ pc[a] = "call"
    /\ fired' = NotFired(a)
    /\ Goto(a, "release")
    /\ outcome' = [outcome EXCEPT ![a] = "error"]
    /\ UNCHANGED <<store, exec, completed, tries, durable, replayed, registered,
                   renormed, faults>>

(* The provider answered and the answer fails the output schema: permanent *)
(* (no candidate endpoint left), though the side effect is there.          *)
OutputRejected(a) ==
    /\ pc[a] = "call"
    /\ Goto(a, "release")
    /\ outcome' = [outcome EXCEPT ![a] = "error"]
    /\ UNCHANGED <<store, exec, completed, tries, ghost, faults>>

(* Transient: 5xx and transport errors, after which the side effect may be *)
(* there, or an open circuit and a rate limit, after which it is not.  A   *)
(* contract error of an idempotent tool with a candidate endpoint left     *)
(* takes the next index of the loop too.                                   *)
CallTransient(a) ==
    /\ pc[a] = "call"
    /\ fired' \in {fired, NotFired(a)}
    /\ RetryOr(a, "error")
    /\ UNCHANGED <<store, exec, completed, durable, replayed, registered,
                   renormed, faults>>

(* asyncio.wait_for(..., timeout) gives up on the call.                    *)
CallTimesOut(a) ==
    /\ pc[a] = "call"
    /\ RetryOr(a, "timeout")
    /\ UNCHANGED <<store, exec, completed, ghost, faults>>

(* The result is cached (cacheable tools; a write error is ignored), the   *)
(* key joins _completed_keys ...                                           *)
CachePut(a) ==
    /\ pc[a] = "cacheput"
    /\ cache' \in {cache, [cache EXCEPT ![KeyOf[a]] = @ \cup {Fingerprint(a)}]}
    /\ AddCompleted(a)
    /\ Goto(a, "complete")
    /\ UNCHANGED <<row, normCache, exec, tries, outcome, ghost, faults>>

(* ... the ledger row is completed ...                                     *)
Complete(a) ==
    /\ pc[a] = "complete"
    /\ \/ CompleteRow(a, "raw") /\ UNCHANGED faults
       \/ Fault /\ UNCHANGED row
    /\ Goto(a, "register")
    /\ UNCHANGED <<cache, normCache, exec, completed, tries, outcome, ghost>>

(* ... and the artifact is normalized, cached and registered.              *)
Register(a) ==
    /\ pc[a] = "register"
    /\ normCache' \in {normCache,
                        [normCache EXCEPT ![KeyOf[a]] = @ \cup {Fingerprint(a)}]}
    /\ registered' = registered \cup {a}
    /\ Return(a, "success")
    /\ UNCHANGED <<row, cache, exec, completed, tries, durable, replayed,
                   renormed, fired, faults>>

(* _run releases the claim for every status but success and uncertain.     *)
Release(a) ==
    /\ pc[a] = "release"
    /\ \/ ReleaseRow(a) /\ UNCHANGED faults
       \/ Fault /\ UNCHANGED row
    /\ Goto(a, "done")
    /\ UNCHANGED <<cache, normCache, exec, completed, tries, outcome, ghost>>

-----------------------------------------------------------------------------

ExecutorStep(e) == \/ StartExecutor(e) \/ StartWave(e) \/ GlobalTimeoutFires(e)

Disruption(e) == CancelInvocation(e) \/ Crash(e)

LedgerStep(a) == \/ Unresolved(a) \/ IdempotentSkip(a) \/ Begin(a)
                 \/ FindReplay(a) \/ FindNothing(a) \/ FindDegraded(a)
                 \/ ClaimWon(a) \/ ClaimLost(a) \/ ClaimDegraded(a)
                 \/ RecheckReplay(a) \/ RecheckConflict(a) \/ RecheckDegraded(a)
                 \/ TakeSlot(a)

CallStep(a) == \/ Refuse(a) \/ FirstRelease(a)
               \/ CacheHit(a) \/ CompleteReuse(a)
               \/ StartCall(a) \/ CallSucceeds(a) \/ CallRejected(a)
               \/ OutputRejected(a) \/ CallTransient(a) \/ CallTimesOut(a)
               \/ CachePut(a) \/ Complete(a) \/ Register(a) \/ Release(a)

(* Every task has settled, or its process is gone.                         *)
Terminated ==
    /\ \A a \in Attempt : pc[a] \in {"done", "dead"}
    /\ \A k \in Key : row[k].ttl = Lapsed
    /\ UNCHANGED vars

Next == \/ \E e \in Executor : ExecutorStep(e) \/ Disruption(e)
        \/ \E a \in Attempt : LedgerStep(a) \/ CallStep(a)
        \/ Tick
        \/ Terminated

Spec == Init /\ [][Next]_vars

(* The event loop runs every coroutine and timer that is ready, and time   *)
(* passes; nothing forces a cancellation or a crash.                       *)
FairSpec == /\ Spec
            /\ \A e \in Executor : WF_vars(ExecutorStep(e))
            /\ \A a \in Attempt : WF_vars(LedgerStep(a) \/ CallStep(a))
            /\ WF_vars(Tick)

-----------------------------------------------------------------------------
(* Properties.                                                             *)

(* Every variable stays in its type.                                       *)
TypeOK ==
    /\ row \in [Key -> Row]
    /\ cache \in [Key -> SUBSET Arch]
    /\ normCache \in [Key -> SUBSET Arch]
    /\ mode \in [Executor -> {"new", "armed", "late", "dead"}]
    /\ left \in [Executor -> 0 .. GlobalTimeout]
    /\ completed \in [Executor -> SUBSET Key]
    /\ pc \in [Attempt -> PC]
    /\ tries \in [Attempt -> 0 .. MaxRetries]
    /\ outcome \in [Attempt -> Status]
    /\ durable \in SUBSET Attempt
    /\ replayed \in SUBSET Attempt
    /\ registered \in SUBSET Attempt
    /\ renormed \in SUBSET Attempt
    /\ fired \in SUBSET Attempt
    /\ faults \in 0 .. MaxFaults

(* An attempt that still owns its claim under a running global timeout.    *)
Protected(a) == /\ a \in durable
                /\ pc[a] \in Holding
                /\ mode[ExecOf[a]] = "armed"

(* "Exactly one attempt wins the claim for a key" (ledger.py): two tasks   *)
(* of whatever executors never have a call to the tool in flight for one   *)
(* key, while their claims reached the database and their plans are within *)
(* the global timeout.                                                     *)
OneCallerPerKey ==
    \A a, b \in Attempt :
        /\ a # b /\ KeyOf[a] = KeyOf[b]
        /\ Protected(a) /\ Protected(b)
        => ~(pc[a] = "call" /\ pc[b] = "call")

(* "A completed result is replayed, never re-executed" (ledger.py): while  *)
(* such a task has its call in flight, no result stands on its row.        *)
NoCallOnceCompleted ==
    \A a \in Attempt : Protected(a) /\ pc[a] = "call"
                         => row[KeyOf[a]].result = "none"

(* "Results from a different architecture are never replayed": what a task *)
(* answered from the ledger is what the row still holds, recorded under    *)
(* the task's own fingerprint (find and re-check of _run).                 *)
ReplayedWasRecorded ==
    \A a \in replayed : /\ row[KeyOf[a]].result # "none"
                         /\ row[KeyOf[a]].arch = ArchOf[ExecOf[a]]

(* Tasks that share a key, in one wave or in several, of one plan or of    *)
(* many: while the database answers and their plans are within the global  *)
(* timeout, at most one of them succeeds by calling the tool; the others   *)
(* wait for nothing: they replay, skip or report the conflict.  (The waves *)
(* that start after the timeout have none over them and outlive leases.)   *)
SucceedsOnce ==
    faults = 0 =>
        \A a, b \in fired : /\ a # b /\ KeyOf[a] = KeyOf[b]
                            /\ mode[ExecOf[a]] = "armed" /\ mode[ExecOf[b]] = "armed"
                            => ~(outcome[a] = "success" /\ outcome[b] = "success")

(* A result, once on the row, is never overwritten, released or claimed    *)
(* again, whatever late completions and releases are still under way.      *)
CompletedIsFinal ==
    [][\A k \in Key : row[k].result # "none" => row'[k] = row[k]]_vars

(* While its lease lives, a claim ends only by a step of its owner; the    *)
(* claim of a task that was cancelled or died during its call therefore    *)
(* stands until the lease expires ("uncertain never releases").            *)
LiveClaimStands ==
    [][\A a \in Attempt :
          OwnsRow(a) /\ row[KeyOf[a]].ttl # Lapsed
          => OwnsRow(a)' \/ pc'[a] # pc[a]]_vars

(* A task that was started settles or dies with its process: conflicts,    *)
(* lost claims, full domains, retries and timeouts never leave it waiting. *)
TasksSettle ==
    \A a \in Attempt : pc[a] = "begin" ~> pc[a] \in {"done", "dead"}

(* "A stale lease can be reclaimed - crash recovery is safe": no claim     *)
(* blocks its key for ever, its owner crashed, cancelled or unable to      *)
(* reach the database.                                                     *)
ClaimsNeverBlockForever ==
    \A k \in Key : row[k].token # None
                     ~> Claimable(k) \/ row[k].result # "none"

(* What the ledger promises to its users, key by key.                      *)
Contract == INSTANCE LedgerContract WITH
    phase <- [k \in Key |->
                CASE row[k].result # "none" -> "done"
                  [] row[k].result = "none" /\ row[k].token = None -> "open"
                  [] row[k].result = "none" /\ row[k].token # None
                        -> IF row[k].ttl = Lapsed THEN "lapsed" ELSE "held"],
    holder <- [k \in Key |-> row[k].token]

(* The SQL statements of the store, interleaved with time, cancellation,   *)
(* crashes and late writers, implement the contract of ledger.py.          *)
ImplementsContract == Contract!Spec

-----------------------------------------------------------------------------
(* What the documentation says and the code does not do.                   *)

(* docs/invariants.md, I5: "definite failures release the lease;           *)
(* uncertain never releases": a claim of a non-idempotent tool is given up *)
(* without a result only when its calls cannot have had a side effect.     *)
ReleaseIsDefinite ==
    [][\A a \in Attempt :
          /\ KeyOf[a] \notin Idempotent
          /\ OwnsRow(a) /\ row'[KeyOf[a]].token = None
          /\ row'[KeyOf[a]].result = "none"
          => a \notin fired]_vars

(* ledger.py: an attempt that does not win the claim observes "the         *)
(* completed result (reuse) or a held lease (explicit outcome)".           *)
LosersSeeResultOrLease ==
    [][\A a \in Attempt :
          pc[a] = "claim" /\ pc'[a] = "recheck"
          => Replayable(a) \/ row[KeyOf[a]].token # None]_vars

(* concurrent_executor.py, ledger reuse: "The execution->artifact          *)
(* invariant requires an artifact per success".                            *)
ReplayRegistersArtifact == replayed \subseteq registered

(* graph.py, executor_node: "every SUCCESS outcome must have a registered  *)
(* artifact in the ArtifactGraph".                                         *)
SuccessHasArtifact ==
    \A a \in Attempt : pc[a] = "done" /\ outcome[a] = "success"
                         => a \in registered

(* concurrent_executor.py, _register_artifact: "a normalized payload is    *)
(* self-describing and can never be normalized twice".                     *)
NeverNormalizedTwice == renormed = {}

(* concurrent_executor.py, execute: "global_timeout: Max seconds for the   *)
(* entire plan".                                                           *)
NoCallAfterGlobalTimeout ==
    [][\A a \in Attempt : mode[ExecOf[a]] = "late"
                            => ~(pc[a] = "try" /\ pc'[a] = "call")]_vars

=============================================================================
