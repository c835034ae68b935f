------------------------------- MODULE TaskQueue -------------------------------
(***************************************************************************)
(* Background tasks: the task table and its leases (tasks/registry.py),    *)
(* the workers that execute it (tasks/worker.py), the scheduler that posts *)
(* what is due (tasks/scheduler.py), the API that creates, pauses, resumes *)
(* and cancels tasks (api/tasks.py, and the graph's hand-off), and the     *)
(* consumer group they meet on (providers/queue/redis_streams.py).         *)
(*                                                                         *)
(* One action is one call of Redis or of the database.  What a task does,  *)
(* who owns it, its progress and the times in its row are left out.        *)
(***************************************************************************)
EXTENDS Integers, Sequences, FiniteSets

CONSTANTS
    Worker, Task, None,
    Kind,            \* by task: "now", "once", "cron" or "handoff"
    Handled,         \* the tasks whose type has a registered executor
    MaxAttempts,     \* max_attempts of the row
    Lease,           \* lease_s, in ticks
    Beat,            \* lease_s // 3, the heartbeat's sleep, in ticks
    ReplyIsFields,   \* XCLAIM's reply is what _decode expects
    Prompt,          \* a worker takes its steps before the next beat is due
    MaxEntries,      \* bound: entries of the stream
    MaxFaults,       \* bound: failed calls of Redis or of the database
    MaxCrashes,      \* bound: deaths of a worker, of the scheduler or of the API
    MaxOps           \* bound: pauses, resumptions and cancellations

ASSUME TaskNone == None \notin Worker \cup Task
ASSUME TaskKinds ==
    /\ Kind \in [Task -> {"now", "once", "cron", "handoff"}]
    /\ Handled \subseteq Task
ASSUME TaskBounds ==
    /\ {Lease, Beat, MaxAttempts} \subseteq Nat \ {0}
    /\ {MaxEntries, MaxFaults, MaxCrashes, MaxOps} \subseteq Nat
    /\ {ReplyIsFields, Prompt} \subseteq BOOLEAN

VARIABLES
    \* the task table, by task
    status,     \* "none" until the row exists
    holder,     \* worker_id
    ttl,        \* ticks until lease_expires_at is in the past
    attempts,
    cancel,     \* cancel_requested
    due,        \* next_run_at: "no", "later" or "now" (it has passed)
    \* the stream and its consumer group
    stream, read,
    pending,    \* entries delivered and not acknowledged
    stale,      \* those that have been idle for 30 seconds
    \* the calls in progress
    cpc,        \* by task: where the call that creates it is
    resuming,   \* by task: resume_task is about to enqueue it
    spc, todo,  \* the scheduler: where it is, and what is left of due_tasks()
    wpc, entry, \* by worker: where run_once is, and its stream entry
    beat,       \* by worker: ticks since its last heartbeat
    \* what has happened
    settled,    \* entries whose task a worker has completed, failed or cancelled
    spared,     \* tasks that were flagged while nobody executed them
    worked,     \* tasks whose last completed execution did the work
    posts,      \* by task: how often the scheduler has enqueued it
    periods,    \* by task: how often it has become due
    faults, crashes, ops

row == <<status, holder, ttl, attempts, cancel, due>>
queue == <<stream, read, pending, stale>>
calls == <<cpc, resuming>>
schedule == <<spc, todo>>
work == <<wpc, entry, beat>>
ghosts == <<settled, spared, worked, posts, periods>>
bounds == <<faults, crashes, ops>>
vars == <<row, queue, calls, schedule, work, ghosts, bounds>>

Lapsed == -1
Doing(w) == stream[entry[w]]

(* From the claim of the lease to its release; while the heartbeat runs.   *)
Leasing == {"start", "reject", "unlease", "run", "failing", "giveup", "acking", "finally"}
Leased(w) == wpc[w] \in Leasing
Beating(w) == wpc[w] \in {"run", "failing", "giveup", "acking"}

Fault == faults < MaxFaults /\ faults' = faults + 1 /\ UNCHANGED <<crashes, ops>>
Crash == crashes < MaxCrashes /\ crashes' = crashes + 1 /\ UNCHANGED <<faults, ops>>
Op == ops < MaxOps /\ ops' = ops + 1 /\ UNCHANGED <<faults, crashes>>

(* XADD.                                                                   *)
Enqueue(t) ==
    /\ Len(stream) < MaxEntries
    /\ stream' = Append(stream, t)
    /\ UNCHANGED <<read, pending, stale>>

-----------------------------------------------------------------------------
(* create_task and the hand-off of executor_node: the row, then the entry; *)
(* only the API then writes "queued".  A scheduled task waits for the      *)
(* scheduler, a cron without next_run_at for ever.                         *)
Create(t) ==
    /\ cpc[t] = "none"
    /\ status' = [status EXCEPT ![t] = "pending"]
    /\ \E d \in CASE Kind[t] = "once" -> {"later"}
                  [] Kind[t] = "cron" -> {"no", "later"}
                  [] OTHER -> {"no"} :
          due' = [due EXCEPT ![t] = d]
    /\ cpc' = [cpc EXCEPT ![t] = IF Kind[t] \in {"now", "handoff"} THEN "enqueue" ELSE "over"]
    /\ UNCHANGED <<holder, ttl, attempts, cancel, resuming, queue, schedule, work, ghosts, bounds>>

Post(t) ==
    /\ cpc[t] = "enqueue"
    /\ Enqueue(t)
    /\ cpc' = [cpc EXCEPT ![t] = IF Kind[t] = "now" THEN "mark" ELSE "over"]
    /\ UNCHANGED <<row, resuming, schedule, work, ghosts, bounds>>

PostFails(t) ==
    /\ cpc[t] = "enqueue" /\ Fault
    /\ cpc' = [cpc EXCEPT ![t] = "over"]
    /\ status' = [status EXCEPT ![t] = IF Kind[t] = "now" THEN "failed" ELSE @]
    /\ UNCHANGED <<holder, ttl, attempts, cancel, due, resuming, queue, schedule, work, ghosts>>

MarkQueued(t) ==
    /\ cpc[t] = "mark"
    /\ status' = [status EXCEPT ![t] = "queued"]
    /\ cpc' = [cpc EXCEPT ![t] = "over"]
    /\ UNCHANGED <<holder, ttl, attempts, cancel, due, resuming, queue, schedule, work, ghosts, bounds>>

(* pause, resume and cancel, whatever the status.                          *)
Pause(t) ==
    /\ status[t] # "none" /\ Op
    /\ status' = [status EXCEPT ![t] = "paused"]
    /\ UNCHANGED <<holder, ttl, attempts, cancel, due, queue, calls, schedule, work, ghosts>>

Resume(t) ==
    /\ status[t] # "none" /\ ~resuming[t] /\ Op
    /\ status' = [status EXCEPT ![t] = "queued"]
    /\ resuming' = [resuming EXCEPT ![t] = TRUE]
    /\ UNCHANGED <<holder, ttl, attempts, cancel, due, cpc, queue, schedule, work, ghosts>>

ResumePosts(t) ==
    /\ resuming[t]
    /\ Enqueue(t)
    /\ resuming' = [resuming EXCEPT ![t] = FALSE]
    /\ UNCHANGED <<row, cpc, schedule, work, ghosts, bounds>>

ResumeFails(t) ==
    /\ resuming[t] /\ Fault
    /\ resuming' = [resuming EXCEPT ![t] = FALSE]
    /\ UNCHANGED <<row, cpc, queue, schedule, work, ghosts>>

CancelTask(t) ==
    /\ status[t] # "none" /\ Op
    /\ cancel' = [cancel EXCEPT ![t] = TRUE]
    /\ spared' = spared \cup (IF \E w \in Worker : Leased(w) /\ Doing(w) = t THEN {} ELSE {t})
    /\ UNCHANGED <<status, holder, ttl, attempts, due, queue, calls, schedule, work,
                   settled, worked, posts, periods>>

ApiDies(t) ==
    /\ cpc[t] \in {"enqueue", "mark"} \/ resuming[t]
    /\ Crash
    /\ cpc' = [cpc EXCEPT ![t] = "over"]
    /\ resuming' = [resuming EXCEPT ![t] = FALSE]
    /\ UNCHANGED <<row, queue, schedule, work, ghosts>>

-----------------------------------------------------------------------------
(* The scheduler's tick: due_tasks(), then one task after the other.       *)
BecomesDue(t) ==
    /\ due[t] = "later" /\ periods[t] <= MaxEntries
    /\ due' = [due EXCEPT ![t] = "now"]
    /\ periods' = [periods EXCEPT ![t] = @ + 1]
    /\ UNCHANGED <<status, holder, ttl, attempts, cancel, queue, calls, schedule, work,
                   settled, spared, worked, posts, bounds>>

DueTasks == {t \in Task : status[t] \in {"pending", "queued"} /\ due[t] = "now"}

Go(at, t) == spc' = [at |-> at, task |-> t]

PollDue ==
    /\ spc.at = "idle" /\ DueTasks # {}
    /\ todo' = DueTasks
    /\ Go("next", None)
    /\ UNCHANGED <<row, queue, calls, work, ghosts, bounds>>

NextTask ==
    /\ spc.at = "next" /\ todo # {}
    /\ \E t \in todo :
          /\ todo' = todo \ {t}
          /\ Go(IF Kind[t] = "cron" THEN "mark" ELSE "enqueue", t)
    /\ UNCHANGED <<row, queue, calls, work, ghosts, bounds>>

EndTick ==
    /\ spc.at = "next" /\ todo = {}
    /\ Go("idle", None)
    /\ UNCHANGED <<row, todo, queue, calls, work, ghosts, bounds>>

MarkCron ==
    /\ spc.at = "mark"
    /\ status' = [status EXCEPT ![spc.task] = "queued"]
    /\ Go("advance", spc.task)
    /\ UNCHANGED <<holder, ttl, attempts, cancel, due, todo, queue, calls, work, ghosts, bounds>>

(* Slip: a recurring task keeps its next_run_at. *)
SlipAdvanceCron ==
    /\ spc.at = "advance"
    /\ Go("enqueue", spc.task)
    /\ UNCHANGED <<row, todo, queue, calls, work, ghosts, bounds>>

(* A recurring task gets its next time before it is posted.                *)
AdvanceCron ==
    /\ spc.at = "advance"
    /\ due' = [due EXCEPT ![spc.task] = "later"]
    /\ Go("enqueue", spc.task)
    /\ UNCHANGED <<status, holder, ttl, attempts, cancel, todo, queue, calls, work, ghosts, bounds>>

PostDue ==
    /\ spc.at = "enqueue"
    /\ Enqueue(spc.task)
    /\ posts' = [posts EXCEPT ![spc.task] = @ + 1]
    /\ IF Kind[spc.task] = "cron" THEN Go("next", None) ELSE Go("clear", spc.task)
    /\ UNCHANGED <<row, todo, calls, work, settled, spared, worked, periods, bounds>>

(* A one-shot task loses its time after it is posted.                      *)
ClearOnce ==
    /\ spc.at = "clear"
    /\ due' = [due EXCEPT ![spc.task] = "no"]
    /\ Go("next", None)
    /\ UNCHANGED <<status, holder, ttl, attempts, cancel, todo, queue, calls, work, ghosts, bounds>>

(* A failed enqueue or clearing is logged; another failure ends the tick.  *)
SchedulerFails ==
    /\ spc.at \in {"mark", "advance", "enqueue", "clear"} /\ Fault
    /\ IF spc.at \in {"enqueue", "clear"} THEN Go("next", None) /\ UNCHANGED todo
       ELSE Go("idle", None) /\ todo' = {}
    /\ UNCHANGED <<row, queue, calls, work, ghosts>>

SchedulerDies ==
    /\ spc.at # "idle" /\ Crash
    /\ Go("idle", None) /\ todo' = {}
    /\ UNCHANGED <<row, queue, calls, work, ghosts>>

SchedulerStep ==
    PollDue \/ NextTask \/ EndTick \/ MarkCron \/ AdvanceCron \/ PostDue \/ ClearOnce

-----------------------------------------------------------------------------
(* claim(): the first pending entry if it is idle for long enough, else    *)
(* the next new one.                                                       *)
Be(w, at) == wpc' = [wpc EXCEPT ![w] = at]

(* Slip: the first pending entry is claimed however young. *)
SlipRetryable(e) == \A f \in pending : e <= f

Retryable(e) == e \in stale /\ \A f \in pending : e <= f

(* A reply that _decode cannot read is an exception, caught by claim().    *)
TakeOver(w) ==
    /\ wpc[w] = "idle"
    /\ \E e \in pending :
          /\ Retryable(e)
          /\ stale' = stale \ {e}
          /\ IF ReplyIsFields THEN Be(w, "got") /\ entry' = [entry EXCEPT ![w] = e]
             ELSE UNCHANGED <<wpc, entry>>
    /\ UNCHANGED <<row, stream, read, pending, calls, schedule, beat, ghosts, bounds>>

PollNew(w) ==
    /\ wpc[w] = "idle" /\ read < Len(stream)
    /\ \A e \in pending : ~Retryable(e)
    /\ read' = read + 1
    /\ pending' = pending \cup {read + 1}
    /\ Be(w, "got")
    /\ entry' = [entry EXCEPT ![w] = read + 1]
    /\ UNCHANGED <<row, stream, stale, calls, schedule, beat, ghosts, bounds>>

GrowsStale(e) ==
    /\ e \in pending \ stale
    /\ stale' = stale \cup {e}
    /\ UNCHANGED <<row, stream, read, pending, calls, schedule, work, ghosts, bounds>>

-----------------------------------------------------------------------------
(* run_once: a task flagged before its pickup is cancelled.                *)
Check(w) ==
    /\ wpc[w] = "got"
    /\ IF cancel[Doing(w)]
       THEN /\ status' = [status EXCEPT ![Doing(w)] = "cancelled"]
            /\ settled' = settled \cup {entry[w]}
            /\ Be(w, "drop")
       ELSE Be(w, "lease") /\ UNCHANGED <<status, settled>>
    /\ UNCHANGED <<holder, ttl, attempts, cancel, due, queue, calls, schedule, entry, beat,
                   spared, worked, posts, periods, bounds>>

(* Slip: a lease is taken over while it is live. *)
SlipClaimable(t) == ~cancel[t]

(* Slip: the flag is not looked at. *)
SlipUnflagged(t) == ttl[t] = Lapsed

(* claim_lease's WHERE.                                                    *)
Claimable(t) == ~cancel[t] /\ ttl[t] = Lapsed

Claim(w) ==
    /\ wpc[w] = "lease"
    /\ IF Claimable(Doing(w))
       THEN /\ holder' = [holder EXCEPT ![Doing(w)] = w]
            /\ ttl' = [ttl EXCEPT ![Doing(w)] = Lease]
            /\ beat' = [beat EXCEPT ![w] = 0]
            /\ Be(w, "start")
       ELSE Be(w, "idle") /\ UNCHANGED <<holder, ttl, beat>>
    /\ UNCHANGED <<status, attempts, cancel, due, queue, calls, schedule, entry, ghosts, bounds>>

Start(w) ==
    /\ wpc[w] = "start"
    /\ status' = [status EXCEPT ![Doing(w)] = "running"]
    /\ Be(w, IF Doing(w) \in Handled THEN "run" ELSE "reject")
    /\ UNCHANGED <<holder, ttl, attempts, cancel, due, queue, calls, schedule, entry, beat, ghosts, bounds>>

(* mark_failed: no executor, or no attempt left.                           *)
Failed(w, next) ==
    /\ status' = [status EXCEPT ![Doing(w)] = "failed"]
    /\ settled' = settled \cup {entry[w]}
    /\ Be(w, next)
    /\ UNCHANGED <<holder, ttl, attempts, cancel, due, queue, calls, schedule, entry, beat,
                   spared, worked, posts, periods, bounds>>

Reject(w) == wpc[w] = "reject" /\ Failed(w, "unlease")
GiveUp(w) == wpc[w] = "giveup" /\ Failed(w, "acking")

(* The executor returns.  A handed-off run is "completed" whatever its     *)
(* events said: refused by the session's lock, or handed off again.        *)
Returns(w) ==
    /\ wpc[w] = "run"
    /\ status' = [status EXCEPT ![Doing(w)] = "completed"]
    /\ \E did \in IF Kind[Doing(w)] = "handoff" THEN BOOLEAN ELSE {TRUE} :
          worked' = IF did THEN worked \cup {Doing(w)} ELSE worked \ {Doing(w)}
    /\ settled' = settled \cup {entry[w]}
    /\ Be(w, "acking")
    /\ UNCHANGED <<holder, ttl, attempts, cancel, due, queue, calls, schedule, entry, beat,
                   spared, posts, periods, bounds>>

(* It raises, or mark_completed does.                                      *)
Raises(w) ==
    /\ wpc[w] = "run"
    /\ Be(w, "failing")
    /\ UNCHANGED <<row, queue, calls, schedule, entry, beat, ghosts, bounds>>

(* Slip: a failed attempt's entry is acknowledged at once. *)
SlipRegisterAttempt(w) ==
    /\ wpc[w] = "failing"
    /\ attempts' = [attempts EXCEPT ![Doing(w)] = IF @ < MaxAttempts THEN @ + 1 ELSE @]
    /\ Be(w, IF attempts'[Doing(w)] < MaxAttempts THEN "acking" ELSE "giveup")
    /\ UNCHANGED <<status, holder, ttl, cancel, due, queue, calls, schedule, entry, beat, ghosts, bounds>>

(* register_attempt (the count stops at the limit it is compared with).    *)
RegisterAttempt(w) ==
    /\ wpc[w] = "failing"
    /\ attempts' = [attempts EXCEPT ![Doing(w)] = IF @ < MaxAttempts THEN @ + 1 ELSE @]
    /\ Be(w, IF attempts'[Doing(w)] < MaxAttempts THEN "finally" ELSE "giveup")
    /\ UNCHANGED <<status, holder, ttl, cancel, due, queue, calls, schedule, entry, beat, ghosts, bounds>>

Acked(w) == IF wpc[w] = "acking" THEN "finally" ELSE "idle"

Ack(w) ==
    /\ wpc[w] \in {"acking", "drop"}
    /\ pending' = pending \ {entry[w]}
    /\ stale' = stale \ {entry[w]}
    /\ Be(w, Acked(w))
    /\ UNCHANGED <<row, stream, read, calls, schedule, entry, beat, ghosts, bounds>>

Released(w) == IF wpc[w] = "finally" THEN "idle" ELSE "drop"

(* Slip: the lease is released whoever holds it. *)
SlipOwnsLease(w) == TRUE

OwnsLease(w) == holder[Doing(w)] = w

Release(w) ==
    /\ wpc[w] \in {"finally", "unlease"}
    /\ IF OwnsLease(w)
       THEN /\ holder' = [holder EXCEPT ![Doing(w)] = None]
            /\ ttl' = [ttl EXCEPT ![Doing(w)] = Lapsed]
       ELSE UNCHANGED <<holder, ttl>>
    /\ Be(w, Released(w))
    /\ UNCHANGED <<status, attempts, cancel, due, queue, calls, schedule, entry, beat, ghosts, bounds>>

(* Slip: a heartbeat does not renew. *)
SlipHeartbeat(w) ==
    /\ Beating(w) /\ beat[w] = Beat
    /\ ttl' = [ttl EXCEPT ![Doing(w)] = Lapsed]
    /\ beat' = [beat EXCEPT ![w] = 0]
    /\ UNCHANGED <<status, holder, attempts, cancel, due, queue, calls, schedule, wpc, entry,
                   ghosts, bounds>>

(* The heartbeat renews the lease of its worker, a lapsed one too.         *)
Heartbeat(w) ==
    /\ Beating(w) /\ beat[w] = Beat
    /\ ttl' = IF OwnsLease(w) THEN [ttl EXCEPT ![Doing(w)] = Lease] ELSE ttl
    /\ beat' = [beat EXCEPT ![w] = 0]
    /\ UNCHANGED <<status, holder, attempts, cancel, due, queue, calls, schedule, wpc, entry,
                   ghosts, bounds>>

HeartbeatFails(w) ==
    /\ Beating(w) /\ beat[w] = Beat /\ Fault
    /\ beat' = [beat EXCEPT ![w] = 0]
    /\ UNCHANGED <<row, queue, calls, schedule, wpc, entry, ghosts>>

(* A failed call: out of run_once before its try statement, to the end of  *)
(* the attempts, past the acknowledgement, or swallowed.                   *)
CallFails(w) ==
    /\ Fault
    /\ \/ wpc[w] \in {"got", "lease", "start", "reject"} /\ Be(w, "idle")
       \/ wpc[w] = "failing" /\ Be(w, "giveup")
       \/ wpc[w] = "giveup" /\ Be(w, "finally")
       \/ wpc[w] \in {"acking", "drop"} /\ Be(w, Acked(w))
       \/ wpc[w] \in {"finally", "unlease"} /\ Be(w, Released(w))
    /\ UNCHANGED <<row, queue, calls, schedule, entry, beat, ghosts>>

(* A worker dies; another one starts in its place.                         *)
Dies(w) ==
    /\ wpc[w] # "idle" /\ Crash
    /\ Be(w, "idle")
    /\ UNCHANGED <<row, queue, calls, schedule, entry, beat, ghosts>>

WorkerStep(w) ==
    \/ TakeOver(w) \/ Check(w) \/ Claim(w) \/ Start(w) \/ Reject(w) \/ Returns(w) \/ Raises(w)
    \/ RegisterAttempt(w) \/ GiveUp(w) \/ Ack(w) \/ Release(w)

Tick ==
    /\ \E t \in Task : ttl[t] # Lapsed
    /\ Prompt => \A w \in Worker : Leased(w) => beat[w] < Beat
    /\ ttl' = [t \in Task |-> IF ttl[t] = Lapsed THEN Lapsed ELSE ttl[t] - 1]
    /\ beat' = [w \in Worker |-> IF Leased(w) /\ beat[w] < Beat THEN beat[w] + 1 ELSE beat[w]]
    /\ UNCHANGED <<status, holder, attempts, cancel, due, queue, calls, schedule, wpc, entry,
                   ghosts, bounds>>

-----------------------------------------------------------------------------
Init ==
    /\ status = [t \in Task |-> "none"] /\ holder = [t \in Task |-> None]
    /\ ttl = [t \in Task |-> Lapsed] /\ attempts = [t \in Task |-> 0]
    /\ cancel = [t \in Task |-> FALSE] /\ due = [t \in Task |-> "no"]
    /\ stream = <<>> /\ read = 0 /\ pending = {} /\ stale = {}
    /\ cpc = [t \in Task |-> "none"] /\ resuming = [t \in Task |-> FALSE]
    /\ spc = [at |-> "idle", task |-> None] /\ todo = {}
    /\ wpc = [w \in Worker |-> "idle"] /\ entry = [w \in Worker |-> 0]
    /\ beat = [w \in Worker |-> 0]
    /\ settled = {} /\ spared = {} /\ worked = {}
    /\ posts = [t \in Task |-> 0] /\ periods = [t \in Task |-> 0]
    /\ faults = 0 /\ crashes = 0 /\ ops = 0

(* A call of the API that has begun goes on.                               *)
Finishing(t) == Post(t) \/ MarkQueued(t) \/ ResumePosts(t)

ApiStep(t) ==
    \/ Create(t) \/ Finishing(t) \/ PostFails(t) \/ ApiDies(t)
    \/ Pause(t) \/ Resume(t) \/ ResumeFails(t) \/ CancelTask(t)

Next ==
    \/ \E t \in Task : ApiStep(t) \/ BecomesDue(t)
    \/ SchedulerStep \/ SchedulerFails \/ SchedulerDies
    \/ \E w \in Worker : WorkerStep(w) \/ PollNew(w) \/ Heartbeat(w) \/ HeartbeatFails(w)
                         \/ CallFails(w) \/ Dies(w)
    \/ \E e \in pending : GrowsStale(e)
    \/ Tick

Spec == Init /\ [][Next]_vars

(* Processes go on and time passes.  A worker polls every half second, a   *)
(* pending entry is claimed at most every 30: it often sees no such entry. *)
FairSpec ==
    /\ Spec
    /\ \A t \in Task : WF_vars(Finishing(t)) /\ WF_vars(BecomesDue(t))
    /\ WF_vars(SchedulerStep)
    /\ \A w \in Worker : WF_vars(WorkerStep(w)) /\ SF_vars(PollNew(w)) /\ WF_vars(Heartbeat(w))
    /\ \A e \in 1..MaxEntries : WF_vars(GrowsStale(e))
    /\ WF_vars(Tick)

-----------------------------------------------------------------------------
(* The types of the state, group by group.                                 *)
Status == {"none", "pending", "queued", "running", "paused", "completed", "failed", "cancelled"}

RowType ==
    /\ status \in [Task -> Status]
    /\ holder \in [Task -> Worker \cup {None}] /\ ttl \in [Task -> Lapsed..Lease]
    /\ attempts \in [Task -> 0..MaxAttempts] /\ cancel \in [Task -> BOOLEAN]
    /\ due \in [Task -> {"no", "later", "now"}]

QueueType ==
    /\ stream \in Seq(Task) /\ read \in 0..Len(stream)
    /\ pending \subseteq 1..read /\ stale \subseteq pending

CallsType ==
    /\ cpc \in [Task -> {"none", "enqueue", "mark", "over"}] /\ resuming \in [Task -> BOOLEAN]

ScheduleType ==
    /\ spc \in [at : {"idle", "next"}, task : {None}]
               \cup [at : {"mark", "advance", "enqueue", "clear"}, task : Task]
    /\ todo \subseteq Task

WorkType ==
    /\ wpc \in [Worker -> {"idle", "got", "lease", "drop"} \cup Leasing]
    /\ entry \in [Worker -> Nat] /\ beat \in [Worker -> 0..Beat]
    /\ \A w \in Worker : wpc[w] # "idle" => entry[w] \in 1..read

GhostsType ==
    /\ settled \subseteq 1..read /\ spared \subseteq Task /\ worked \subseteq Task
    /\ posts \in [Task -> Nat] /\ periods \in [Task -> Nat]

BoundsType == faults \in 0..MaxFaults /\ crashes \in 0..MaxCrashes /\ ops \in 0..MaxOps

TypeOK ==
    RowType /\ QueueType /\ CallsType /\ ScheduleType /\ WorkType /\ GhostsType /\ BoundsType

(* "exactly one worker may execute" (worker.py 95): while the heartbeats   *)
(* come and enough of them succeed, whatever the stream delivers again.    *)
OneExecutorPerTask ==
    \A v, w \in Worker : v # w /\ Leased(v) /\ Leased(w) => Doing(v) # Doing(w)

(* A task that is cancelled while nobody executes it is never executed:    *)
(* not by the worker that has read its row before, and not by a redelivery *)
(* (worker.py 84-93, registry.py 175).  A paused task has no flag, and is  *)
(* executed.                                                               *)
CancelledNeverStarts == \A w \in Worker : Leased(w) => Doing(w) \notin spared

(* What the row promises about leases, in the terms of the ledger's        *)
(* contract: one holder, and only time or the holder ends its lease.       *)
LeaseContract == INSTANCE LedgerContract WITH
    Key <- Task, Attempt <- Worker,
    phase <- [t \in Task |-> CASE holder[t] = None -> "open"
                               [] holder[t] # None /\ ttl[t] = Lapsed -> "lapsed"
                               [] holder[t] # None /\ ttl[t] # Lapsed -> "held"]

(* The table's leases implement that contract (registry.py, claim_lease,   *)
(* heartbeat and release_lease).                                           *)
ImplementsLease == LeaseContract!Spec

(* An entry leaves the consumer group only after its task was completed,   *)
(* failed for good or cancelled: a crash loses no task (worker.py).        *)
AckedWasSettled == \A e \in 1..read : e \notin pending => e \in settled

(* A recurring task is posted at most once for each time it becomes due,   *)
(* whatever fails in the tick (scheduler.py 44-46).                        *)
CronPostedOncePerPeriod == \A t \in Task : Kind[t] = "cron" => posts[t] <= periods[t]

(* Every entry is delivered to some worker, past those whose reply nobody  *)
(* can read (redis_streams.py, claim).                                     *)
EntriesDelivered == \A e \in 1..MaxEntries : Len(stream) >= e ~> read >= e

(* A lease ends, whatever happens to its holder.                           *)
LeasesEnd == \A t \in Task : holder[t] # None ~> ttl[t] = Lapsed

-----------------------------------------------------------------------------
(* What comments and documents say and the code does not do.               *)

(* "can only ever commit writes while it still owns the lease" (worker.py, *)
(* Worker): no result is written by a worker whose task another one took.  *)
CommitsUnderLease ==
    [][\A w \in Worker : wpc[w] = "run" /\ wpc'[w] = "acking" => OwnsLease(w)]_vars

(* "Pause a task (worker stops advancing it)" (api/tasks.py, pause_task).  *)
PausedIsNotAdvanced ==
    [][\A t \in Task : status[t] = "paused" => status'[t] \in {"paused", "queued"}]_vars

(* "one-shots fired every poll" is called the duplicate-run bug that was   *)
(* fixed (scheduler.py 55-58).                                             *)
OneShotPostedOnce == \A t \in Task : Kind[t] = "once" => posts[t] <= 1

(* A result says what the worker's run has done (executors.py 50).         *)
CompletedRunDidWork == \A t \in Task : status[t] = "completed" => t \in worked
=============================================================================
