----------------------------- MODULE SessionRuns -----------------------------
(***************************************************************************)
(* The invocations of one session (agent/runner.py): the checkpoint that a *)
(* run reads before it has the lock, the lock in Redis with the task that  *)
(* renews it, the cancel flag, the stream of node events and the finally   *)
(* block.  A run is a coroutine: one action is what it does from one await *)
(* to the next, and a cancellation strikes at an await.                    *)
(*                                                                         *)
(* The graph library and its checkpointer, and Redis, are external: their  *)
(* calls take effect at once or fail.                                      *)
(***************************************************************************)
EXTENDS Integers, FiniteSets

CONSTANTS
    Run,            \* invocations of the session
    Earlier,        \* messages of its earlier turns
    Window,         \* messages the reducer keeps: 10
    None,
    LockTtl,        \* agent.run_lock_ttl_s
    Beat,           \* what the heartbeat sleeps: a third of it, at least 1
    MaxSteps,       \* bound: node events of a run
    MaxFaults,      \* bound: calls to Redis and to the database that fail
    MaxCancels,     \* bound: cancellations of a coroutine
    MaxStops,       \* bound: stop requests
    MaxCrashes      \* bound: deaths of the process

ASSUME RunAssumption == None \notin Run

ASSUME WindowAssumption == Earlier \in Nat /\ Window \in Nat \ {0}

ASSUME BoundAssumption ==
    /\ Beat \in Nat \ {0} /\ LockTtl \in Nat /\ Beat < LockTtl
    /\ MaxSteps \in Nat /\ MaxFaults \in Nat /\ MaxCancels \in Nat
    /\ MaxStops \in Nat /\ MaxCrashes \in Nat

VARIABLES
    ckpt,       \* the latest checkpoint: status, messages, contract
    artifacts,  \* runs with results in the session's artifact graph
    lock,       \* the run whose token is in lock:agent_run
    ttl,        \* what is left of the lock's TTL
    flag,       \* nexus:cancel:agent_run is set
    pc,         \* the await at which each run is
    prior,      \* messages that each run read from the checkpoint
    mem,        \* messages in the channels of each stream
    steps,      \* node events of each run
    verdict,    \* _invocation_status, as each run has it
    renewing,   \* the heartbeat task of each run is alive
    beat,       \* what is left of its sleep
    \* History, for the properties.
    missed,     \* renewals of each run that failed since the last one
    blind,      \* runs that Redis gave no lock and no refusal
    deaf,       \* runs that could not clear the flag
    aimed,      \* runs that were in progress when the flag was set
    strayed,    \* runs that stopped for a flag not aimed at them
    unmarked,   \* runs whose end the checkpoint could not be told
    faults, cancels, stops, crashes

saved == <<ckpt, artifacts>>
locks == <<lock, ttl, renewing, beat, missed, blind>>
flags == <<flag, deaf, aimed, strayed>>
locals == <<prior, mem, steps, verdict>>
bounds == <<faults, cancels, stops, crashes>>
vars == <<saved, locks, flags, locals, pc, unmarked, bounds>>

-----------------------------------------------------------------------------
Abnormal == {"CANCELLED", "INTERRUPTED"}

Status == {"none", "RUNNING", "COMPLETED"} \cup Abnormal

(* Awaits: before the lock, in the try block, in its finally block.        *)
Before == {"read", "refuse", "reset", "lock"}
Streams == {"clear", "start", "stream", "event"}
Ends == {"else", "mark"}
Over == {"off", "refused", "done", "dead"}
Places == Before \cup Streams \cup Ends \cup {"beat", "release"} \cup Over

(* The run holds the session: from the lock to the end of its stream and   *)
(* its last write to the checkpoint.                                       *)
Holds(r) == pc[r] \in Streams \cup Ends

(* A history numbers the messages as they come in and keeps some of them.  *)
(* A message is the nth of a run (its request is the 0th) or of the turns  *)
(* before; one that lasts is a milestone.                                  *)
Message == [at : Nat, of : Run \cup {None}, n : Nat, lasts : BOOLEAN]
History == [top : Nat, kept : {S \in SUBSET Message : IsFiniteSet(S)}]
NoHistory == [top |-> 0, kept |-> {}]

After(h, m) == {x \in h.kept : x.at > m.at}

(* The reducer keeps the last ten messages, and the milestones.            *)
Windowed(h) ==
    [top |-> h.top, kept |-> {m \in h.kept : m.lasts \/ Cardinality(After(h, m)) < Window}]

Said(h, who, nth, lasting) ==
    [top |-> h.top + 1,
     kept |-> h.kept \cup {[at |-> h.top + 1, of |-> who, n |-> nth, lasts |-> lasting]}]

(* The first message of a session is a milestone.                          *)
OldHistory ==
    [top |-> Earlier,
     kept |-> {[at |-> k, of |-> None, n |-> k, lasts |-> k = 1] : k \in 1..Earlier}]

FirstCheckpoint ==
    {[status |-> "none", msgs |-> NoHistory, current |-> TRUE],
     [status |-> "CANCELLED", msgs |-> Windowed(OldHistory), current |-> TRUE],
     [status |-> "COMPLETED", msgs |-> Windowed(OldHistory), current |-> FALSE]}

Init ==
    /\ ckpt \in FirstCheckpoint
    /\ artifacts = {} /\ lock = None /\ ttl = 0 /\ flag = FALSE
    /\ pc = [r \in Run |-> "off"]
    /\ prior = [r \in Run |-> NoHistory] /\ mem = [r \in Run |-> NoHistory]
    /\ steps = [r \in Run |-> 0] /\ verdict = [r \in Run |-> "RUNNING"]
    /\ renewing = [r \in Run |-> FALSE] /\ beat = [r \in Run |-> 0]
    /\ missed = [r \in Run |-> 0]
    /\ blind = {} /\ deaf = {} /\ aimed = {} /\ strayed = {} /\ unmarked = {}
    /\ faults = 0 /\ cancels = 0 /\ stops = 0 /\ crashes = 0

Goto(r, place) == pc' = [pc EXCEPT ![r] = place]

Fault == faults < MaxFaults /\ faults' = faults + 1

Fine == UNCHANGED faults

NoOthers == UNCHANGED <<cancels, stops, crashes>>

-----------------------------------------------------------------------------
(* Before the lock.                                                        *)

Arrive(r) ==
    /\ pc[r] = "off"
    /\ Goto(r, "read")
    /\ UNCHANGED <<saved, locks, flags, locals, unmarked, bounds>>

(* A checkpoint of another contract is refused; after an abnormal end the  *)
(* status is reset first.  A failed read starts without history.           *)
ReadPrior(r) ==
    /\ pc[r] = "read"
    /\ IF ckpt.current
       THEN /\ prior' = [prior EXCEPT ![r] = ckpt.msgs]
            /\ IF ckpt.status \in Abnormal
               THEN Goto(r, "reset") /\ UNCHANGED artifacts
               ELSE Goto(r, "lock") /\ artifacts' = {}
       ELSE Goto(r, "refuse") /\ UNCHANGED <<prior, artifacts>>
    /\ Fine
    /\ UNCHANGED <<ckpt, locks, flags, mem, steps, verdict, unmarked>>
    /\ NoOthers

ReadFails(r) ==
    /\ pc[r] = "read" /\ Fault
    /\ Goto(r, "lock") /\ artifacts' = {}
    /\ UNCHANGED <<ckpt, locks, flags, locals, unmarked>> /\ NoOthers

(* The update with no messages adds none, and takes none away: a history   *)
(* the reducer has been over stays as it is.                               *)
Refuse(r) ==
    /\ pc[r] = "refuse"
    /\ \/ Fine /\ ckpt' = [ckpt EXCEPT !.current = TRUE]
       \/ Fault /\ UNCHANGED ckpt
    /\ Goto(r, "lock") /\ artifacts' = {}
    /\ UNCHANGED <<locks, flags, locals, unmarked>> /\ NoOthers

Reset(r) ==
    /\ pc[r] = "reset"
    /\ \/ Fine /\ ckpt' = [ckpt EXCEPT !.status = "COMPLETED"]
       \/ Fault /\ UNCHANGED ckpt
    /\ Goto(r, "lock") /\ artifacts' = {}
    /\ UNCHANGED <<locks, flags, locals, unmarked>> /\ NoOthers

-----------------------------------------------------------------------------
(* The lock and its heartbeat.                                             *)

SlipLockFree == TRUE

LockFree == lock = None

StartBeating(r) ==
    /\ renewing' = [renewing EXCEPT ![r] = TRUE]
    /\ beat' = [beat EXCEPT ![r] = Beat]

Acquire(r) ==
    /\ pc[r] = "lock" /\ LockFree
    /\ lock' = r /\ ttl' = LockTtl
    /\ StartBeating(r) /\ Goto(r, "clear")
    /\ UNCHANGED <<saved, missed, blind, flags, locals, unmarked, bounds>>

IsRefused(r) ==
    /\ pc[r] = "lock" /\ ~LockFree
    /\ Goto(r, "refused")
    /\ UNCHANGED <<saved, locks, flags, locals, unmarked, bounds>>

(* Without Redis the run goes on: the lock is an optimization.             *)
AcquireBlind(r) ==
    /\ pc[r] = "lock" /\ Fault
    /\ blind' = blind \cup {r}
    /\ StartBeating(r) /\ Goto(r, "clear")
    /\ UNCHANGED <<saved, lock, ttl, missed, flags, locals, unmarked>>
    /\ NoOthers

(* The heartbeat ends when the token is no longer its run's, and outlives  *)
(* an error.                                                               *)
Renew(r) ==
    /\ renewing[r] /\ beat[r] = 0
    /\ IF lock = r
       THEN /\ ttl' = LockTtl
            /\ beat' = [beat EXCEPT ![r] = Beat]
            /\ missed' = [missed EXCEPT ![r] = 0]
            /\ UNCHANGED renewing
       ELSE /\ renewing' = [renewing EXCEPT ![r] = FALSE]
            /\ UNCHANGED <<ttl, beat, missed>>
    /\ UNCHANGED <<saved, lock, blind, flags, locals, pc, unmarked, bounds>>

RenewFails(r) ==
    /\ renewing[r] /\ beat[r] = 0 /\ Fault
    /\ beat' = [beat EXCEPT ![r] = Beat]
    /\ missed' = [missed EXCEPT ![r] = @ + 1]
    /\ UNCHANGED <<saved, lock, ttl, renewing, blind, flags, locals, pc,
                   unmarked>>
    /\ NoOthers

(* Time passes, for the lock and for the heartbeats; none oversleeps.      *)
SlipAge == ttl

Age == ttl - 1

Tick ==
    /\ lock # None
    /\ \A r \in Run : renewing[r] => beat[r] > 0
    /\ ttl' = Age
    /\ lock' = IF ttl' = 0 THEN None ELSE lock
    /\ beat' = [r \in Run |-> IF renewing[r] THEN beat[r] - 1 ELSE beat[r]]
    /\ UNCHANGED <<saved, renewing, missed, blind, flags, locals, pc, unmarked,
                   bounds>>

-----------------------------------------------------------------------------
(* The stream.                                                             *)

SlipCleared == flag

Cleared == FALSE

ClearFlag(r) ==
    /\ pc[r] = "clear"
    /\ \/ Fine /\ flag' = Cleared /\ UNCHANGED deaf
       \/ Fault /\ deaf' = deaf \cup {r} /\ UNCHANGED flag
    /\ Goto(r, "start")
    /\ UNCHANGED <<saved, locks, aimed, strayed, locals, unmarked>> /\ NoOthers

(* A request that comes without history is taken for the session's first.  *)
Asked(h, r) == Said(h, r, 0, prior[r].kept = {})

(* Slip: what the run read takes the place of the checkpoint's history.    *)
SlipMerged(r) == Windowed(Asked(prior[r], r))

(* The reducer puts what the run read, and the checkpoint no longer has,   *)
(* behind the checkpoint's messages, and the request behind both.          *)
Unsaved(r) ==
    {m \in prior[r].kept : \A x \in ckpt.msgs.kept : x.of # m.of \/ x.n # m.n}
Rejoined(r) ==
    [top |-> ckpt.msgs.top + prior[r].top,
     kept |-> ckpt.msgs.kept
                 \cup {[m EXCEPT !.at = ckpt.msgs.top + @] : m \in Unsaved(r)}]
Merged(r) == Windowed(Asked(Rejoined(r), r))

Start(r) ==
    /\ pc[r] = "start"
    /\ ckpt' = [status |-> "RUNNING", msgs |-> Merged(r), current |-> TRUE]
    /\ mem' = [mem EXCEPT ![r] = Merged(r)]
    /\ Goto(r, "stream")
    /\ UNCHANGED <<artifacts, locks, flags, prior, steps, verdict, unmarked,
                   bounds>>

(* A node has run: its results are in the artifact graph, and the channels *)
(* of the stream, with the message it may have added, in the checkpoint.   *)
Spoken(r) ==
    {mem[r]} \cup {Windowed(Said(mem[r], r, steps[r] + 1, lasting)) : lasting \in BOOLEAN}
NodeRuns(r) ==
    /\ pc[r] = "stream" /\ steps[r] < MaxSteps
    /\ steps' = [steps EXCEPT ![r] = @ + 1]
    /\ \E h \in Spoken(r) :
        /\ mem' = [mem EXCEPT ![r] = h]
        /\ ckpt' = [status |-> "RUNNING", msgs |-> h, current |-> TRUE]
    /\ artifacts' = artifacts \cup {r}
    /\ Goto(r, "event")
    /\ UNCHANGED <<locks, flags, prior, verdict, unmarked, bounds>>

(* Its event: the budget may be used up, and then the flag is not read.    *)
OverBudget(r) ==
    /\ pc[r] = "event"
    /\ verdict' = [verdict EXCEPT ![r] = "INTERRUPTED"]
    /\ Goto(r, "else")
    /\ UNCHANGED <<saved, locks, flags, prior, mem, steps, unmarked, bounds>>

(* A run that ends by an exception has no status of its own yet.           *)
SlipEnterFinally(r) == verdict' = [verdict EXCEPT ![r] = "FAILED"]

EnterFinally(r) == verdict' = [verdict EXCEPT ![r] = "CANCELLED"]

ReadFlag(r) ==
    /\ pc[r] = "event"
    /\ IF flag
       THEN /\ EnterFinally(r) /\ Goto(r, "mark")
            /\ strayed' = IF r \in aimed THEN strayed ELSE strayed \cup {r}
       ELSE /\ Goto(r, "stream")
            /\ UNCHANGED <<verdict, strayed>>
    /\ UNCHANGED <<saved, locks, flag, deaf, aimed, prior, mem, steps, unmarked,
                   bounds>>

ReadFlagFails(r) ==
    /\ pc[r] = "event" /\ Fault
    /\ Goto(r, "stream")
    /\ UNCHANGED <<saved, locks, flags, locals, unmarked>> /\ NoOthers

StreamEnds(r) ==
    /\ pc[r] = "stream"
    /\ verdict' = [verdict EXCEPT ![r] = "COMPLETED"]
    /\ Goto(r, "else")
    /\ UNCHANGED <<saved, locks, flags, prior, mem, steps, unmarked, bounds>>

(* A node or the checkpointer raises.                                      *)
StreamFails(r) ==
    /\ pc[r] \in {"start", "stream"} /\ Fault
    /\ EnterFinally(r) /\ Goto(r, "mark")
    /\ UNCHANGED <<saved, locks, flags, prior, mem, steps, unmarked>>
    /\ NoOthers

-----------------------------------------------------------------------------
(* The end of a run.                                                       *)

(* An abnormal end is written again, in the finally block.                 *)
AfterElse(r) == IF verdict[r] \in Abnormal THEN "mark" ELSE "beat"

SlipPutMarker(r) ==
    IF verdict[r] \in Abnormal THEN [ckpt EXCEPT !.status = verdict[r]] ELSE ckpt

PutMarker(r) == [ckpt EXCEPT !.status = verdict[r]]

Complete(r) ==
    /\ pc[r] = "else"
    /\ \/ Fine /\ ckpt' = PutMarker(r) /\ UNCHANGED unmarked
       \/ Fault /\ unmarked' = unmarked \cup {r} /\ UNCHANGED ckpt
    /\ Goto(r, AfterElse(r))
    /\ UNCHANGED <<artifacts, locks, flags, locals>> /\ NoOthers

Mark(r) ==
    /\ pc[r] = "mark"
    /\ \/ Fine /\ ckpt' = PutMarker(r) /\ UNCHANGED unmarked
       \/ Fault /\ unmarked' = unmarked \cup {r} /\ UNCHANGED ckpt
    /\ Goto(r, "beat")
    /\ UNCHANGED <<artifacts, locks, flags, locals>> /\ NoOthers

StopBeating(r) ==
    /\ pc[r] = "beat"
    /\ renewing' = [renewing EXCEPT ![r] = FALSE]
    /\ Goto(r, "release")
    /\ UNCHANGED <<saved, lock, ttl, beat, missed, blind, flags, locals,
                   unmarked, bounds>>

Release(r) ==
    /\ pc[r] = "release"
    /\ \/ Fine /\ lock' = IF lock = r THEN None ELSE lock
       \/ Fault /\ UNCHANGED lock
    /\ Goto(r, "done")
    /\ UNCHANGED <<saved, ttl, renewing, beat, missed, blind, flags, locals,
                   unmarked>>
    /\ NoOthers

-----------------------------------------------------------------------------
(* What happens to a run.                                                  *)

Struck(r) == cancels < MaxCancels /\ cancels' = cancels + 1

Rest == UNCHANGED <<faults, stops, crashes>>

(* Before the try block nothing is undone; the lock may have been set.     *)
CancelBefore(r) ==
    /\ pc[r] \in Before /\ Struck(r)
    /\ Goto(r, "done")
    /\ \/ UNCHANGED <<lock, ttl>>
       \/ pc[r] = "lock" /\ LockFree /\ lock' = r /\ ttl' = LockTtl
    /\ UNCHANGED <<saved, renewing, beat, missed, blind, flags, locals, unmarked>>
    /\ Rest

(* In the stream: the finally block runs.                                  *)
CancelStream(r) ==
    /\ pc[r] \in Streams /\ Struck(r)
    /\ EnterFinally(r) /\ Goto(r, "mark")
    /\ UNCHANGED <<saved, locks, flags, prior, mem, steps, unmarked>>
    /\ Rest

(* In the else block: the status is set already and the write is lost.     *)
CancelElse(r) ==
    /\ pc[r] = "else" /\ Struck(r)
    /\ Goto(r, AfterElse(r))
    /\ unmarked' = unmarked \cup {r}
    /\ UNCHANGED <<saved, locks, flags, locals>>
    /\ Rest

(* In the finally block: what is left of it does not run.  The lock keeps  *)
(* its heartbeat.                                                          *)
CancelMark(r) ==
    /\ pc[r] = "mark" /\ Struck(r)
    /\ Goto(r, "done")
    /\ unmarked' = unmarked \cup {r}
    /\ UNCHANGED <<saved, locks, flags, locals>>
    /\ Rest

CancelRelease(r) ==
    /\ pc[r] = "release" /\ Struck(r)
    /\ Goto(r, "done")
    /\ UNCHANGED <<saved, locks, flags, locals, unmarked>>
    /\ Rest

Cancel(r) ==
    \/ CancelBefore(r) \/ CancelStream(r) \/ CancelElse(r) \/ CancelMark(r)
    \/ CancelRelease(r)

(* POST /sessions/{id}/cancel, whatever runs.                              *)
Stop ==
    /\ stops < MaxStops /\ stops' = stops + 1
    /\ flag' = TRUE
    /\ aimed' = {r \in Run : Holds(r)}
    /\ UNCHANGED <<saved, locks, deaf, strayed, locals, pc, unmarked>>
    /\ UNCHANGED <<faults, cancels, crashes>>

FlagExpires ==
    /\ flag /\ flag' = FALSE
    /\ UNCHANGED <<saved, locks, deaf, aimed, strayed, locals, pc, unmarked,
                   bounds>>

(* The process that serves the session dies.                               *)
Crash ==
    /\ crashes < MaxCrashes /\ crashes' = crashes + 1
    /\ \E r \in Run : pc[r] \notin Over
    /\ pc' = [r \in Run |-> IF pc[r] \in Over THEN pc[r] ELSE "dead"]
    /\ unmarked' = unmarked \cup {r \in Run : Holds(r)}
    /\ renewing' = [r \in Run |-> FALSE]
    /\ artifacts' = {}
    /\ UNCHANGED <<ckpt, lock, ttl, beat, missed, blind, flags, locals>>
    /\ UNCHANGED <<faults, cancels, stops>>

-----------------------------------------------------------------------------
RunStep(r) ==
    \/ ReadPrior(r) \/ ReadFails(r) \/ Refuse(r) \/ Reset(r)
    \/ Acquire(r) \/ IsRefused(r) \/ AcquireBlind(r)
    \/ ClearFlag(r) \/ Start(r) \/ NodeRuns(r) \/ OverBudget(r)
    \/ ReadFlag(r) \/ ReadFlagFails(r) \/ StreamEnds(r) \/ StreamFails(r)
    \/ Complete(r) \/ Mark(r) \/ StopBeating(r) \/ Release(r)

Beating(r) == Renew(r) \/ RenewFails(r)

Next ==
    \/ \E r \in Run : Arrive(r) \/ RunStep(r) \/ Beating(r) \/ Cancel(r)
    \/ Tick \/ Stop \/ FlagExpires \/ Crash

Spec == Init /\ [][Next]_vars

(* The event loop runs what is ready, and time passes.                     *)
FairSpec ==
    /\ Spec
    /\ \A r \in Run : WF_vars(RunStep(r)) /\ WF_vars(Beating(r))
    /\ WF_vars(Tick)

-----------------------------------------------------------------------------
(* Properties.                                                             *)

TypeOK ==
    /\ ckpt \in [status : Status, msgs : History, current : BOOLEAN]
    /\ artifacts \subseteq Run
    /\ lock \in Run \cup {None} /\ ttl \in 0 .. LockTtl
    /\ flag \in BOOLEAN
    /\ pc \in [Run -> Places]
    /\ prior \in [Run -> History] /\ mem \in [Run -> History]
    /\ steps \in [Run -> 0 .. MaxSteps]
    /\ verdict \in [Run -> {"RUNNING", "COMPLETED"} \cup Abnormal]
    /\ renewing \in [Run -> BOOLEAN] /\ beat \in [Run -> 0 .. Beat]
    /\ missed \in [Run -> 0 .. MaxFaults]
    /\ blind \subseteq Run /\ deaf \subseteq Run /\ aimed \subseteq Run
    /\ strayed \subseteq Run /\ unmarked \subseteq Run
    /\ faults \in 0 .. MaxFaults /\ cancels \in 0 .. MaxCancels
    /\ stops \in 0 .. MaxStops /\ crashes \in 0 .. MaxCrashes

(* A run that Redis could not serve: it got no answer for its lock, or so  *)
(* many renewals in a row failed that the lock lapsed.                     *)
Unserved(r) == r \in blind \/ (missed[r] + 1) * Beat >= LockTtl

(* Two runs of a session hold it together only if Redis failed one of them *)
(* when it asked for the lock, or for as long as the lock lives.  Faults,  *)
(* cancellations at any await, deaths and refused runs give no other way   *)
(* (AgentRunner._try_acquire_lock, _renew_lock, _release_lock).            *)
OneStreamPerSession ==
    \A a, b \in Run : a # b /\ Holds(a) /\ Holds(b)
                        => Unserved(a) \/ Unserved(b)

(* A run stops for a flag only if it was in progress when the flag was     *)
(* set, unless it could not clear the flag when it began: a stop meant for *)
(* an earlier run, or sent to none, does not strike a later one            *)
(* (_clear_cancellation, _cancellation_requested).                         *)
CancelsAreOwn == strayed \subseteq deaf

(* A message leaves the checkpoint only when it is no milestone and a full *)
(* window of messages, which the checkpoint then has, has come in behind   *)
(* it: a run that read the history before it had the lock, or that goes on *)
(* from channels of its own, takes nothing else out, while Redis serves    *)
(* every run (messages_reducer, initial_state of AgentRunner.invoke).      *)
MessagesKept ==
    [][(\A r \in Run : ~Unserved(r))
         => \A m \in ckpt.msgs.kept \ ckpt'.msgs.kept :
                ~m.lasts /\ Cardinality(After(ckpt'.msgs, m)) >= Window]_vars

(* The checkpoint says RUNNING only while a run is in progress, or after   *)
(* one whose end could not be written: killed, cancelled at the write, or  *)
(* refused by the database (the else and finally blocks of invoke).        *)
RunningMeansRunning ==
    ckpt.status = "RUNNING"
        => \/ \E r \in Run : Holds(r)
           \/ unmarked # {}

(* A cancelled run whose heartbeat nobody stopped.                         *)
LeftBeating(r) == pc[r] = "done" /\ renewing[r]

(* The lock of every run is free again in the end, whatever fails, is      *)
(* cancelled or dies, but for the lock of a run that was cancelled in its  *)
(* finally block: its heartbeat renews it for ever.                        *)
LocksEnd == \A r \in Run : lock = r ~> lock # r \/ LeftBeating(r)

-----------------------------------------------------------------------------
(* What the code says and does not do.                                     *)

(* state_schema.py 248, "Rolling-window message reducer": a message that   *)
(* has rolled out of the window does not come back.  A run that read it    *)
(* before other runs rolled it out puts it behind theirs, which leave in   *)
(* its stead.                                                              *)
WindowRolls ==
    [][\A m \in ckpt'.msgs.kept \ ckpt.msgs.kept : m.of # None]_vars
=============================================================================
