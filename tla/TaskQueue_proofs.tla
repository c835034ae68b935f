--------------------------- MODULE TaskQueue_proofs ---------------------------
(***************************************************************************)
(* Proofs about TaskQueue, for any workers, tasks and kinds of tasks, any  *)
(* number of faults, deaths and calls of the API, and every lease and beat *)
(* that satisfies the assumptions of the module.                           *)
(***************************************************************************)
EXTENDS TaskQueue, TLAPS

USE DEF Lapsed

LEMMA Bounds ==
  /\ Lease \in Nat /\ Lease > 0 /\ Beat \in Nat /\ Beat > 0
  /\ MaxAttempts \in Nat /\ MaxAttempts > 0
  /\ MaxEntries \in Nat /\ MaxFaults \in Nat /\ MaxCrashes \in Nat /\ MaxOps \in Nat
BY TaskBounds

-----------------------------------------------------------------------------
(* The types are inductive on their own.  A group of variables that a step *)
(* leaves alone keeps its type, so that each action is looked at for the   *)
(* groups it writes.                                                       *)

LEMMA InitTypeOK == Init => TypeOK
  BY Bounds DEF Init, TypeOK, RowType, QueueType, CallsType, ScheduleType, WorkType,
     GhostsType, BoundsType, Status

LEMMA Kept ==
  ASSUME TypeOK
  PROVE  /\ UNCHANGED row => RowType'
         /\ UNCHANGED queue => QueueType'
         /\ UNCHANGED calls => CallsType'
         /\ UNCHANGED schedule => ScheduleType'
         /\ UNCHANGED work /\ read' \in Nat /\ read' >= read => WorkType'
         /\ UNCHANGED ghosts /\ read' \in Nat /\ read' >= read => GhostsType'
         /\ UNCHANGED bounds => BoundsType'
<1>1. UNCHANGED row => RowType'
  BY DEF TypeOK, RowType, row
<1>2. UNCHANGED queue => QueueType'
  BY DEF TypeOK, QueueType, queue
<1>3. UNCHANGED calls => CallsType'
  BY DEF TypeOK, CallsType, calls
<1>4. UNCHANGED schedule => ScheduleType'
  BY DEF TypeOK, ScheduleType, schedule
<1>5. UNCHANGED work /\ read' \in Nat /\ read' >= read => WorkType'
  BY DEF TypeOK, WorkType, QueueType, work
<1>6. UNCHANGED ghosts /\ read' \in Nat /\ read' >= read => GhostsType'
  BY DEF TypeOK, GhostsType, QueueType, ghosts
<1>7. UNCHANGED bounds => BoundsType'
  BY DEF TypeOK, BoundsType, bounds
<1> QED BY <1>1, <1>2, <1>3, <1>4, <1>5, <1>6, <1>7

(* The bounded disturbances stay within their bounds.                      *)
LEMMA Counted ==
  ASSUME TypeOK, Fault \/ Crash \/ Op \/ UNCHANGED bounds
  PROVE  BoundsType'
BY Bounds DEF TypeOK, BoundsType, Fault, Crash, Op, bounds

(* What a posted entry does to the stream.                                 *)
LEMMA EnqueueType ==
  ASSUME TypeOK, NEW t \in Task, Enqueue(t)
  PROVE  /\ QueueType' /\ read' = read /\ pending' = pending
         /\ Len(stream') = Len(stream) + 1
         /\ \A e \in 1..Len(stream) : stream'[e] = stream[e]
BY DEF TypeOK, QueueType, Enqueue

LEMMA ReadIsNat == TypeOK => read \in Nat /\ 1..read \subseteq 1..Len(stream)
BY DEF TypeOK, QueueType

LEMMA ApiTypeOK ==
  ASSUME TypeOK, NEW t \in Task, ApiStep(t) \/ BecomesDue(t)
  PROVE  TypeOK'
<1> USE Kept, Counted, ReadIsNat
<1>1. CASE Create(t)
  <2>1. PICK d \in {"no", "later"} : due' = [due EXCEPT ![t] = d]
    <3>1. CASE Kind[t] = "once" BY <1>1, <3>1 DEF Create
    <3>2. CASE Kind[t] = "cron" BY <1>1, <3>2 DEF Create
    <3>3. CASE Kind[t] \notin {"once", "cron"} BY <1>1, <3>3 DEF Create
    <3> QED BY <3>1, <3>2, <3>3
  <2>2. RowType'
    BY <1>1, <2>1 DEF TypeOK, RowType, Status, Create
  <2>3. CallsType'
    BY <1>1 DEF TypeOK, CallsType, Create, calls
  <2> QED BY <1>1, <2>2, <2>3 DEF TypeOK, Create, queue
<1>2. CASE Post(t)
  <2>1. QueueType' /\ read' = read
    BY <1>2, EnqueueType DEF Post
  <2>2. CallsType'
    BY <1>2 DEF TypeOK, CallsType, Post, calls
  <2> QED BY <1>2, <2>1, <2>2 DEF TypeOK, Post
<1>3. CASE PostFails(t)
  <2>1. RowType' /\ CallsType'
    BY <1>3 DEF TypeOK, RowType, CallsType, Status, PostFails
  <2> QED BY <1>3, <2>1 DEF TypeOK, PostFails, queue
<1>4. CASE MarkQueued(t)
  <2>1. RowType' /\ CallsType'
    BY <1>4 DEF TypeOK, RowType, CallsType, Status, MarkQueued
  <2> QED BY <1>4, <2>1 DEF TypeOK, MarkQueued, queue
<1>5. CASE Pause(t)
  <2>1. RowType'
    BY <1>5 DEF TypeOK, RowType, Status, Pause
  <2> QED BY <1>5, <2>1 DEF TypeOK, Pause, queue
<1>6. CASE Resume(t)
  <2>1. RowType' /\ CallsType'
    BY <1>6 DEF TypeOK, RowType, CallsType, Status, Resume
  <2> QED BY <1>6, <2>1 DEF TypeOK, Resume, queue
<1>7. CASE ResumePosts(t)
  <2>1. QueueType' /\ read' = read
    BY <1>7, EnqueueType DEF ResumePosts
  <2>2. CallsType'
    BY <1>7 DEF TypeOK, CallsType, ResumePosts
  <2> QED BY <1>7, <2>1, <2>2 DEF TypeOK, ResumePosts
<1>8. CASE ResumeFails(t)
  <2>1. CallsType'
    BY <1>8 DEF TypeOK, CallsType, ResumeFails
  <2> QED BY <1>8, <2>1 DEF TypeOK, ResumeFails, queue
<1>9. CASE CancelTask(t)
  <2>1. RowType'
    BY <1>9 DEF TypeOK, RowType, CancelTask
  <2>2. GhostsType'
    BY <1>9 DEF TypeOK, GhostsType, CancelTask, queue
  <2> QED BY <1>9, <2>1, <2>2 DEF TypeOK, CancelTask, queue
<1>10. CASE ApiDies(t)
  <2>1. CallsType'
    BY <1>10 DEF TypeOK, CallsType, ApiDies
  <2> QED BY <1>10, <2>1 DEF TypeOK, ApiDies, queue
<1>11. CASE BecomesDue(t)
  <2>1. RowType'
    BY <1>11 DEF TypeOK, RowType, BecomesDue
  <2>2. GhostsType'
    BY <1>11 DEF TypeOK, GhostsType, BecomesDue, queue
  <2> QED BY <1>11, <2>1, <2>2 DEF TypeOK, BecomesDue, queue
<1> QED BY <1>1, <1>2, <1>3, <1>4, <1>5, <1>6, <1>7, <1>8, <1>9, <1>10, <1>11
        DEF ApiStep, Finishing

LEMMA SchedulerTypeOK ==
  ASSUME TypeOK, SchedulerStep \/ SchedulerFails \/ SchedulerDies
  PROVE  TypeOK'
<1> USE Kept, Counted, ReadIsNat DEF Go
<1>0. /\ spc.at \in {"mark", "advance", "enqueue", "clear"} => spc.task \in Task
      /\ spc.at = "next" => spc.task = None
  BY DEF TypeOK, ScheduleType
<1>1. CASE PollDue
  <2>1. ScheduleType'
    BY <1>1 DEF TypeOK, ScheduleType, PollDue, DueTasks
  <2> QED BY <1>1, <2>1 DEF TypeOK, PollDue, queue
<1>2. CASE NextTask
  <2>1. ScheduleType'
    BY <1>2 DEF TypeOK, ScheduleType, NextTask
  <2> QED BY <1>2, <2>1 DEF TypeOK, NextTask, queue
<1>3. CASE EndTick
  <2>1. ScheduleType'
    BY <1>3 DEF TypeOK, ScheduleType, EndTick
  <2> QED BY <1>3, <2>1 DEF TypeOK, EndTick, queue
<1>4. CASE MarkCron
  <2>1. RowType'
    BY <1>0, <1>4 DEF TypeOK, RowType, Status, MarkCron
  <2>2. ScheduleType'
    BY <1>0, <1>4 DEF TypeOK, ScheduleType, MarkCron
  <2> QED BY <1>4, <2>1, <2>2 DEF TypeOK, MarkCron, queue
<1>5. CASE AdvanceCron
  <2>1. RowType'
    BY <1>0, <1>5 DEF TypeOK, RowType, AdvanceCron
  <2>2. ScheduleType'
    BY <1>0, <1>5 DEF TypeOK, ScheduleType, AdvanceCron
  <2> QED BY <1>5, <2>1, <2>2 DEF TypeOK, AdvanceCron, queue
<1>6. CASE PostDue
  <2>1. QueueType' /\ read' = read
    BY <1>0, <1>6, EnqueueType DEF PostDue
  <2>2. ScheduleType'
    BY <1>0, <1>6 DEF TypeOK, ScheduleType, PostDue
  <2>3. GhostsType'
    BY <1>0, <1>6, <2>1 DEF TypeOK, GhostsType, PostDue
  <2> QED BY <1>6, <2>1, <2>2, <2>3 DEF TypeOK, PostDue
<1>7. CASE ClearOnce
  <2>1. RowType'
    BY <1>0, <1>7 DEF TypeOK, RowType, ClearOnce
  <2>2. ScheduleType'
    BY <1>0, <1>7 DEF TypeOK, ScheduleType, ClearOnce
  <2> QED BY <1>7, <2>1, <2>2 DEF TypeOK, ClearOnce, queue
<1>8. CASE SchedulerFails
  <2>1. ScheduleType'
    BY <1>8 DEF TypeOK, ScheduleType, SchedulerFails
  <2> QED BY <1>8, <2>1 DEF TypeOK, SchedulerFails, queue
<1>9. CASE SchedulerDies
  <2>1. ScheduleType'
    BY <1>9 DEF TypeOK, ScheduleType, SchedulerDies
  <2> QED BY <1>9, <2>1 DEF TypeOK, SchedulerDies, queue
<1> QED BY <1>1, <1>2, <1>3, <1>4, <1>5, <1>6, <1>7, <1>8, <1>9 DEF SchedulerStep

(* A worker at work has the entry of a task.                               *)
LEMMA DoingType ==
  ASSUME TypeOK, NEW w \in Worker, wpc[w] # "idle"
  PROVE  entry[w] \in 1..read /\ entry[w] \in 1..Len(stream) /\ Doing(w) \in Task
<1>1. entry[w] \in 1..read /\ read \in 0..Len(stream) /\ stream \in Seq(Task)
  BY DEF TypeOK, WorkType, QueueType
<1> QED BY <1>1 DEF Doing

LEMMA WorkerTypeOK ==
  ASSUME TypeOK, NEW w \in Worker, WorkerStep(w)
  PROVE  TypeOK'
<1> USE Kept, ReadIsNat DEF Be, Leasing
<1>0. wpc[w] # "idle" => entry[w] \in 1..read /\ Doing(w) \in Task
  BY DoingType
<1>1. CASE TakeOver(w)
  <2>1. QueueType' /\ read' = read
    BY <1>1 DEF TypeOK, QueueType, TakeOver
  <2>2. PICK e \in pending :
           IF ReplyIsFields THEN Be(w, "got") /\ entry' = [entry EXCEPT ![w] = e]
           ELSE UNCHANGED <<wpc, entry>>
    BY <1>1 DEF TakeOver
  <2>3. e \in 1..read /\ e \in Nat
    BY DEF TypeOK, QueueType
  <2>4. WorkType'
    BY <1>1, <2>1, <2>2, <2>3 DEF TypeOK, WorkType, TakeOver
  <2> QED BY <1>1, <2>1, <2>4 DEF TypeOK, TakeOver
<1>2. CASE Check(w)
  <2>1. RowType'
    BY <1>0, <1>2 DEF TypeOK, RowType, Status, Check
  <2>2. WorkType'
    BY <1>0, <1>2 DEF TypeOK, WorkType, Check, queue
  <2>3. GhostsType'
    BY <1>0, <1>2 DEF TypeOK, GhostsType, Check, queue
  <2> QED BY <1>2, <2>1, <2>2, <2>3 DEF TypeOK, Check
<1>3. CASE Claim(w)
  <2>1. holder' \in [Task -> Worker \cup {None}] /\ ttl' \in [Task -> Lapsed..Lease]
    <3>1. Doing(w) \in Task /\ holder \in [Task -> Worker \cup {None}]
          /\ ttl \in [Task -> Lapsed..Lease] /\ Lapsed \in Lapsed..Lease /\ Lease \in Lapsed..Lease
      BY <1>0, <1>3, Bounds DEF TypeOK, RowType, Claim
    <3>2. CASE Claimable(Doing(w)) BY <1>3, <3>1, <3>2 DEF Claim
    <3>3. CASE ~Claimable(Doing(w)) BY <1>3, <3>1, <3>3 DEF Claim
    <3> QED BY <3>2, <3>3
  <2>2. WorkType'
    BY SMTT(20), <1>0, <1>3, Bounds DEF TypeOK, WorkType, Claim, queue
  <2> QED BY <1>3, <2>1, <2>2 DEF TypeOK, RowType, Claim, queue
<1>4. CASE Start(w)
  <2>1. RowType'
    BY <1>0, <1>4 DEF TypeOK, RowType, Status, Start
  <2>2. WorkType'
    BY <1>0, <1>4 DEF TypeOK, WorkType, Start, queue
  <2> QED BY <1>4, <2>1, <2>2 DEF TypeOK, Start, queue
<1>5. ASSUME NEW next \in {"unlease", "acking"}, wpc[w] # "idle", Failed(w, next)
      PROVE  TypeOK'
  <2>1. RowType'
    BY <1>0, <1>5 DEF TypeOK, RowType, Status, Failed
  <2>2. WorkType'
    BY <1>0, <1>5 DEF TypeOK, WorkType, Failed, queue
  <2>3. GhostsType'
    BY <1>0, <1>5 DEF TypeOK, GhostsType, Failed, queue
  <2> QED BY <1>5, <2>1, <2>2, <2>3 DEF TypeOK, Failed
<1>6. CASE Returns(w)
  <2>1. RowType'
    BY <1>0, <1>6 DEF TypeOK, RowType, Status, Returns
  <2>2. WorkType'
    BY <1>0, <1>6 DEF TypeOK, WorkType, Returns, queue
  <2>3. worked' \subseteq Task
    BY <1>0, <1>6 DEF TypeOK, GhostsType, Returns
  <2>4. GhostsType'
    BY <1>0, <1>6, <2>3 DEF TypeOK, GhostsType, Returns, queue
  <2> QED BY <1>6, <2>1, <2>2, <2>4 DEF TypeOK, Returns
<1>7. CASE Raises(w)
  <2>1. WorkType'
    BY <1>0, <1>7 DEF TypeOK, WorkType, Raises, queue
  <2> QED BY <1>7, <2>1 DEF TypeOK, Raises, queue
<1>8. CASE RegisterAttempt(w)
  <2>1. RowType'
    BY SMTT(20), <1>0, <1>8, Bounds DEF TypeOK, RowType, RegisterAttempt
  <2>2. WorkType'
    BY <1>0, <1>8 DEF TypeOK, WorkType, RegisterAttempt, queue
  <2> QED BY <1>8, <2>1, <2>2 DEF TypeOK, RegisterAttempt, queue
<1>9. CASE Ack(w)
  <2>1. QueueType' /\ read' = read
    BY <1>9 DEF TypeOK, QueueType, Ack
  <2>2. WorkType'
    BY <1>0, <1>9 DEF TypeOK, WorkType, Ack, Acked
  <2> QED BY <1>9, <2>1, <2>2 DEF TypeOK, Ack
<1>10. CASE Release(w)
  <2>1. holder' \in [Task -> Worker \cup {None}] /\ ttl' \in [Task -> Lapsed..Lease]
    <3>1. Doing(w) \in Task /\ holder \in [Task -> Worker \cup {None}]
          /\ ttl \in [Task -> Lapsed..Lease] /\ Lapsed \in Lapsed..Lease /\ Lease \in Lapsed..Lease
      BY <1>0, <1>10, Bounds DEF TypeOK, RowType, Release
    <3>2. CASE OwnsLease(w) BY <1>10, <3>1, <3>2 DEF Release
    <3>3. CASE ~OwnsLease(w) BY <1>10, <3>1, <3>3 DEF Release
    <3> QED BY <3>2, <3>3
  <2>2. WorkType'
    BY <1>0, <1>10 DEF TypeOK, WorkType, Release, Released, queue
  <2> QED BY <1>10, <2>1, <2>2 DEF TypeOK, RowType, Release, queue
<1> QED BY <1>1, <1>2, <1>3, <1>4, <1>5, <1>6, <1>7, <1>8, <1>9, <1>10
        DEF WorkerStep, Reject, GiveUp

LEMMA MishapTypeOK ==
  ASSUME TypeOK, NEW w \in Worker,
         PollNew(w) \/ Heartbeat(w) \/ HeartbeatFails(w) \/ CallFails(w) \/ Dies(w)
  PROVE  TypeOK'
<1> USE Kept, Counted, ReadIsNat DEF Be, Leasing
<1>1. CASE PollNew(w)
  <2>1. QueueType' /\ read' = read + 1
    BY <1>1 DEF TypeOK, QueueType, PollNew
  <2>2. WorkType'
    BY <1>1 DEF TypeOK, QueueType, WorkType, PollNew
  <2> QED BY <1>1, <2>1, <2>2 DEF TypeOK, PollNew
<1>2. CASE Heartbeat(w)
  <2>1. RowType'
    BY <1>2, DoingType, Bounds DEF TypeOK, RowType, Heartbeat, Beating
  <2>2. WorkType'
    BY <1>2, Bounds DEF TypeOK, WorkType, Heartbeat, queue
  <2> QED BY <1>2, <2>1, <2>2 DEF TypeOK, Heartbeat, queue
<1>3. CASE HeartbeatFails(w)
  <2>1. WorkType'
    BY <1>3, Bounds DEF TypeOK, WorkType, HeartbeatFails, queue
  <2> QED BY <1>3, <2>1 DEF TypeOK, HeartbeatFails, queue
<1>4. CASE CallFails(w)
  <2>1. WorkType'
    BY <1>4 DEF TypeOK, WorkType, CallFails, Acked, Released, queue
  <2> QED BY <1>4, <2>1 DEF TypeOK, CallFails, queue
<1>5. CASE Dies(w)
  <2>1. WorkType'
    BY <1>5 DEF TypeOK, WorkType, Dies, queue
  <2> QED BY <1>5, <2>1 DEF TypeOK, Dies, queue
<1> QED BY <1>1, <1>2, <1>3, <1>4, <1>5

LEMMA TimeTypeOK ==
  ASSUME TypeOK, Tick \/ \E e \in pending : GrowsStale(e)
  PROVE  TypeOK'
<1> USE Kept, ReadIsNat
<1>1. CASE Tick
  <2>1. ttl' \in [Task -> Lapsed..Lease]
    BY SMTT(20), <1>1, Bounds DEF TypeOK, RowType, Tick
  <2>2. beat' \in [Worker -> 0..Beat]
    BY <1>1, Bounds DEF TypeOK, WorkType, Tick
  <2>3. RowType' /\ WorkType'
    BY <1>1, <2>1, <2>2 DEF TypeOK, RowType, WorkType, Tick, queue
  <2> QED BY <1>1, <2>3 DEF TypeOK, Tick, queue
<1>2. ASSUME NEW e \in pending, GrowsStale(e) PROVE TypeOK'
  <2>1. QueueType' /\ read' = read
    BY <1>2 DEF TypeOK, QueueType, GrowsStale
  <2> QED BY <1>2, <2>1 DEF TypeOK, GrowsStale
<1> QED BY <1>1, <1>2

LEMMA NextTypeOK == TypeOK /\ [Next]_vars => TypeOK'
<1> SUFFICES ASSUME TypeOK, [Next]_vars PROVE TypeOK'
  OBVIOUS
<1>1. CASE UNCHANGED vars
  BY <1>1, Kept, ReadIsNat DEF TypeOK, vars, queue
<1> QED BY <1>1, ApiTypeOK, SchedulerTypeOK, WorkerTypeOK, MishapTypeOK, TimeTypeOK DEF Next

(* Every state of every behaviour is well typed.                           *)
THEOREM TypeCorrect == Spec => []TypeOK
  BY InitTypeOK, NextTypeOK, PTL DEF Spec
-----------------------------------------------------------------------------
(* What any step does to the lease of a worker: it is kept with its entry, *)
(* or has just been claimed; and what is flagged stays flagged.            *)

LEMMA ApiSteps ==
  ASSUME TypeOK, NEW t \in Task, ApiStep(t) \/ BecomesDue(t)
  PROVE  /\ UNCHANGED <<holder, ttl, work, read, pending, settled>>
         /\ \A e \in 1..read : stream'[e] = stream[e]
         /\ UNCHANGED <<cancel, spared>> \/ CancelTask(t)
         /\ faults' \in {faults, faults + 1}
<1> USE DEF row, queue, calls, schedule, ghosts, bounds, Fault, Crash, Op
<1>0. faults \in Nat
  BY DEF TypeOK, BoundsType
<1>1. CASE Create(t) BY <1>0, <1>1 DEF Create
<1>2. CASE Post(t) BY <1>0, <1>2, EnqueueType, ReadIsNat DEF Post, Enqueue
<1>3. CASE PostFails(t) BY <1>0, <1>3 DEF PostFails
<1>4. CASE MarkQueued(t) BY <1>0, <1>4 DEF MarkQueued
<1>5. CASE Pause(t) BY <1>0, <1>5 DEF Pause
<1>6. CASE Resume(t) BY <1>0, <1>6 DEF Resume
<1>7. CASE ResumePosts(t) BY <1>0, <1>7, EnqueueType, ReadIsNat DEF ResumePosts, Enqueue
<1>8. CASE ResumeFails(t) BY <1>0, <1>8 DEF ResumeFails
<1>9. CASE CancelTask(t) BY <1>0, <1>9 DEF CancelTask
<1>10. CASE ApiDies(t) BY <1>0, <1>10 DEF ApiDies
<1>11. CASE BecomesDue(t) BY <1>0, <1>11 DEF BecomesDue
<1> QED BY <1>1, <1>2, <1>3, <1>4, <1>5, <1>6, <1>7, <1>8, <1>9, <1>10, <1>11
        DEF ApiStep, Finishing

LEMMA SchedulerSteps ==
  ASSUME TypeOK, SchedulerStep \/ SchedulerFails \/ SchedulerDies
  PROVE  /\ UNCHANGED <<holder, ttl, work, read, pending, settled, cancel, spared, cpc>>
         /\ \A e \in 1..read : stream'[e] = stream[e]
         /\ faults' \in {faults, faults + 1}
<1> USE DEF row, queue, calls, schedule, ghosts, bounds, Fault, Crash
<1>0. /\ faults \in Nat
      /\ spc.at \in {"mark", "advance", "enqueue", "clear"} => spc.task \in Task
  BY DEF TypeOK, BoundsType, ScheduleType
<1>1. CASE PollDue BY <1>0, <1>1 DEF PollDue
<1>2. CASE NextTask BY <1>0, <1>2 DEF NextTask
<1>3. CASE EndTick BY <1>0, <1>3 DEF EndTick
<1>4. CASE MarkCron BY <1>0, <1>4 DEF MarkCron
<1>5. CASE AdvanceCron BY <1>0, <1>5 DEF AdvanceCron
<1>6. CASE PostDue BY <1>0, <1>6, EnqueueType, ReadIsNat DEF PostDue, Enqueue
<1>7. CASE ClearOnce BY <1>0, <1>7 DEF ClearOnce
<1>8. CASE SchedulerFails BY <1>0, <1>8 DEF SchedulerFails
<1>9. CASE SchedulerDies BY <1>0, <1>9 DEF SchedulerDies
<1> QED BY <1>1, <1>2, <1>3, <1>4, <1>5, <1>6, <1>7, <1>8, <1>9 DEF SchedulerStep

(* A step of a worker is of that worker only, and leases by a claim alone. *)
LEMMA WorkerSteps ==
  ASSUME TypeOK, NEW w \in Worker,
         \/ WorkerStep(w) \/ PollNew(w) \/ Heartbeat(w) \/ HeartbeatFails(w)
         \/ CallFails(w) \/ Dies(w)
  PROVE  /\ UNCHANGED <<cancel, spared, stream, due, posts, periods, schedule, calls>>
         /\ \A v \in Worker \ {w} : wpc'[v] = wpc[v] /\ entry'[v] = entry[v] /\ beat'[v] = beat[v]
         /\ Leased(w)' => /\ entry'[w] = entry[w]
                          /\ Leased(w) \/ (Claim(w) /\ Claimable(Doing(w)))
         /\ faults' \in {faults, faults + 1}
<1> USE DEF row, calls, schedule, ghosts, bounds, Fault, Crash, Be, Leased, Leasing
<1>0. faults \in Nat /\ wpc \in [Worker -> {"idle", "got", "lease", "drop"} \cup Leasing]
      /\ entry \in [Worker -> Nat] /\ beat \in [Worker -> 0..Beat]
  BY DEF TypeOK, BoundsType, WorkType
<1>1. CASE TakeOver(w)
  <2>1. \/ UNCHANGED <<wpc, entry>>
        \/ wpc' = [wpc EXCEPT ![w] = "got"] /\ \E e \in pending : entry' = [entry EXCEPT ![w] = e]
    BY <1>1 DEF TakeOver
  <2> QED BY <1>0, <1>1, <2>1 DEF TakeOver, queue
<1>2. CASE Check(w) BY <1>0, <1>2 DEF Check, queue
<1>3. CASE Claim(w) BY <1>0, <1>3 DEF Claim, queue
<1>4. CASE Start(w) BY <1>0, <1>4 DEF Start, queue
<1>5. CASE Reject(w) BY <1>0, <1>5 DEF Reject, Failed, queue
<1>6. CASE Returns(w) BY <1>0, <1>6 DEF Returns, queue
<1>7. CASE Raises(w) BY <1>0, <1>7 DEF Raises, queue
<1>8. CASE RegisterAttempt(w) BY <1>0, <1>8 DEF RegisterAttempt, queue
<1>9. CASE GiveUp(w) BY <1>0, <1>9 DEF GiveUp, Failed, queue
<1>10. CASE Ack(w) BY <1>0, <1>10 DEF Ack, Acked
<1>11. CASE Release(w) BY <1>0, <1>11 DEF Release, Released, queue
<1>12. CASE PollNew(w) BY <1>0, <1>12 DEF PollNew
<1>13. CASE Heartbeat(w) BY <1>0, <1>13 DEF Heartbeat, queue
<1>14. CASE HeartbeatFails(w) BY <1>0, <1>14 DEF HeartbeatFails, queue
<1>15. CASE CallFails(w) BY <1>0, <1>15 DEF CallFails, Acked, Released, queue
<1>16. CASE Dies(w) BY <1>0, <1>16 DEF Dies, queue
<1> QED BY <1>1, <1>2, <1>3, <1>4, <1>5, <1>6, <1>7, <1>8, <1>9, <1>10, <1>11, <1>12,
           <1>13, <1>14, <1>15, <1>16 DEF WorkerStep

LEMMA TimeSteps ==
  ASSUME TypeOK, Tick \/ (\E e \in pending : GrowsStale(e)) \/ UNCHANGED vars
  PROVE  UNCHANGED <<cancel, spared, stream, read, pending, wpc, entry, due, posts, periods,
                     schedule, calls, settled, faults>>
BY DEF Tick, GrowsStale, vars, row, queue, calls, schedule, work, ghosts, bounds

(* The entry of a worker is of the same task as long as it has it.         *)
LEMMA SameTask ==
  ASSUME TypeOK, NEW w \in Worker, wpc[w] # "idle",
         \A e \in 1..read : stream'[e] = stream[e], entry'[w] = entry[w]
  PROVE  Doing(w)' = Doing(w)
BY DoingType DEF Doing

LEMMA LeaseSteps ==
  ASSUME TypeOK, [Next]_vars, NEW w \in Worker, Leased(w)'
  PROVE  /\ Doing(w)' = Doing(w)
         /\ Leased(w) \/ (Claim(w) /\ Claimable(Doing(w)))
<1>1. /\ \A e \in 1..read : stream'[e] = stream[e]
      /\ entry'[w] = entry[w]
      /\ Leased(w) \/ (Claim(w) /\ Claimable(Doing(w)))
  <2>1. ASSUME NEW v \in Worker,
               \/ WorkerStep(v) \/ PollNew(v) \/ Heartbeat(v) \/ HeartbeatFails(v)
               \/ CallFails(v) \/ Dies(v)
        PROVE  /\ \A e \in 1..read : stream'[e] = stream[e]
               /\ entry'[w] = entry[w]
               /\ Leased(w) \/ (Claim(w) /\ Claimable(Doing(w)))
    BY <2>1, WorkerSteps DEF Leased
  <2> QED BY <2>1, ApiSteps, SchedulerSteps, TimeSteps DEF Next, work, Leased
<1>2. wpc[w] # "idle"
  BY <1>1 DEF Leased, Leasing, Claim
<1> QED BY <1>1, <1>2, SameTask
-----------------------------------------------------------------------------
(* A flag that was set while nobody executed the task is still set when a  *)
(* worker would claim its lease.                                           *)

CancelInv == TypeOK /\ (\A t \in spared : cancel[t]) /\ CancelledNeverStarts

LEMMA CancelSteps ==
  ASSUME TypeOK, [Next]_vars
  PROVE  \/ UNCHANGED <<cancel, spared>>
         \/ \E t \in Task : CancelTask(t)
BY ApiSteps, SchedulerSteps, WorkerSteps, TimeSteps DEF Next

LEMMA CancelInvariance == Spec => []CancelInv
<1>1. Init => CancelInv
  BY InitTypeOK DEF Init, CancelInv, CancelledNeverStarts, Leased, Leasing
<1>2. CancelInv /\ [Next]_vars => CancelInv'
  <2> SUFFICES ASSUME CancelInv, [Next]_vars PROVE CancelInv'
    OBVIOUS
  <2> USE DEF CancelInv
  <2>1. TypeOK'
    BY NextTypeOK
  <2>2. ASSUME NEW t \in Task, CancelTask(t)
        PROVE  (\A u \in spared' : cancel'[u])
               /\ (\A w \in Worker : Leased(w)' => Doing(w)' \notin spared')
    <3>1. \A u \in spared' : cancel'[u]
      BY <2>2 DEF CancelTask, TypeOK, RowType, GhostsType
    <3>2. ASSUME NEW w \in Worker, Leased(w)' PROVE Doing(w)' \notin spared'
      <4>1. Leased(w) /\ Doing(w)' = Doing(w)
        BY <2>2, <3>2 DEF CancelTask, work, queue, Leased, Doing
      <4>2. Doing(w) \notin spared
        BY <4>1 DEF CancelledNeverStarts
      <4> QED BY <2>2, <4>1, <4>2 DEF CancelTask
    <3> QED BY <3>1, <3>2
  <2>3. ASSUME UNCHANGED <<cancel, spared>>
        PROVE  (\A u \in spared' : cancel'[u])
               /\ (\A w \in Worker : Leased(w)' => Doing(w)' \notin spared')
    <3>1. ASSUME NEW w \in Worker, Leased(w)' PROVE Doing(w)' \notin spared'
      <4>1. Doing(w)' = Doing(w) /\ (Leased(w) \/ Claimable(Doing(w)))
        BY <3>1, LeaseSteps
      <4>2. Doing(w) \notin spared
        BY <4>1 DEF CancelledNeverStarts, Claimable
      <4> QED BY <2>3, <4>1, <4>2
    <3> QED BY <2>3, <3>1
  <2> QED BY <2>1, <2>2, <2>3, CancelSteps DEF CancelledNeverStarts
<1> QED BY <1>1, <1>2, PTL DEF Spec

(* A task that was cancelled while nobody executed it is never executed,   *)
(* by whatever number of workers and however often its entry is delivered. *)
THEOREM FlaggedIsSpared == Spec => []CancelledNeverStarts
<1>1. CancelInv => CancelledNeverStarts
  BY DEF CancelInv
<1> QED BY <1>1, CancelInvariance, PTL
-----------------------------------------------------------------------------
(* A worker on its way to an acknowledgement has settled its entry.        *)

Acking == {"acking", "drop", "unlease"}

AckInv ==
    /\ TypeOK /\ AckedWasSettled
    /\ \A w \in Worker : wpc[w] \in Acking => entry[w] \in settled

LEMMA AckSteps ==
  ASSUME TypeOK, NEW w \in Worker,
         \/ WorkerStep(w) \/ PollNew(w) \/ Heartbeat(w) \/ HeartbeatFails(w)
         \/ CallFails(w) \/ Dies(w)
  PROVE  /\ settled \subseteq settled'
         /\ wpc'[w] \in Acking => /\ entry'[w] = entry[w]
                                  /\ wpc[w] \in Acking \/ entry[w] \in settled'
         /\ \A e \in 1..read' : e \notin pending' =>
               \/ e \in 1..read /\ e \notin pending
               \/ wpc[w] \in Acking /\ e = entry[w]
<1> USE DEF ghosts, Fault, Crash, Be, Acking, Leasing
<1>0. wpc \in [Worker -> {"idle", "got", "lease", "drop"} \cup Leasing]
      /\ entry \in [Worker -> Nat] /\ read \in Nat /\ pending \subseteq 1..read
  BY DEF TypeOK, WorkType, QueueType
<1>1. CASE TakeOver(w)
  <2>1. wpc'[w] \notin Acking
    BY <1>0, <1>1 DEF TakeOver
  <2> QED BY <1>1, <2>1 DEF TakeOver
<1>2. CASE Check(w) BY <1>0, <1>2 DEF Check, queue
<1>3. CASE Claim(w) BY <1>0, <1>3 DEF Claim, queue
<1>4. CASE Start(w) BY <1>0, <1>4 DEF Start, queue
<1>5. CASE Reject(w) BY <1>0, <1>5 DEF Reject, Failed, queue
<1>6. CASE Returns(w) BY <1>0, <1>6 DEF Returns, queue
<1>7. CASE Raises(w) BY <1>0, <1>7 DEF Raises, queue
<1>8. CASE RegisterAttempt(w) BY <1>0, <1>8 DEF RegisterAttempt, queue
<1>9. CASE GiveUp(w) BY <1>0, <1>9 DEF GiveUp, Failed, queue
<1>10. CASE Ack(w) BY <1>0, <1>10 DEF Ack, Acked
<1>11. CASE Release(w) BY <1>0, <1>11 DEF Release, Released, queue
<1>12. CASE PollNew(w) BY <1>0, <1>12 DEF PollNew
<1>13. CASE Heartbeat(w) BY <1>0, <1>13 DEF Heartbeat, queue
<1>14. CASE HeartbeatFails(w) BY <1>0, <1>14 DEF HeartbeatFails, queue
<1>15. CASE CallFails(w) BY <1>0, <1>15 DEF CallFails, Acked, Released, queue
<1>16. CASE Dies(w) BY <1>0, <1>16 DEF Dies, queue
<1> QED BY <1>1, <1>2, <1>3, <1>4, <1>5, <1>6, <1>7, <1>8, <1>9, <1>10, <1>11, <1>12,
           <1>13, <1>14, <1>15, <1>16 DEF WorkerStep

(* An entry leaves the consumer group only when its task has been          *)
(* completed, failed for good or cancelled by a worker that had it.        *)
THEOREM NothingIsLost == Spec => []AckedWasSettled
<1>1. Init => AckInv
  BY InitTypeOK DEF Init, AckInv, AckedWasSettled, Acking
<1>2. AckInv /\ [Next]_vars => AckInv'
  <2> SUFFICES ASSUME AckInv, [Next]_vars PROVE AckInv'
    OBVIOUS
  <2> USE DEF AckInv
  <2>1. TypeOK'
    BY NextTypeOK
  <2>2. CASE UNCHANGED <<settled, pending, read, wpc, entry>>
    BY <2>1, <2>2 DEF AckedWasSettled
  <2>3. ASSUME NEW w \in Worker,
               \/ WorkerStep(w) \/ PollNew(w) \/ Heartbeat(w) \/ HeartbeatFails(w)
               \/ CallFails(w) \/ Dies(w)
        PROVE  AckInv'
    <3>1. AckedWasSettled'
      BY <2>3, AckSteps DEF AckedWasSettled
    <3>2. ASSUME NEW v \in Worker, wpc'[v] \in Acking PROVE entry'[v] \in settled'
      BY <2>3, <3>2, AckSteps, WorkerSteps
    <3> QED BY <2>1, <3>1, <3>2
  <2> QED BY <2>2, <2>3, ApiSteps, SchedulerSteps, TimeSteps DEF Next, work
<1>3. AckInv => AckedWasSettled
  BY DEF AckInv
<1> QED BY <1>1, <1>2, <1>3, PTL DEF Spec

-----------------------------------------------------------------------------
(* What the scheduler has read of the table stays true while it works on   *)
(* it, and every post is paid for by a time that has come.                 *)

Credit(t) == (IF due[t] = "now" THEN 1 ELSE 0)
             + (IF spc.at = "enqueue" /\ spc.task = t THEN 1 ELSE 0)

CronInv ==
    /\ TypeOK
    /\ \A t \in Task : cpc[t] = "none" => due[t] = "no"
    /\ \A t \in todo : due[t] = "now"
    /\ spc.task \notin todo
    /\ spc.at \in {"mark", "advance"} => Kind[spc.task] = "cron" /\ due[spc.task] = "now"
    /\ spc.at = "clear" => Kind[spc.task] # "cron"
    /\ \A t \in Task : Kind[t] = "cron" => posts[t] + Credit(t) <= periods[t]

LEMMA CronApi ==
  ASSUME CronInv, NEW t \in Task, ApiStep(t) \/ BecomesDue(t)
  PROVE  CronInv'
<1> USE DEF CronInv, row, queue, calls, schedule, ghosts, bounds, Fault, Crash, Op
<1>0. TypeOK'
  BY ApiTypeOK
<1>1. ASSUME UNCHANGED <<due, schedule, posts, periods>>,
             \A u \in Task : cpc'[u] = "none" => cpc[u] = "none"
      PROVE  CronInv'
  BY <1>0, <1>1 DEF Credit
<1>2. /\ cpc \in [Task -> {"none", "enqueue", "mark", "over"}]
      /\ due \in [Task -> {"no", "later", "now"}]
      /\ posts \in [Task -> Nat] /\ periods \in [Task -> Nat]
      /\ todo \subseteq Task
      /\ spc.at \in {"mark", "advance", "enqueue", "clear"} => spc.task \in Task
  BY DEF TypeOK, CallsType, RowType, GhostsType, ScheduleType
<1>3. CASE Create(t)
  <2>1. due[t] = "no"
    BY <1>3 DEF Create
  <2>2. PICK d \in {"no", "later"} : due' = [due EXCEPT ![t] = d]
    <3>1. CASE Kind[t] = "once" BY <1>3, <3>1 DEF Create
    <3>2. CASE Kind[t] = "cron" BY <1>3, <3>2 DEF Create
    <3>3. CASE Kind[t] \notin {"once", "cron"} BY <1>3, <3>3 DEF Create
    <3> QED BY <3>1, <3>2, <3>3
  <2>3. cpc'[t] # "none" /\ UNCHANGED <<spc, todo, posts, periods>>
        /\ \A u \in Task \ {t} : cpc'[u] = cpc[u]
    BY <1>2, <1>3 DEF Create
  <2> QED BY <1>0, <1>2, <2>1, <2>2, <2>3 DEF Credit
<1>4. CASE BecomesDue(t)
  <2>1. UNCHANGED <<spc, todo, posts, cpc>> /\ due[t] = "later"
        /\ due' = [due EXCEPT ![t] = "now"] /\ periods' = [periods EXCEPT ![t] = @ + 1]
    BY <1>4 DEF BecomesDue
  <2>2. \A u \in Task : Kind[u] = "cron" => posts'[u] + Credit(u)' <= periods'[u]
    BY <1>2, <2>1 DEF Credit
  <2> QED BY <1>0, <1>2, <2>1, <2>2
<1>5. CASE Post(t) BY <1>1, <1>2, <1>5 DEF Post
<1>6. CASE PostFails(t) BY <1>1, <1>2, <1>6 DEF PostFails
<1>7. CASE MarkQueued(t) BY <1>1, <1>2, <1>7 DEF MarkQueued
<1>8. CASE Pause(t) BY <1>1, <1>8 DEF Pause
<1>9. CASE Resume(t) BY <1>1, <1>9 DEF Resume
<1>10. CASE ResumePosts(t) BY <1>1, <1>10 DEF ResumePosts
<1>11. CASE ResumeFails(t) BY <1>1, <1>11 DEF ResumeFails
<1>12. CASE CancelTask(t) BY <1>1, <1>12 DEF CancelTask
<1>13. CASE ApiDies(t) BY <1>1, <1>2, <1>13 DEF ApiDies
<1> QED BY <1>3, <1>4, <1>5, <1>6, <1>7, <1>8, <1>9, <1>10, <1>11, <1>12, <1>13
        DEF ApiStep, Finishing

LEMMA CronScheduler ==
  ASSUME CronInv, SchedulerStep \/ SchedulerFails \/ SchedulerDies
  PROVE  CronInv'
<1> USE DEF CronInv, row, queue, calls, schedule, ghosts, bounds, Fault, Crash, Go
<1>0. TypeOK'
  BY SchedulerTypeOK
<1>1. /\ due \in [Task -> {"no", "later", "now"}]
      /\ posts \in [Task -> Nat] /\ periods \in [Task -> Nat]
      /\ todo \subseteq Task
      /\ spc.at \in {"mark", "advance", "enqueue", "clear"} => spc.task \in Task
      /\ spc.at \in {"idle", "next"} => spc.task = None
      /\ spc.at \in {"idle", "next", "mark", "advance", "enqueue", "clear"}
      /\ None \notin Task
  BY TaskNone DEF TypeOK, RowType, GhostsType, ScheduleType
<1>2. UNCHANGED cpc
  BY SchedulerSteps
<1>3. CASE PollDue
  BY <1>0, <1>1, <1>2, <1>3 DEF PollDue, DueTasks, Credit
<1>4. CASE NextTask
  <2>1. PICK t \in todo : /\ todo' = todo \ {t}
                          /\ spc' = [at |-> IF Kind[t] = "cron" THEN "mark" ELSE "enqueue",
                                     task |-> t]
    BY <1>4 DEF NextTask
  <2> QED BY <1>0, <1>1, <1>2, <1>4, <2>1 DEF NextTask, Credit
<1>5. CASE EndTick
  BY <1>0, <1>1, <1>2, <1>5 DEF EndTick, Credit
<1>6. CASE MarkCron
  BY <1>0, <1>1, <1>2, <1>6 DEF MarkCron, Credit
<1>7. CASE AdvanceCron
  <2>1. spc.task \in Task /\ due[spc.task] = "now" /\ spc.at = "advance"
        /\ due' = [due EXCEPT ![spc.task] = "later"] /\ spc' = [at |-> "enqueue", task |-> spc.task]
        /\ UNCHANGED <<todo, posts, periods>>
    BY <1>1, <1>7 DEF AdvanceCron
  <2>2. cpc[spc.task] # "none"
    BY <2>1
  <2>3. \A t \in Task : Kind[t] = "cron" => posts'[t] + Credit(t)' <= periods'[t]
    BY <1>1, <2>1 DEF Credit
  <2> QED BY <1>0, <1>1, <1>2, <2>1, <2>2, <2>3
<1>8. CASE PostDue
  <2>1. spc.task \in Task /\ spc.at = "enqueue" /\ UNCHANGED <<due, todo, periods>>
        /\ posts' = [posts EXCEPT ![spc.task] = @ + 1]
        /\ spc' = IF Kind[spc.task] = "cron" THEN [at |-> "next", task |-> None]
                  ELSE [at |-> "clear", task |-> spc.task]
    BY <1>1, <1>8 DEF PostDue
  <2>2. \A t \in Task : Kind[t] = "cron" => posts'[t] + Credit(t)' <= periods'[t]
    BY <1>1, <2>1 DEF Credit
  <2> QED BY <1>0, <1>1, <1>2, <2>1, <2>2
<1>9. CASE ClearOnce
  <2>1. spc.task \in Task /\ Kind[spc.task] # "cron" /\ spc.at = "clear"
        /\ due' = [due EXCEPT ![spc.task] = "no"] /\ spc' = [at |-> "next", task |-> None]
        /\ UNCHANGED <<todo, posts, periods>>
    BY <1>1, <1>9 DEF ClearOnce
  <2>2. \A t \in Task : Kind[t] = "cron" => posts'[t] + Credit(t)' <= periods'[t]
    BY <1>1, <2>1 DEF Credit
  <2> QED BY <1>0, <1>1, <1>2, <2>1, <2>2
<1>10. ASSUME UNCHANGED <<due, posts, periods>>, todo' \subseteq todo,
              spc' \in [at : {"idle", "next"}, task : {None}]
       PROVE  CronInv'
  <2>1. spc'.at \notin {"mark", "advance", "enqueue", "clear"} /\ spc'.task = None
    BY <1>10
  <2>2. \A t \in Task : Kind[t] = "cron" => posts'[t] + Credit(t)' <= periods'[t]
    BY <1>1, <1>10, <2>1 DEF Credit
  <2> QED BY <1>0, <1>1, <1>2, <1>10, <2>1, <2>2
<1>11. CASE SchedulerFails
  BY <1>10, <1>11 DEF SchedulerFails
<1>12. CASE SchedulerDies
  BY <1>10, <1>12 DEF SchedulerDies
<1> QED BY <1>3, <1>4, <1>5, <1>6, <1>7, <1>8, <1>9, <1>11, <1>12 DEF SchedulerStep

(* A recurring task is posted at most once for each time that it becomes   *)
(* due, whatever fails and whatever the API does in between.               *)
THEOREM OnePostPerPeriod == Spec => []CronPostedOncePerPeriod
<1>1. Init => CronInv
  BY InitTypeOK, TaskNone DEF Init, CronInv, Credit
<1>2. CronInv /\ [Next]_vars => CronInv'
  <2> SUFFICES ASSUME CronInv, [Next]_vars PROVE CronInv'
    OBVIOUS
  <2>1. TypeOK'
    BY NextTypeOK DEF CronInv
  <2>2. CASE UNCHANGED <<due, posts, periods, schedule, calls>>
    BY <2>1, <2>2 DEF CronInv, Credit, schedule, calls
  <2> QED BY <2>2, CronApi, CronScheduler, WorkerSteps, TimeSteps DEF Next, CronInv
<1>3. CronInv => CronPostedOncePerPeriod
  BY DEF CronInv, CronPostedOncePerPeriod, Credit, TypeOK, GhostsType
<1> QED BY <1>1, <1>2, <1>3, PTL DEF Spec
-----------------------------------------------------------------------------
(* How a step touches the leases of the table.                             *)

LEMMA LeaseWrites ==
  ASSUME TypeOK, NEW w \in Worker,
         \/ WorkerStep(w) \/ PollNew(w) \/ Heartbeat(w) \/ HeartbeatFails(w)
         \/ CallFails(w) \/ Dies(w)
  PROVE  \/ UNCHANGED <<holder, ttl, beat>>
         \/ Claim(w) /\ Claimable(Doing(w))
         \/ Release(w) /\ OwnsLease(w)
         \/ Heartbeat(w)
         \/ HeartbeatFails(w)
BY DEF WorkerStep, TakeOver, PollNew, CallFails, Dies, Check, Claim, Start, Reject, GiveUp, Failed,
       Returns, Raises, RegisterAttempt, Ack, Release, row

(* The table's leases, read as phases and holders, implement the contract  *)
(* the execution ledger has, though a heartbeat may revive a lapsed lease: *)
(* for the contract its holder acquires it again.                          *)
THEOREM LeasesImplementContract == Spec => ImplementsLease
<1> DEFINE phase(t) == CASE holder[t] = None -> "open"
                         [] holder[t] # None /\ ttl[t] = Lapsed -> "lapsed"
                         [] holder[t] # None /\ ttl[t] # Lapsed -> "held"
<1>1. Init => LeaseContract!Init
  BY DEF Init, LeaseContract!Init
<1> DEFINE Moves(t) ==
         \/ phase(t)' = phase(t) /\ holder'[t] = holder[t]
         \/ phase(t) \in {"open", "lapsed"} /\ phase(t)' = "held" /\ holder'[t] \in Worker
         \/ phase(t) = "held" /\ phase(t)' = "lapsed" /\ holder'[t] = holder[t]
         \/ phase(t) \in {"held", "lapsed"} /\ phase(t)' = "open" /\ holder'[t] = None
<1>2. ASSUME TypeOK, [Next]_vars, NEW t \in Task PROVE Moves(t)
  <2>1. /\ holder \in [Task -> Worker \cup {None}] /\ ttl \in [Task -> Lapsed..Lease]
        /\ Lease \in Nat /\ Lease # Lapsed /\ None \notin Worker
    BY <1>2, Bounds, TaskNone DEF TypeOK, RowType
  <2>2. CASE UNCHANGED <<holder, ttl>>
    BY <2>2
  <2>3. ASSUME NEW w \in Worker, Claim(w), Claimable(Doing(w)) PROVE Moves(t)
    <3>1. Doing(w) \in Task
      BY <1>2, <2>3, DoingType DEF Claim
    <3>2. /\ holder' = [holder EXCEPT ![Doing(w)] = w] /\ ttl' = [ttl EXCEPT ![Doing(w)] = Lease]
          /\ ttl[Doing(w)] = Lapsed
      BY <2>3 DEF Claim, Claimable
    <3> QED BY <2>1, <3>1, <3>2
  <2>4. ASSUME NEW w \in Worker, Release(w), OwnsLease(w) PROVE Moves(t)
    <3>1. Doing(w) \in Task
      BY <1>2, <2>4, DoingType DEF Release
    <3>2. /\ holder' = [holder EXCEPT ![Doing(w)] = None]
          /\ ttl' = [ttl EXCEPT ![Doing(w)] = Lapsed] /\ holder[Doing(w)] = w
      BY <2>4 DEF Release, OwnsLease
    <3> QED BY <2>1, <3>1, <3>2
  <2>5. ASSUME NEW w \in Worker, Heartbeat(w) PROVE Moves(t)
    <3>1. Doing(w) \in Task
      BY <1>2, <2>5, DoingType DEF Heartbeat, Beating
    <3>2. CASE holder[Doing(w)] = w
      BY <2>1, <2>5, <3>1, <3>2 DEF Heartbeat, OwnsLease
    <3>3. CASE holder[Doing(w)] # w
      BY <2>5, <3>3 DEF Heartbeat, OwnsLease
    <3> QED BY <3>2, <3>3
  <2>6. CASE Tick
    BY <2>1, <2>6 DEF Tick
  <2>7. ASSUME NEW e \in pending, GrowsStale(e) PROVE UNCHANGED <<holder, ttl>>
    BY <2>7 DEF GrowsStale, row
  <2>8. UNCHANGED vars => UNCHANGED <<holder, ttl>>
    BY DEF vars, row
  <2>9. ASSUME NEW w \in Worker, HeartbeatFails(w) PROVE UNCHANGED <<holder, ttl>>
    BY <2>9 DEF HeartbeatFails, row
  <2> QED BY <1>2, <2>2, <2>3, <2>4, <2>5, <2>6, <2>7, <2>8, <2>9, ApiSteps, SchedulerSteps,
             LeaseWrites DEF Next
<1>3. TypeOK /\ [Next]_vars => [LeaseContract!Next]_<<[t \in Task |-> phase(t)], holder>>
  <2> SUFFICES ASSUME TypeOK, [Next]_vars, NEW t \in Task
               PROVE  LeaseContract!KeyStep(t) \/ LeaseContract!Idle(t)
    BY DEF LeaseContract!Next
  <2> QED BY <1>2 DEF LeaseContract!KeyStep, LeaseContract!Idle, LeaseContract!Acquire,
                      LeaseContract!Lapse, LeaseContract!Finish, LeaseContract!Free
<1> QED BY TypeCorrect, <1>1, <1>3, PTL DEF Spec, ImplementsLease, LeaseContract!Spec

-----------------------------------------------------------------------------
(* One executor at a time.  Between two renewals the heartbeats lost so    *)
(* far, and the time since the last one, are all a lease has lost.         *)

Lost(n) == Beat * n

(* The heartbeats that have failed and one more fit into a lease.          *)
Covered == Lost(faults) + Beat <= Lease

LeaseInv ==
    /\ TypeOK
    /\ Covered => \A w \in Worker : Leased(w) =>
          holder[Doing(w)] = w /\ ttl[Doing(w)] + beat[w] + Lost(faults) >= Lease

LEMMA LostSteps ==
  ASSUME TypeOK
  PROVE  /\ Lost(faults) \in Nat
         /\ faults' = faults => Lost(faults') = Lost(faults)
         /\ faults' = faults + 1 => Lost(faults') = Lost(faults) + Beat
<1>1. faults \in Nat
  BY Bounds DEF TypeOK, BoundsType
<1>2. \A n \in Nat : Beat * n \in Nat /\ Beat * (n + 1) = Beat * n + Beat
  BY Bounds
<1> QED BY <1>1, <1>2 DEF Lost

(* While the faults are covered a leased task cannot be claimed.           *)
LEMMA NotClaimable ==
  ASSUME LeaseInv, Covered, NEW w \in Worker, Leased(w)
  PROVE  /\ Doing(w) \in Task /\ holder[Doing(w)] = w /\ ttl[Doing(w)] >= 0
         /\ ttl[Doing(w)] + beat[w] + Lost(faults) >= Lease
         /\ ttl[Doing(w)] \in Int /\ beat[w] \in 0..Beat
<1>1. wpc[w] # "idle" /\ TypeOK
  BY DEF Leased, Leasing, LeaseInv
<1>2. Doing(w) \in Task
  BY <1>1, DoingType
<1>3. ttl[Doing(w)] \in Int /\ beat[w] \in 0..Beat
  BY <1>1, <1>2, Bounds DEF TypeOK, RowType, WorkType
<1>4. holder[Doing(w)] = w /\ ttl[Doing(w)] + beat[w] + Lost(faults) >= Lease
  BY DEF LeaseInv
<1> QED BY <1>1, <1>2, <1>3, <1>4, LostSteps, Bounds DEF Covered

LEMMA FaultSteps == TypeOK /\ [Next]_vars => faults' \in {faults, faults + 1}
BY ApiSteps, SchedulerSteps, WorkerSteps, TimeSteps DEF Next

LEMMA LeaseInvStep ==
  ASSUME Prompt, LeaseInv, [Next]_vars
  PROVE  LeaseInv'
<1>1. TypeOK /\ TypeOK'
  BY NextTypeOK DEF LeaseInv
<1> SUFFICES ASSUME Covered', NEW v \in Worker, Leased(v)'
             PROVE  holder'[Doing(v)'] = v /\ ttl'[Doing(v)'] + beat'[v] + Lost(faults') >= Lease
  BY <1>1 DEF LeaseInv
<1>2. Covered /\ Lost(faults) \in Nat /\ Lost(faults') >= Lost(faults) /\ Lost(faults') \in Nat
  BY <1>1, FaultSteps, LostSteps, Bounds DEF Covered
<1>3. Doing(v)' = Doing(v) /\ (Leased(v) \/ (Claim(v) /\ Claimable(Doing(v))))
  BY <1>1, LeaseSteps
<1>4. Doing(v) \in Task
  BY <1>1, <1>3, DoingType DEF Leased, Leasing, Claim
<1>5. /\ holder \in [Task -> Worker \cup {None}] /\ ttl \in [Task -> Lapsed..Lease]
      /\ beat \in [Worker -> 0..Beat] /\ Lease \in Nat /\ Beat \in Nat
  BY <1>1, Bounds DEF TypeOK, RowType, WorkType
<1>6. Leased(v) => /\ holder[Doing(v)] = v /\ ttl[Doing(v)] >= 0 /\ ttl[Doing(v)] \in Int
                   /\ ttl[Doing(v)] + beat[v] + Lost(faults) >= Lease
  BY <1>2, NotClaimable
<1>7. ASSUME NEW w \in Worker, Claim(w), Claimable(Doing(w))
      PROVE  holder'[Doing(v)] = v /\ ttl'[Doing(v)] + beat'[v] + Lost(faults') >= Lease
  <2>1. /\ holder' = [holder EXCEPT ![Doing(w)] = w] /\ ttl' = [ttl EXCEPT ![Doing(w)] = Lease]
        /\ beat' = [beat EXCEPT ![w] = 0] /\ ttl[Doing(w)] = Lapsed
    BY <1>7 DEF Claim, Claimable
  <2>2. CASE w = v
    <3>1. holder'[Doing(v)] = v /\ ttl'[Doing(v)] = Lease /\ beat'[v] = 0
      BY <1>4, <1>5, <2>1, <2>2
    <3> QED BY <1>2, <1>5, <3>1
  <2>3. CASE w # v
    <3>1. Leased(v)
      BY <1>3, <1>7, <2>3, <1>1 DEF Claim, Be, TypeOK, WorkType, Leased, Leasing
    <3>2. Doing(w) # Doing(v)
      BY <1>6, <2>1, <3>1
    <3> QED BY <1>2, <1>4, <1>5, <1>6, <2>1, <2>3, <3>1, <3>2
  <2> QED BY <2>2, <2>3
<1>8. ASSUME NEW w \in Worker, Release(w), OwnsLease(w)
      PROVE  holder'[Doing(v)] = v /\ ttl'[Doing(v)] + beat'[v] + Lost(faults') >= Lease
  <2>1. /\ holder' = [holder EXCEPT ![Doing(w)] = None]
        /\ ttl' = [ttl EXCEPT ![Doing(w)] = Lapsed] /\ beat' = beat /\ holder[Doing(w)] = w
    BY <1>8 DEF Release, OwnsLease
  <2>2. w # v /\ Leased(v)
    BY <1>1, <1>3, <1>8 DEF Release, Released, Be, TypeOK, WorkType, Leased, Leasing, Claim
  <2> QED BY <1>2, <1>4, <1>5, <1>6, <2>1, <2>2
<1>9. ASSUME UNCHANGED <<holder, ttl, beat>>
      PROVE  holder'[Doing(v)] = v /\ ttl'[Doing(v)] + beat'[v] + Lost(faults') >= Lease
  <2>1. ~(Claim(v) /\ Claimable(Doing(v)))
    BY <1>4, <1>5, <1>9 DEF Claim, Claimable
  <2> QED BY <1>2, <1>3, <1>4, <1>5, <1>6, <1>9, <2>1
<1>10. ASSUME NEW w \in Worker, Heartbeat(w)
       PROVE  holder'[Doing(v)] = v /\ ttl'[Doing(v)] + beat'[v] + Lost(faults') >= Lease
  <2>1. Leased(v) /\ holder' = holder /\ beat' = [beat EXCEPT ![w] = 0] /\ beat[w] = Beat
    BY <1>3, <1>10, <1>4, <1>5 DEF Heartbeat, Claim, Leased, Leasing
  <2>2. ttl' = IF holder[Doing(w)] = w THEN [ttl EXCEPT ![Doing(w)] = Lease] ELSE ttl
    BY <1>10 DEF Heartbeat, OwnsLease
  <2>3. CASE w = v
    <3>1. holder'[Doing(v)] = v /\ ttl'[Doing(v)] = Lease /\ beat'[v] = 0
      BY <1>4, <1>5, <1>6, <2>1, <2>2, <2>3
    <3> QED BY <1>2, <1>5, <3>1
  <2>4. CASE w # v
    <3>1. holder'[Doing(v)] = v /\ ttl'[Doing(v)] \in {ttl[Doing(v)], Lease} /\ beat'[v] = beat[v]
      BY <1>4, <1>5, <1>6, <2>1, <2>2, <2>4
    <3>2. beat[v] \in Nat
      BY <1>5
    <3> QED BY <1>2, <1>5, <1>6, <2>1, <3>1, <3>2
  <2> QED BY <2>3, <2>4
<1>11. ASSUME NEW w \in Worker, HeartbeatFails(w)
       PROVE  holder'[Doing(v)] = v /\ ttl'[Doing(v)] + beat'[v] + Lost(faults') >= Lease
  <2>1. Leased(v) /\ UNCHANGED <<holder, ttl>> /\ beat' = [beat EXCEPT ![w] = 0]
        /\ beat[w] = Beat /\ faults' = faults + 1
    BY <1>3, <1>11 DEF HeartbeatFails, Claim, Fault, Leased, Leasing, row
  <2>2. Lost(faults') = Lost(faults) + Beat
    BY <1>1, <2>1, LostSteps
  <2>3. beat'[v] = beat[v] \/ (beat'[v] = 0 /\ beat[v] = Beat)
    BY <1>5, <2>1
  <2> QED BY <1>2, <1>4, <1>5, <1>6, <2>1, <2>2, <2>3
<1>12. ASSUME Tick
       PROVE  holder'[Doing(v)] = v /\ ttl'[Doing(v)] + beat'[v] + Lost(faults') >= Lease
  <2>1. Leased(v) /\ beat[v] < Beat /\ holder' = holder
    BY <1>3, <1>12, <1>4, <1>5 DEF Tick, Claim, Leased, Leasing
  <2>2. beat'[v] = beat[v] + 1 /\ ttl'[Doing(v)] = ttl[Doing(v)] - 1
    BY <1>4, <1>5, <1>6, <1>12, <2>1 DEF Tick
  <2>3. beat[v] \in Nat /\ ttl[Doing(v)] \in Int /\ Lease \in Nat
    BY <1>4, <1>5
  <2>4. holder'[Doing(v)] = v /\ ttl[Doing(v)] + beat[v] + Lost(faults) >= Lease
    BY <1>6, <2>1
  <2>5. ttl'[Doing(v)] + beat'[v] = ttl[Doing(v)] + beat[v]
    BY <2>2, <2>3
  <2>6. ttl'[Doing(v)] + beat'[v] \in Int
    BY <2>2, <2>3
  <2>7. ttl'[Doing(v)] + beat'[v] + Lost(faults') >= Lease
    BY <1>2, <2>3, <2>4, <2>5, <2>6
  <2> QED BY <2>4, <2>7
<1>13. ASSUME NEW e \in pending, GrowsStale(e) PROVE UNCHANGED <<holder, ttl, beat>>
  BY <1>13 DEF GrowsStale, row, work
<1>14. UNCHANGED vars => UNCHANGED <<holder, ttl, beat>>
  BY DEF vars, row, work
<1> QED BY <1>1, <1>3, <1>7, <1>8, <1>9, <1>10, <1>11, <1>12, <1>13, <1>14, ApiSteps,
           SchedulerSteps, LeaseWrites DEF Next, work

LEMMA LeaseInvariance == Prompt /\ Spec => []LeaseInv
<1>1. Init => LeaseInv
  BY InitTypeOK DEF Init, LeaseInv, Leased, Leasing
<1> SUFFICES ASSUME Prompt PROVE Spec => []LeaseInv
  OBVIOUS
<1>2. LeaseInv /\ [Next]_vars => LeaseInv'
  BY LeaseInvStep
<1> QED BY <1>1, <1>2, PTL DEF Spec

(* As long as the calls that have failed leave room for one more beat, at  *)
(* most one worker executes a task, whatever the stream delivers again.    *)
THEOREM OneExecutorWhileCovered ==
  ASSUME Prompt
  PROVE  Spec => [](Covered => OneExecutorPerTask)
<1>1. LeaseInv => (Covered => OneExecutorPerTask)
  BY NotClaimable DEF LeaseInv, OneExecutorPerTask
<1> QED BY <1>1, LeaseInvariance, PTL

(* With a lease that all the failures of a run fit into, always.           *)
THEOREM OneExecutor ==
  ASSUME Prompt, Beat * MaxFaults + Beat <= Lease
  PROVE  Spec => []OneExecutorPerTask
<1>1. TypeOK => Covered
  <2>1. \A n \in 0..MaxFaults : Beat * n <= Beat * MaxFaults /\ Beat * n \in Nat
    BY Bounds
  <2> QED BY <2>1, Bounds DEF TypeOK, BoundsType, Covered, Lost
<1> QED BY <1>1, TypeCorrect, OneExecutorWhileCovered, PTL

=============================================================================
