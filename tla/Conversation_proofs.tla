--------------------------- MODULE Conversation_proofs ---------------------------
(***************************************************************************)
(* Proofs about a session's conversation, for any number of requests, any  *)
(* queue and any interleaving of runs, observers, records and shutdowns.   *)
(***************************************************************************)
EXTENDS Conversation, FiniteSetTheorems, TLAPS

Places == {"no", "posted", "known", "open", "going", "locked", "failing", "ending", "over"}
Stages == {"no", "due", "begun", "recorded", "failed", "dropped"}

(* What the proofs need of the types: nothing of the clock and of the      *)
(* bounds of the model.                                                    *)
Course == [via : Way \cup {None}, sent : Nat, text : BOOLEAN, at : Places]
Watcher == [on : BOOLEAN, got : Nat, answered : BOOLEAN, done : BOOLEAN, orphan : BOOLEAN]

RunType == run \in [Request -> Course]
QueueType == queue \in [Request -> Seq(Event \cup {"end"})]
ObserverType == observer \in [Request -> Watcher]
RecordType ==
    /\ DOMAIN record = Request
    /\ \A r \in Request : /\ record[r] = [is |-> record[r].is, t |-> record[r].t]
                          /\ record[r].is \in Stages
AppType == app \in [up : BOOLEAN, draining : BOOLEAN, active : Nat]
SocketType == socket \in Request \cup {None, Closed}

Typed == RunType /\ QueueType /\ ObserverType /\ RecordType /\ AppType /\ SocketType

-----------------------------------------------------------------------------
LEMMA EmptySeq == <<>> \in Seq(Event \cup {"end"})
OBVIOUS

(* An observer that is given an event, and one that is told it is done.    *)
LEMMA Shown ==
    ASSUME NEW r \in Request, NEW e, ObserverType,
           observer' = [observer EXCEPT ![r].got = @ + 1, ![r].answered = @ \/ e = "answer"]
    PROVE  ObserverType'
<1> DEFINE b == observer[r].answered \/ e = "answer"
<1> DEFINE x == [observer[r] EXCEPT !.got = @ + 1, !.answered = b]
<1>0. b \in BOOLEAN
  BY Zenon
<1>2. observer' = [observer EXCEPT ![r] = x]
  BY DEF ObserverType, Watcher
<1>3. x \in Watcher
  <2> HIDE DEF b
  <2>1. observer[r] \in Watcher
    BY DEF ObserverType
  <2>2. observer[r].got + 1 \in Nat
    BY <2>1 DEF Watcher
  <2> QED BY <2>1, <2>2, <1>0 DEF Watcher
<1> HIDE DEF x
<1> QED BY <1>3, <1>2 DEF ObserverType

LEMMA Served ==
    ASSUME NEW r \in Request, ObserverType,
           observer' = [observer EXCEPT ![r].on = FALSE, ![r].done = TRUE]
    PROVE  ObserverType'
<1> DEFINE x == [observer[r] EXCEPT !.on = FALSE, !.done = TRUE]
<1>1. x \in Watcher
  BY DEF ObserverType, Watcher
<1>2. observer' = [observer EXCEPT ![r] = x]
  BY DEF ObserverType, Watcher
<1> HIDE DEF x
<1> QED BY <1>1, <1>2 DEF ObserverType

-----------------------------------------------------------------------------
(* Each variable keeps its type.                                           *)
LEMMA RunTyped == Typed /\ [Next]_vars => RunType'
<1> SUFFICES ASSUME Typed, [Next]_vars PROVE RunType'
  OBVIOUS
<1>1. ASSUME NEW r \in Request, Acquire(r) PROVE RunType'
  BY <1>1 DEF Acquire, Typed, RunType, Course, Places, Way
<1>2. ASSUME NEW r \in Request, Refuse(r) PROVE RunType'
  BY <1>2 DEF Refuse, Finish, Uncounted, Typed, RunType, Course, Places, Way
<1>3. ASSUME NEW r \in Request, RunEnds(r) PROVE RunType'
  BY <1>3 DEF RunEnds, Finish, Uncounted, Typed, RunType, Course, Places, Way
<1>4. ASSUME NEW r \in Request, PutError(r) PROVE RunType'
  BY <1>4 DEF PutError, Typed, RunType, Course, Places, Way
<1>5. ASSUME NEW r \in Request, PutEnd(r) PROVE RunType'
  BY <1>5 DEF PutEnd, Typed, RunType, Course, Places, Way
<1>6. ASSUME NEW r \in Request, NEW e \in {"step", "answer"}, Emit(r, e) PROVE RunType'
  <2> DEFINE t == run[r].text \/ e = "answer"
  <2> DEFINE x == [run[r] EXCEPT !.sent = @ + 1, !.text = t]
  <2>1. t \in BOOLEAN
    BY Zenon
  <2>2. run' = [run EXCEPT ![r] = x]
    BY <1>6 DEF Emit, Typed, RunType, Course
  <2>3. x \in Course
    <3> HIDE DEF t
    <3>1. run[r] \in Course /\ run[r].sent + 1 \in Nat
      BY DEF Typed, RunType, Course
    <3> QED BY <2>1, <3>1 DEF Course
  <2> HIDE DEF x
  <2> QED BY <2>2, <2>3 DEF Typed, RunType
<1>7. ASSUME NEW r \in Request, NEW via \in Way, Post(r, via) PROVE RunType'
  <2> DEFINE x == [run[r] EXCEPT !.via = via, !.at = "posted"]
  <2>1. run' = [run EXCEPT ![r] = x]
    BY <1>7 DEF Post, Typed, RunType, Course
  <2>2. run[r] \in Course
    BY DEF Typed, RunType
  <2>3. x \in Course
    BY <2>2, <1>7 DEF Course, Places, Way
  <2> HIDE DEF x
  <2> QED BY <2>1, <2>3 DEF Typed, RunType
<1>7a. ASSUME NEW r \in Request, Ensure(r) PROVE RunType'
  BY <1>7a DEF Ensure, Typed, RunType, Course, Places, Way
<1>7b. ASSUME NEW r \in Request, Handle(r) PROVE RunType'
  BY <1>7b DEF Handle, Typed, RunType, Course, Places, Way
<1>8. ASSUME NEW r \in Request, Turned(r) PROVE RunType'
  BY <1>8 DEF Turned, Typed, RunType, Course, Places, Way
<1>9. ASSUME NEW r \in Request, Start(r) PROVE RunType'
  BY <1>9 DEF Start, Typed, RunType, Course, Places, Way
<1>10. ASSUME NEW r \in Request, LeaveUnstarted(r) PROVE RunType'
  BY <1>10 DEF LeaveUnstarted, Typed, RunType, Course, Places, Way
<1>11. ASSUME NEW r \in Request, Send(r) PROVE RunType'
  BY <1>11 DEF Send, Typed, RunType, Course, Places, Way
<1>12. ASSUME NEW r \in Request, RunFails(r) PROVE RunType'
  BY <1>12 DEF RunFails, Uncounted, Typed, RunType, Course, Places, Way
<1>13. CASE CancelMessage
  BY <1>13 DEF CancelMessage, Cancelled, Typed, RunType, Course, Places, Way
<1>14. CASE Close
  BY <1>14 DEF Close, Cancelled, Typed, RunType, Course, Places, Way
<1>15. CASE Exit
  BY <1>15 DEF Exit, Dead, Typed, RunType, Course, Places, Way
<1>16. CASE Die
  BY <1>16 DEF Die, Dead, Typed, RunType, Course, Places, Way
<1>17. ASSUME NEW r \in Request, Begin(r) \/ Commit(r) \/ Observe(r) \/ Disconnect(r)
     \/ OrphanGets(r) \/ PersistFails(r) PROVE RunType'
  BY <1>17 DEF Begin, Commit, Observe, Disconnect, OrphanGets, PersistFails, Typed, RunType, Course,
       Places, Way
<1>18. CASE Connect \/ Create \/ AddMessage \/ Poll \/ RenameReads \/ RenameWrites \/ Shutdown
     \/ Restart \/ UNCHANGED vars
  BY <1>18 DEF Connect, Create, AddMessage, Poll, RenameReads, RenameWrites, Shutdown, Restart,
       Edit, Typed, RunType, Course, Places, Way, vars
<1> QED BY <1>1, <1>2, <1>3, <1>4, <1>5, <1>6, <1>7, <1>7a, <1>7b, <1>8, <1>9, <1>10, <1>11, <1>12,
     <1>13, <1>14, <1>15, <1>16, <1>17, <1>18 DEF Next, RunStep, Client

LEMMA QueueTyped == Typed /\ [Next]_vars => QueueType'
<1> SUFFICES ASSUME Typed, [Next]_vars PROVE QueueType'
  OBVIOUS
<1>1. ASSUME NEW r \in Request, PutError(r) PROVE QueueType'
  BY <1>1 DEF PutError, Typed, QueueType, Event
<1>2. ASSUME NEW r \in Request, PutEnd(r) PROVE QueueType'
  BY <1>2 DEF PutEnd, Typed, QueueType, Event
<1>3. ASSUME NEW r \in Request, NEW e \in {"step", "answer"}, Emit(r, e) PROVE QueueType'
  <2>1. Append(queue[r], e) \in Seq(Event \cup {"end"})
    BY DEF Typed, QueueType, Event
  <2>2. queue' = queue \/ queue' = [queue EXCEPT ![r] = Append(queue[r], e)]
    BY <1>3 DEF Emit, Received
  <2> QED BY <2>1, <2>2 DEF Typed, QueueType
<1>4. ASSUME NEW r \in Request, Observe(r) PROVE QueueType'
  BY <1>4 DEF Observe, Uncounted, Typed, QueueType, Event
<1>5. ASSUME NEW r \in Request, OrphanGets(r) PROVE QueueType'
  BY <1>5 DEF OrphanGets, Typed, QueueType, Event
<1>6. CASE Exit
  BY EmptySeq, <1>6 DEF Exit, Dead, Typed, QueueType, Event
<1>7. CASE Die
  BY EmptySeq, <1>7 DEF Die, Dead, Typed, QueueType, Event
<1>8. ASSUME NEW r \in Request, Acquire(r) \/ Refuse(r) \/ RunEnds(r) \/ Begin(r) \/ Commit(r)
     \/ (\E via \in Way : Post(r, via)) \/ Ensure(r) \/ Handle(r) \/ Turned(r) \/ Start(r)
     \/ LeaveUnstarted(r) \/ Disconnect(r) \/ Send(r) \/ RunFails(r) \/ PersistFails(r)
     PROVE QueueType'
  BY <1>8 DEF Acquire, Refuse, RunEnds, Begin, Commit, Post, Ensure, Handle, Turned, Start, LeaveUnstarted,
       Disconnect, Send, RunFails, PersistFails, Typed, QueueType, Event
<1>9. CASE Connect \/ CancelMessage \/ Close \/ Create \/ AddMessage \/ Poll \/ RenameReads
     \/ RenameWrites \/ Shutdown \/ Restart \/ UNCHANGED vars
  BY <1>9 DEF Connect, CancelMessage, Close, Create, AddMessage, Poll, RenameReads, RenameWrites,
       Shutdown, Restart, Edit, Typed, QueueType, Event, vars
<1> QED BY <1>1, <1>2, <1>3, <1>4, <1>5, <1>6, <1>7, <1>8, <1>9 DEF Next, RunStep, Client

LEMMA ObserverTyped == Typed /\ [Next]_vars => ObserverType'
<1> SUFFICES ASSUME Typed, [Next]_vars PROVE ObserverType'
  OBVIOUS
<1>1. ASSUME NEW r \in Request, Refuse(r) PROVE ObserverType'
  BY <1>1, Served DEF Refuse, Finish, Typed, ObserverType, Watcher
<1>2. ASSUME NEW r \in Request, RunEnds(r) PROVE ObserverType'
  BY <1>2, Served DEF RunEnds, Finish, Typed, ObserverType, Watcher
<1>3. ASSUME NEW r \in Request, NEW e \in {"step", "answer"}, Emit(r, e) PROVE ObserverType'
  BY <1>3, Shown DEF Emit, Received, Typed, ObserverType, Watcher
<1>4. ASSUME NEW r \in Request, NEW via \in Way, Post(r, via) PROVE ObserverType'
  BY <1>4 DEF Post, Typed, ObserverType, Watcher
<1>5. ASSUME NEW r \in Request, LeaveUnstarted(r) PROVE ObserverType'
  BY <1>5 DEF LeaveUnstarted, Typed, ObserverType, Watcher
<1>6. ASSUME NEW r \in Request, Observe(r) PROVE ObserverType'
  BY <1>6, Served, Shown DEF Observe, Typed
<1>7. ASSUME NEW r \in Request, Disconnect(r) PROVE ObserverType'
  <2>1. PICK b \in BOOLEAN : observer' = [observer EXCEPT ![r].on = FALSE, ![r].orphan = b]
    BY <1>7 DEF Disconnect
  <2> QED BY <2>1 DEF Typed, ObserverType, Watcher
<1>8. ASSUME NEW r \in Request, OrphanGets(r) PROVE ObserverType'
  BY <1>8 DEF OrphanGets, Typed, ObserverType, Watcher
<1>9. ASSUME NEW r \in Request, Send(r) PROVE ObserverType'
  BY <1>9 DEF Send, Typed, ObserverType, Watcher
<1>10. ASSUME NEW r \in Request, RunFails(r) PROVE ObserverType'
  <2>1. observer' = observer \/ observer' = [observer EXCEPT ![r].on = FALSE]
    BY <1>10 DEF RunFails
  <2> QED BY <2>1 DEF Typed, ObserverType, Watcher
<1>11. CASE Close
  BY <1>11 DEF Close, Cancelled, Typed, ObserverType, Watcher
<1>12. CASE Exit
  BY <1>12 DEF Exit, Dead, Typed, ObserverType, Watcher
<1>13. CASE Die
  BY <1>13 DEF Die, Dead, Typed, ObserverType, Watcher
<1>14. ASSUME NEW r \in Request, Acquire(r) \/ PutError(r) \/ PutEnd(r) \/ Begin(r) \/ Commit(r)
     \/ Ensure(r) \/ Handle(r) \/ Turned(r) \/ Start(r) \/ PersistFails(r) PROVE ObserverType'
  BY <1>14 DEF Acquire, PutError, PutEnd, Begin, Commit, Ensure, Handle, Turned, Start, PersistFails, Typed,
       ObserverType, Watcher
<1>15. CASE Connect \/ CancelMessage \/ Create \/ AddMessage \/ Poll \/ RenameReads \/ RenameWrites
     \/ Shutdown \/ Restart \/ UNCHANGED vars
  BY <1>15 DEF Connect, CancelMessage, Create, AddMessage, Poll, RenameReads, RenameWrites,
       Shutdown, Restart, Edit, Typed, ObserverType, Watcher, vars
<1> QED BY <1>1, <1>2, <1>3, <1>4, <1>5, <1>6, <1>7, <1>8, <1>9, <1>10, <1>11, <1>12, <1>13, <1>14,
     <1>15 DEF Next, RunStep, Client

LEMMA RecordTyped == Typed /\ [Next]_vars => RecordType'
<1> SUFFICES ASSUME Typed, [Next]_vars PROVE RecordType'
  OBVIOUS
<1>1. ASSUME NEW r \in Request, Refuse(r) PROVE RecordType'
  BY <1>1 DEF Refuse, Finish, Uncounted, Typed, RecordType, Stages
<1>2. ASSUME NEW r \in Request, RunEnds(r) PROVE RecordType'
  BY <1>2 DEF RunEnds, Finish, Uncounted, Typed, RecordType, Stages
<1>3. ASSUME NEW r \in Request, PutError(r) PROVE RecordType'
  BY <1>3 DEF PutError, Typed, RecordType, Stages
<1>4. ASSUME NEW r \in Request, Begin(r) PROVE RecordType'
  BY <1>4 DEF Begin, Typed, RecordType, Stages
<1>5. ASSUME NEW r \in Request, Commit(r) PROVE RecordType'
  BY <1>5 DEF Commit, Typed, RecordType, Stages
<1>6. ASSUME NEW r \in Request, Turned(r) PROVE RecordType'
  BY <1>6 DEF Turned, Typed, RecordType, Stages
<1>7. ASSUME NEW r \in Request, LeaveUnstarted(r) PROVE RecordType'
  BY <1>7 DEF LeaveUnstarted, Typed, RecordType, Stages
<1>8. ASSUME NEW r \in Request, RunFails(r) PROVE RecordType'
  BY <1>8 DEF RunFails, Uncounted, Typed, RecordType, Stages
<1>9. ASSUME NEW r \in Request, PersistFails(r) PROVE RecordType'
  BY <1>9 DEF PersistFails, Typed, RecordType, Stages
<1>10. CASE CancelMessage
  BY <1>10 DEF CancelMessage, Cancelled, Typed, RecordType, Stages
<1>11. CASE Close
  BY <1>11 DEF Close, Cancelled, Typed, RecordType, Stages
<1>12. CASE Exit
  BY <1>12 DEF Exit, Dead, Typed, RecordType, Stages
<1>13. CASE Die
  BY <1>13 DEF Die, Dead, Typed, RecordType, Stages
<1>14. ASSUME NEW r \in Request, Acquire(r) \/ PutEnd(r) \/ (\E e \in {"step", "answer"} : Emit(r,
     e)) \/ (\E via \in Way : Post(r, via)) \/ Ensure(r) \/ Handle(r) \/ Start(r) \/ Observe(r)
     \/ Disconnect(r) \/ OrphanGets(r) \/ Send(r) PROVE RecordType'
  BY <1>14 DEF Acquire, PutEnd, Emit, Post, Ensure, Handle, Start, Observe, Disconnect, OrphanGets, Send, Typed,
       RecordType, Stages
<1>15. CASE Connect \/ Create \/ AddMessage \/ Poll \/ RenameReads \/ RenameWrites \/ Shutdown
     \/ Restart \/ UNCHANGED vars
  BY <1>15 DEF Connect, Create, AddMessage, Poll, RenameReads, RenameWrites, Shutdown, Restart,
       Edit, Typed, RecordType, Stages, vars
<1> QED BY <1>1, <1>2, <1>3, <1>4, <1>5, <1>6, <1>7, <1>8, <1>9, <1>10, <1>11, <1>12, <1>13, <1>14,
     <1>15 DEF Next, RunStep, Client

LEMMA AppTyped == Typed /\ [Next]_vars => AppType'
<1> SUFFICES ASSUME Typed, [Next]_vars PROVE AppType'
  OBVIOUS
<1>1. ASSUME NEW r \in Request, Refuse(r) PROVE AppType'
  BY <1>1 DEF Refuse, Finish, Uncounted, Typed, AppType
<1>2. ASSUME NEW r \in Request, RunEnds(r) PROVE AppType'
  BY <1>2 DEF RunEnds, Finish, Uncounted, Typed, AppType
<1>3. ASSUME NEW r \in Request, Handle(r) PROVE AppType'
  BY <1>3 DEF Handle, Typed, AppType
<1>4. ASSUME NEW r \in Request, Observe(r) PROVE AppType'
  BY <1>4 DEF Observe, Uncounted, Typed, AppType
<1>5. ASSUME NEW r \in Request, Disconnect(r) PROVE AppType'
  BY <1>5 DEF Disconnect, Uncounted, Typed, AppType
<1>6. ASSUME NEW r \in Request, RunFails(r) PROVE AppType'
  BY <1>6 DEF RunFails, Uncounted, Typed, AppType
<1>7. CASE Shutdown
  BY <1>7 DEF Shutdown, Typed, AppType
<1>8. CASE Exit
  BY <1>8 DEF Exit, Dead, Typed, AppType
<1>9. CASE Die
  BY <1>9 DEF Die, Dead, Typed, AppType
<1>10. CASE Restart
  BY <1>10 DEF Restart, Typed, AppType
<1>11. ASSUME NEW r \in Request, Acquire(r) \/ PutError(r) \/ PutEnd(r) \/ Begin(r) \/ Commit(r)
     \/ (\E e \in {"step", "answer"} : Emit(r, e)) \/ (\E via \in Way : Post(r, via)) \/ Ensure(r)
     \/ Turned(r) \/ Start(r) \/ LeaveUnstarted(r) \/ OrphanGets(r) \/ Send(r) \/ PersistFails(r)
     PROVE AppType'
  BY <1>11 DEF Acquire, PutError, PutEnd, Begin, Commit, Emit, Post, Ensure, Turned, Start, LeaveUnstarted,
       OrphanGets, Send, PersistFails, Typed, AppType
<1>12. CASE Connect \/ CancelMessage \/ Close \/ Create \/ AddMessage \/ Poll \/ RenameReads
     \/ RenameWrites \/ UNCHANGED vars
  BY <1>12 DEF Connect, CancelMessage, Close, Create, AddMessage, Poll, RenameReads, RenameWrites,
       Edit, Typed, AppType, vars
<1> QED BY <1>1, <1>2, <1>3, <1>4, <1>5, <1>6, <1>7, <1>8, <1>9, <1>10, <1>11, <1>12 DEF Next,
     RunStep, Client

LEMMA SocketTyped == Typed /\ [Next]_vars => SocketType'
<1> SUFFICES ASSUME Typed, [Next]_vars PROVE SocketType'
  OBVIOUS
<1>1. ASSUME NEW r \in Request, Send(r) PROVE SocketType'
  BY <1>1 DEF Send, Typed, SocketType
<1>2. CASE Connect
  BY <1>2 DEF Connect, Ensured, Typed, SocketType
<1>3. CASE Close
  BY <1>3 DEF Close, Cancelled, Typed, SocketType
<1>4. CASE Exit
  BY <1>4 DEF Exit, Dead, Typed, SocketType
<1>5. CASE Die
  BY <1>5 DEF Die, Dead, Typed, SocketType
<1>6. ASSUME NEW r \in Request, Acquire(r) \/ Refuse(r) \/ RunEnds(r) \/ PutError(r) \/ PutEnd(r)
     \/ Begin(r) \/ Commit(r) \/ (\E e \in {"step", "answer"} : Emit(r, e))
     \/ (\E via \in Way : Post(r, via)) \/ Ensure(r) \/ Handle(r) \/ Turned(r) \/ Start(r)
     \/ LeaveUnstarted(r) \/ Observe(r) \/ Disconnect(r) \/ OrphanGets(r) \/ RunFails(r) \/ PersistFails(r) PROVE SocketType'
  BY <1>6 DEF Acquire, Refuse, RunEnds, PutError, PutEnd, Begin, Commit, Emit, Post, Ensure, Handle,
       Turned, Start, LeaveUnstarted, Observe, Disconnect, OrphanGets, RunFails, PersistFails, Typed,
       SocketType
<1>7. CASE CancelMessage \/ Create \/ AddMessage \/ Poll \/ RenameReads \/ RenameWrites \/ Shutdown
     \/ Restart \/ UNCHANGED vars
  BY <1>7 DEF CancelMessage, Create, AddMessage, Poll, RenameReads, RenameWrites, Shutdown, Restart,
       Edit, Typed, SocketType, vars
<1> QED BY <1>1, <1>2, <1>3, <1>4, <1>5, <1>6, <1>7 DEF Next, RunStep, Client

-----------------------------------------------------------------------------
(* What is true of each request by itself: before it arrives it has left   *)
(* no trace; an observer still there has received or has queued every      *)
(* event sent; the end mark is the queue's last; an answer shown or queued *)
(* is one the run gave; its rows are those of its turn, once recorded.     *)
Quiet(r) ==
    run[r].at = "no" =>
        /\ run[r].via = None /\ run[r].sent = 0 /\ queue[r] = <<>> /\ record[r].is = "no"
        /\ observer[r].got = 0 /\ ~observer[r].on /\ ~observer[r].answered
        /\ ~observer[r].done /\ ~observer[r].orphan
Placed(r) ==
    /\ run[r].at \in {"open", "failing", "ending"} => run[r].via = "sse"
    /\ run[r].at \in {"posted", "known"} =>
          run[r].via \in {"sse", "json"} /\ observer[r].on /\ queue[r] = <<>>
    /\ run[r].via = "json" /\ run[r].at \in {"going", "locked"} => observer[r].on
    /\ record[r].is \in {"due", "begun", "recorded", "failed"} => run[r].at \in {"ending", "over"}
InStep(r) ==
    run[r].via = "sse" =>
        /\ observer[r].on => observer[r].got + Len(queue[r]) = run[r].sent + (IF run[r].at = "over" THEN 1 ELSE 0)
        /\ observer[r].done => ~observer[r].on /\ run[r].at = "over" /\ observer[r].got = run[r].sent
        /\ observer[r].orphan => ~observer[r].on
EndIsLast(r) ==
    \A i \in 1..Len(queue[r]) : queue[r][i] = "end" => i = Len(queue[r]) /\ run[r].at = "over"
Worded(r) ==
    observer[r].answered \/ (\E i \in 1..Len(queue[r]) : queue[r][i] = "answer") => run[r].text
Kept(r) == {m \in messages : m.req = r} = IF record[r].is = "recorded" THEN Turn(r) ELSE {}
Sound(r) == Quiet(r) /\ Placed(r) /\ InStep(r) /\ EndIsLast(r) /\ Worded(r) /\ Kept(r)

(* The websocket's latest run was started by it; nobody watches a process  *)
(* that is down.                                                           *)
Wired == socket \in Request => run[socket].via = "ws" /\ run[socket].at # "no"
Down == ~Alive => \A r \in Request : ~observer[r].on

(* A request a step does not touch.                                        *)
Same(r) ==
    /\ run'[r] = run[r] /\ queue'[r] = queue[r] /\ observer'[r] = observer[r] /\ record'[r] = record[r]
    /\ {m \in messages' : m.req = r} = {m \in messages : m.req = r}

(* What an observer that is given an event has then.                       *)
LEMMA ShownAt ==
    ASSUME NEW r \in Request, NEW e, ObserverType,
           observer' = [observer EXCEPT ![r].got = @ + 1, ![r].answered = @ \/ e = "answer"]
    PROVE  /\ observer'[r].got = observer[r].got + 1
           /\ observer'[r].answered => observer[r].answered \/ e = "answer"
           /\ observer'[r].on = observer[r].on /\ observer'[r].done = observer[r].done
           /\ observer'[r].orphan = observer[r].orphan
           /\ \A q \in Request \ {r} : observer'[q] = observer[q]
BY DEF ObserverType, Watcher

(* Queues that grow and shrink.                                            *)
LEMMA Grown ==
    ASSUME NEW S, NEW s \in Seq(S), NEW e \in S
    PROVE  /\ Len(s) \in Nat /\ Len(Append(s, e)) = Len(s) + 1
           /\ \A i \in 1..Len(s) + 1 : Append(s, e)[i] = IF i = Len(s) + 1 THEN e ELSE s[i]
OBVIOUS

LEMMA Shrunk ==
    ASSUME NEW S, NEW s \in Seq(S), s # <<>>
    PROVE  /\ Len(s) \in Nat \ {0} /\ Len(Tail(s)) = Len(s) - 1 /\ Head(s) = s[1]
           /\ \A i \in 1..Len(s) - 1 : Tail(s)[i] = s[i + 1]
OBVIOUS

LEMMA Untouched == ASSUME NEW r \in Request, Sound(r), Same(r) PROVE Sound(r)'
BY DEF Same, Sound, Quiet, Placed, InStep, EndIsLast, Worded, Kept, Turn, Said

LEMMA Others ==
    ASSUME NEW r \in Request, Sound(r)', \A q \in Request : Sound(q), \A q \in Request \ {r} : Same(q)
    PROVE  \A q \in Request : Sound(q)'
BY Untouched

LEMMA SoundAcquire ==
    ASSUME Typed, ConversationAssumption, \A q \in Request : Sound(q), NEW r \in Request, Acquire(r)
    PROVE  \A q \in Request : Sound(q)'
<1>1. \A q \in Request \ {r} : Same(q)
  BY DEF Acquire, Same, stored, Typed, RunType, QueueType, ObserverType, RecordType, Course, Watcher
<1>2. Sound(r)'
  <2>1. /\ run[r].at = "going"
       /\ run'[r].at = "locked"
       /\ run'[r].via = run[r].via /\ run'[r].sent = run[r].sent /\ run'[r].text = run[r].text
       /\ observer'[r] = observer[r]
       /\ record'[r] = record[r]
       /\ queue'[r] = queue[r]
       /\ {m \in messages' : m.req = r} = {m \in messages : m.req = r}
    BY DEF Acquire, stored, Typed, RunType, QueueType, ObserverType, RecordType, Course, Watcher
  <2>2. run[r] \in Course /\ observer[r] \in Watcher /\ Sound(r) /\ record[r].is \in Stages
    BY DEF Typed, RunType, ObserverType, RecordType
  <2>3. Quiet(r)'
    BY <2>1, <2>2 DEF Sound, Quiet
  <2>4. Placed(r)'
    BY <2>1, <2>2 DEF Sound, Placed
  <2>5. InStep(r)'
    BY <2>1, <2>2 DEF Sound, InStep, Placed, Course, Watcher
  <2>6. EndIsLast(r)'
    BY <2>1, <2>2 DEF Sound, EndIsLast
  <2>7. Worded(r)'
    BY <2>1, <2>2 DEF Sound, Worded, EndIsLast
  <2>8. Kept(r)'
    BY <2>1, <2>2 DEF Sound, Kept, Turn, Said, Placed, Stages
  <2> QED BY <2>3, <2>4, <2>5, <2>6, <2>7, <2>8 DEF Sound
<1> QED BY <1>1, <1>2, Others

LEMMA SoundRefuse ==
    ASSUME Typed, ConversationAssumption, \A q \in Request : Sound(q), NEW r \in Request, Refuse(r)
    PROVE  \A q \in Request : Sound(q)'
<1>1. \A q \in Request \ {r} : Same(q)
  BY DEF Refuse, Finish, Same, stored, Typed, RunType, QueueType, ObserverType, RecordType, Course,
       Watcher
<1>2. Sound(r)'
  <2>1. CASE run[r].via = "sse"
    <3>1. /\ run[r].at = "going" /\ run[r].via = "sse"
         /\ run'[r].at = "failing"
         /\ run'[r].via = run[r].via /\ run'[r].sent = run[r].sent /\ run'[r].text = run[r].text
         /\ observer'[r] = observer[r]
         /\ record'[r] = record[r]
         /\ queue'[r] = queue[r]
         /\ {m \in messages' : m.req = r} = {m \in messages : m.req = r}
      BY <2>1 DEF Refuse, Finish, stored, Typed, RunType, QueueType, ObserverType, RecordType,
           Course, Watcher
    <3>2. run[r] \in Course /\ observer[r] \in Watcher /\ Sound(r) /\ record[r].is \in Stages
      BY DEF Typed, RunType, ObserverType, RecordType
    <3>3. Quiet(r)'
      BY <3>1, <3>2 DEF Sound, Quiet
    <3>4. Placed(r)'
      BY <3>1, <3>2 DEF Sound, Placed
    <3>5. InStep(r)'
      BY <3>1, <3>2 DEF Sound, InStep, Placed, Course, Watcher
    <3>6. EndIsLast(r)'
      BY <3>1, <3>2 DEF Sound, EndIsLast
    <3>7. Worded(r)'
      BY <3>1, <3>2 DEF Sound, Worded, EndIsLast
    <3>8. Kept(r)'
      BY <3>1, <3>2 DEF Sound, Kept, Turn, Said, Placed, Stages
    <3> QED BY <3>3, <3>4, <3>5, <3>6, <3>7, <3>8 DEF Sound
  <2>2. CASE run[r].via # "sse"
    <3>1. /\ run[r].at = "going" /\ run[r].via # "sse"
         /\ run'[r].at = "over"
         /\ run'[r].via = run[r].via /\ run'[r].sent = run[r].sent /\ run'[r].text = run[r].text
         /\ observer'[r].on = FALSE
         /\ observer'[r].done = TRUE
         /\ observer'[r].got = observer[r].got /\ observer'[r].answered = observer[r].answered /\ observer'[r].orphan = observer[r].orphan
         /\ record'[r].is \in {"due", "dropped"}
         /\ record'[r].t = record[r].t
         /\ queue'[r] = queue[r]
         /\ {m \in messages' : m.req = r} = {m \in messages : m.req = r}
      BY <2>2 DEF Refuse, Finish, stored, Typed, RunType, QueueType, ObserverType, RecordType,
           Course, Watcher
    <3>2. run[r] \in Course /\ observer[r] \in Watcher /\ Sound(r) /\ record[r].is \in Stages
      BY DEF Typed, RunType, ObserverType, RecordType
    <3>3. Quiet(r)'
      BY <3>1, <3>2 DEF Sound, Quiet
    <3>4. Placed(r)'
      BY <3>1, <3>2 DEF Sound, Placed
    <3>5. InStep(r)'
      BY <3>1, <3>2 DEF Sound, InStep, Placed, Course, Watcher
    <3>6. EndIsLast(r)'
      BY <3>1, <3>2 DEF Sound, EndIsLast
    <3>7. Worded(r)'
      BY <3>1, <3>2 DEF Sound, Worded, EndIsLast
    <3>8. Kept(r)'
      BY <3>1, <3>2 DEF Sound, Kept, Turn, Said, Placed, Stages
    <3> QED BY <3>3, <3>4, <3>5, <3>6, <3>7, <3>8 DEF Sound
  <2> QED BY <2>1, <2>2
<1> QED BY <1>1, <1>2, Others

LEMMA SoundRunEnds ==
    ASSUME Typed, ConversationAssumption, \A q \in Request : Sound(q), NEW r \in Request, RunEnds(r)
    PROVE  \A q \in Request : Sound(q)'
<1>1. \A q \in Request \ {r} : Same(q)
  BY DEF RunEnds, Finish, Same, stored, Typed, RunType, QueueType, ObserverType, RecordType, Course,
       Watcher
<1>2. Sound(r)'
  BY DEF RunEnds, Finish, stored, Typed, RunType, QueueType, ObserverType, RecordType, Course,
       Watcher, Sound, Quiet, Placed, InStep, EndIsLast, Worded, Kept, Turn, Said
<1> QED BY <1>1, <1>2, Others

LEMMA SoundPutError ==
    ASSUME Typed, ConversationAssumption, \A q \in Request : Sound(q), NEW r \in Request, PutError(r)
    PROVE  \A q \in Request : Sound(q)'
<1>1. \A q \in Request \ {r} : Same(q)
  BY DEF PutError, Same, stored, Typed, RunType, QueueType, ObserverType, RecordType, Course,
       Watcher
<1>2. Sound(r)'
  <2>1. /\ run[r].at = "failing"
       /\ run'[r].sent = run[r].sent + 1
       /\ run'[r].at = "ending"
       /\ run'[r].via = run[r].via /\ run'[r].text = run[r].text
       /\ observer'[r] = observer[r]
       /\ record'[r].is = "due"
       /\ record'[r].t = record[r].t
       /\ queue'[r] = Append(queue[r], "error")
       /\ {m \in messages' : m.req = r} = {m \in messages : m.req = r}
    BY DEF PutError, stored, Typed, RunType, QueueType, ObserverType, RecordType, Course, Watcher
  <2>2. /\ queue[r] \in Seq(Event \cup {"end"}) /\ Len(queue[r]) \in Nat /\ Len(queue'[r]) = Len(queue[r]) + 1
     /\ \A i \in 1..Len(queue'[r]) : queue'[r][i] = IF i = Len(queue[r]) + 1 THEN "error" ELSE queue[r][i]
    BY <2>1, Grown DEF Typed, QueueType, Event
  <2>3. run[r] \in Course /\ observer[r] \in Watcher /\ Sound(r) /\ record[r].is \in Stages
    BY DEF Typed, RunType, ObserverType, RecordType
  <2>4. run[r].via = "sse" /\ (observer[r].on => observer[r].got + Len(queue[r]) = run[r].sent)
    BY <2>1, <2>2, <2>3 DEF Sound, Placed, InStep, Course, Watcher
  <2>5. observer[r].got \in Nat /\ run[r].sent \in Nat /\ Len(queue[r]) \in Nat
    BY <2>1, <2>2, <2>3, <2>4 DEF Course, Watcher
  <2>6. Len(queue'[r]) = Len(queue[r]) + 1
    BY <2>1, <2>2, <2>3, <2>4, <2>5
  <2>7. run'[r].sent = run[r].sent + 1 /\ run'[r].via = run[r].via /\ run'[r].at # "over" /\ observer'[r] = observer[r]
    BY <2>1, <2>2, <2>3, <2>4, <2>5, <2>6
  <2>8. run'[r].via = "sse" /\ observer'[r].on => observer'[r].got + Len(queue'[r]) = run'[r].sent
    BY SMTT(20), <2>4, <2>5, <2>6, <2>7
  <2>9. Quiet(r)'
    BY <2>1, <2>2, <2>3, <2>4, <2>5, <2>6, <2>7, <2>8 DEF Sound, Quiet
  <2>10. Placed(r)'
    BY <2>1, <2>2, <2>3, <2>4, <2>5, <2>6, <2>7, <2>8 DEF Sound, Placed
  <2>11. InStep(r)'
    BY <2>1, <2>2, <2>3, <2>4, <2>5, <2>6, <2>7, <2>8 DEF Sound, InStep, Placed, Course, Watcher
  <2>12. EndIsLast(r)'
    BY <2>1, <2>2, <2>3, <2>4, <2>5, <2>6, <2>7, <2>8 DEF Sound, EndIsLast
  <2>13. Worded(r)'
    BY <2>1, <2>2, <2>3, <2>4, <2>5, <2>6, <2>7, <2>8 DEF Sound, Worded, EndIsLast
  <2>14. Kept(r)'
    BY <2>1, <2>2, <2>3, <2>4, <2>5, <2>6, <2>7, <2>8 DEF Sound, Kept, Turn, Said, Placed, Stages
  <2> QED BY <2>9, <2>10, <2>11, <2>12, <2>13, <2>14 DEF Sound
<1> QED BY <1>1, <1>2, Others

LEMMA SoundPutEnd ==
    ASSUME Typed, ConversationAssumption, \A q \in Request : Sound(q), NEW r \in Request, PutEnd(r)
    PROVE  \A q \in Request : Sound(q)'
<1>1. \A q \in Request \ {r} : Same(q)
  BY DEF PutEnd, Same, stored, Typed, RunType, QueueType, ObserverType, RecordType, Course, Watcher
<1>2. Sound(r)'
  <2>1. /\ run[r].at = "ending"
       /\ run'[r].at = "over"
       /\ run'[r].via = run[r].via /\ run'[r].sent = run[r].sent /\ run'[r].text = run[r].text
       /\ observer'[r] = observer[r]
       /\ record'[r] = record[r]
       /\ queue'[r] = Append(queue[r], "end")
       /\ {m \in messages' : m.req = r} = {m \in messages : m.req = r}
    BY DEF PutEnd, stored, Typed, RunType, QueueType, ObserverType, RecordType, Course, Watcher
  <2>2. /\ queue[r] \in Seq(Event \cup {"end"}) /\ Len(queue[r]) \in Nat /\ Len(queue'[r]) = Len(queue[r]) + 1
     /\ \A i \in 1..Len(queue'[r]) : queue'[r][i] = IF i = Len(queue[r]) + 1 THEN "end" ELSE queue[r][i]
    BY <2>1, Grown DEF Typed, QueueType, Event
  <2>3. run[r] \in Course /\ observer[r] \in Watcher /\ Sound(r) /\ record[r].is \in Stages
    BY DEF Typed, RunType, ObserverType, RecordType
  <2>4. run[r].via = "sse" /\ observer[r].on => observer[r].got + Len(queue[r]) = run[r].sent
    BY <2>1, <2>2, <2>3 DEF Sound, InStep, Course, Watcher
  <2>5. observer[r].got \in Nat /\ run[r].sent \in Nat /\ Len(queue[r]) \in Nat
    BY <2>1, <2>2, <2>3, <2>4 DEF Course, Watcher
  <2>6. Len(queue'[r]) = Len(queue[r]) + 1
    BY <2>1, <2>2, <2>3, <2>4, <2>5
  <2>7. run'[r].sent = run[r].sent /\ run'[r].via = run[r].via /\ run'[r].at = "over" /\ observer'[r] = observer[r]
    BY <2>1, <2>2, <2>3, <2>4, <2>5, <2>6
  <2>8. run'[r].via = "sse" /\ observer'[r].on => observer'[r].got + Len(queue'[r]) = run'[r].sent + 1
    BY SMTT(20), <2>4, <2>5, <2>6, <2>7
  <2>9. Quiet(r)'
    BY <2>1, <2>2, <2>3, <2>4, <2>5, <2>6, <2>7, <2>8 DEF Sound, Quiet
  <2>10. Placed(r)'
    BY <2>1, <2>2, <2>3, <2>4, <2>5, <2>6, <2>7, <2>8 DEF Sound, Placed
  <2>11. InStep(r)'
    BY <2>1, <2>2, <2>3, <2>4, <2>5, <2>6, <2>7, <2>8 DEF Sound, InStep, Placed, Course, Watcher
  <2>12. EndIsLast(r)'
    BY <2>1, <2>2, <2>3, <2>4, <2>5, <2>6, <2>7, <2>8 DEF Sound, EndIsLast
  <2>13. Worded(r)'
    BY <2>1, <2>2, <2>3, <2>4, <2>5, <2>6, <2>7, <2>8 DEF Sound, Worded, EndIsLast
  <2>14. Kept(r)'
    BY <2>1, <2>2, <2>3, <2>4, <2>5, <2>6, <2>7, <2>8 DEF Sound, Kept, Turn, Said, Placed, Stages
  <2> QED BY <2>9, <2>10, <2>11, <2>12, <2>13, <2>14 DEF Sound
<1> QED BY <1>1, <1>2, Others

LEMMA SoundBegin ==
    ASSUME Typed, ConversationAssumption, \A q \in Request : Sound(q), NEW r \in Request, Begin(r)
    PROVE  \A q \in Request : Sound(q)'
<1>1. \A q \in Request \ {r} : Same(q)
  BY DEF Begin, Same, stored, Typed, RunType, QueueType, ObserverType, RecordType, Course, Watcher
<1>2. Sound(r)'
  BY DEF Begin, stored, Typed, RunType, QueueType, ObserverType, RecordType, Course, Watcher, Sound,
       Quiet, Placed, InStep, EndIsLast, Worded, Kept, Turn, Said
<1> QED BY <1>1, <1>2, Others

LEMMA SoundCommit ==
    ASSUME Typed, ConversationAssumption, \A q \in Request : Sound(q), NEW r \in Request, Commit(r)
    PROVE  \A q \in Request : Sound(q)'
<1>1. \A q \in Request \ {r} : Same(q)
  BY DEF Commit, Same, Turn, Said, stored, Typed, RunType, QueueType, ObserverType, RecordType,
       Course, Watcher
<1>2. Sound(r)'
  BY DEF Commit, stored, Typed, RunType, QueueType, ObserverType, RecordType, Course, Watcher,
       Sound, Quiet, Placed, InStep, EndIsLast, Worded, Kept, Turn, Said
<1> QED BY <1>1, <1>2, Others

LEMMA SoundEmit ==
    ASSUME Typed, ConversationAssumption, \A q \in Request : Sound(q), NEW r \in Request, NEW e \in {"step", "answer"}, Emit(r, e)
    PROVE  \A q \in Request : Sound(q)'
<1>1. \A q \in Request \ {r} : Same(q)
  BY DEF Emit, Received, Same, stored, Typed, RunType, QueueType, ObserverType, RecordType, Course,
       Watcher
<1>2. Sound(r)'
  <2>1. CASE run[r].via = "sse"
    <3>1. /\ run[r].at = "locked" /\ run[r].via = "sse"
         /\ run'[r].sent = run[r].sent + 1
         /\ (run[r].text \/ e = "answer" => run'[r].text)
         /\ run'[r].via = run[r].via /\ run'[r].at = run[r].at
         /\ observer'[r] = observer[r]
         /\ record'[r] = record[r]
         /\ queue'[r] = Append(queue[r], e)
         /\ {m \in messages' : m.req = r} = {m \in messages : m.req = r}
      BY <2>1 DEF Emit, Received, stored, Typed, RunType, QueueType, ObserverType, RecordType,
           Course, Watcher
    <3>2. /\ queue[r] \in Seq(Event \cup {"end"}) /\ Len(queue[r]) \in Nat /\ Len(queue'[r]) = Len(queue[r]) + 1
     /\ \A i \in 1..Len(queue'[r]) : queue'[r][i] = IF i = Len(queue[r]) + 1 THEN e ELSE queue[r][i]
      BY <3>1, Grown DEF Typed, QueueType, Event
    <3>3. run[r] \in Course /\ observer[r] \in Watcher /\ Sound(r) /\ record[r].is \in Stages
      BY DEF Typed, RunType, ObserverType, RecordType
    <3>4. run[r].via = "sse" /\ observer[r].on => observer[r].got + Len(queue[r]) = run[r].sent
      BY <3>1, <3>2, <3>3 DEF Sound, InStep, Course, Watcher
    <3>5. observer[r].got \in Nat /\ run[r].sent \in Nat /\ Len(queue[r]) \in Nat
      BY <3>1, <3>2, <3>3, <3>4 DEF Course, Watcher
    <3>6. Len(queue'[r]) = Len(queue[r]) + 1
      BY <3>1, <3>2, <3>3, <3>4, <3>5
    <3>7. run'[r].sent = run[r].sent + 1 /\ run'[r].via = run[r].via /\ run'[r].at # "over" /\ observer'[r] = observer[r]
      BY <3>1, <3>2, <3>3, <3>4, <3>5, <3>6
    <3>8. run'[r].via = "sse" /\ observer'[r].on => observer'[r].got + Len(queue'[r]) = run'[r].sent
      BY <3>4, <3>5, <3>6, <3>7
    <3>9. Quiet(r)'
      BY <3>1, <3>2, <3>3, <3>4, <3>5, <3>6, <3>7, <3>8 DEF Sound, Quiet
    <3>10. Placed(r)'
      BY <3>1, <3>2, <3>3, <3>4, <3>5, <3>6, <3>7, <3>8 DEF Sound, Placed
    <3>11. InStep(r)'
      BY <3>1, <3>2, <3>3, <3>4, <3>5, <3>6, <3>7, <3>8 DEF Sound, InStep, Placed, Course, Watcher
    <3>12. EndIsLast(r)'
      BY <3>1, <3>2, <3>3, <3>4, <3>5, <3>6, <3>7, <3>8 DEF Sound, EndIsLast
    <3>13. Worded(r)'
      BY <3>1, <3>2, <3>3, <3>4, <3>5, <3>6, <3>7, <3>8 DEF Sound, Worded, EndIsLast
    <3>14. Kept(r)'
      BY <3>1, <3>2, <3>3, <3>4, <3>5, <3>6, <3>7, <3>8 DEF Sound, Kept, Turn, Said, Placed, Stages
    <3> QED BY <3>9, <3>10, <3>11, <3>12, <3>13, <3>14 DEF Sound
  <2>2. CASE run[r].via # "sse"
    <3>1. /\ run[r].at = "locked" /\ run[r].via # "sse"
         /\ run'[r].sent = run[r].sent + 1
         /\ (run[r].text \/ e = "answer" => run'[r].text)
         /\ run'[r].via = run[r].via /\ run'[r].at = run[r].at
         /\ observer'[r].got = observer[r].got + 1
         /\ (observer'[r].answered => observer[r].answered \/ e = "answer")
         /\ observer'[r].on = observer[r].on /\ observer'[r].done = observer[r].done /\ observer'[r].orphan = observer[r].orphan
         /\ record'[r] = record[r]
         /\ queue'[r] = queue[r]
         /\ {m \in messages' : m.req = r} = {m \in messages : m.req = r}
      BY <2>2 DEF Emit, Received, stored, Typed, RunType, QueueType, ObserverType, RecordType,
           Course, Watcher
    <3>2. run[r] \in Course /\ observer[r] \in Watcher /\ Sound(r) /\ record[r].is \in Stages
      BY DEF Typed, RunType, ObserverType, RecordType
    <3>3. Quiet(r)'
      BY <3>1, <3>2 DEF Sound, Quiet
    <3>4. Placed(r)'
      BY <3>1, <3>2 DEF Sound, Placed
    <3>5. InStep(r)'
      BY <3>1, <3>2 DEF Sound, InStep, Placed, Course, Watcher
    <3>6. EndIsLast(r)'
      BY <3>1, <3>2 DEF Sound, EndIsLast
    <3>7. Worded(r)'
      BY <3>1, <3>2 DEF Sound, Worded, EndIsLast
    <3>8. Kept(r)'
      BY <3>1, <3>2 DEF Sound, Kept, Turn, Said, Placed, Stages
    <3> QED BY <3>3, <3>4, <3>5, <3>6, <3>7, <3>8 DEF Sound
  <2> QED BY <2>1, <2>2
<1> QED BY <1>1, <1>2, Others

LEMMA SoundPost ==
    ASSUME Typed, ConversationAssumption, \A q \in Request : Sound(q), NEW r \in Request, NEW via \in Way, Post(r, via)
    PROVE  \A q \in Request : Sound(q)'
<1>1. \A q \in Request \ {r} : Same(q)
  BY DEF Post, Arrives, Same, stored, Typed, RunType, QueueType, ObserverType, RecordType, Course,
       Watcher
<1>2. Sound(r)'
  BY DEF Post, Arrives, stored, Typed, RunType, QueueType, ObserverType, RecordType, Course,
       Watcher, Sound, Quiet, Placed, InStep, EndIsLast, Worded, Kept, Turn, Said
<1> QED BY <1>1, <1>2, Others

LEMMA SoundEnsure ==
    ASSUME Typed, ConversationAssumption, \A q \in Request : Sound(q), NEW r \in Request, Ensure(r)
    PROVE  \A q \in Request : Sound(q)'
<1>1. \A q \in Request \ {r} : Same(q)
  BY DEF Ensure, Ensured, Same, stored, Typed, RunType, QueueType, ObserverType, RecordType, Course, Watcher
<1>2. Sound(r)'
  <2>1. /\ run[r].at = "posted"
       /\ run'[r].at = "known"
       /\ run'[r].via = run[r].via /\ run'[r].sent = run[r].sent /\ run'[r].text = run[r].text
       /\ observer'[r] = observer[r]
       /\ record'[r] = record[r]
       /\ queue'[r] = queue[r]
       /\ {m \in messages' : m.req = r} = {m \in messages : m.req = r}
    BY DEF Ensure, Ensured, stored, Typed, RunType, QueueType, ObserverType, RecordType, Course, Watcher
  <2>2. run[r] \in Course /\ observer[r] \in Watcher /\ Sound(r) /\ record[r].is \in Stages
    BY DEF Typed, RunType, ObserverType, RecordType
  <2>3. Quiet(r)'
    BY <2>1, <2>2 DEF Sound, Quiet
  <2>4. Placed(r)'
    BY <2>1, <2>2 DEF Sound, Placed
  <2>5. InStep(r)'
    BY <2>1, <2>2 DEF Sound, InStep, Placed, Course, Watcher
  <2>6. EndIsLast(r)'
    BY <2>1, <2>2 DEF Sound, EndIsLast
  <2>7. Worded(r)'
    BY <2>1, <2>2 DEF Sound, Worded, EndIsLast
  <2>8. Kept(r)'
    BY <2>1, <2>2 DEF Sound, Kept, Turn, Said, Placed, Stages
  <2> QED BY <2>3, <2>4, <2>5, <2>6, <2>7, <2>8 DEF Sound
<1> QED BY <1>1, <1>2, Others

LEMMA SoundHandle ==
    ASSUME Typed, ConversationAssumption, \A q \in Request : Sound(q), NEW r \in Request, Handle(r)
    PROVE  \A q \in Request : Sound(q)'
<1>1. \A q \in Request \ {r} : Same(q)
  BY DEF Handle, Same, stored, Typed, RunType, QueueType, ObserverType, RecordType, Course, Watcher
<1>2. Sound(r)'
  <2>1. /\ run[r].at = "known"
       /\ (run[r].via = "sse" => run'[r].at = "open") /\ (run[r].via # "sse" => run'[r].at = "going")
       /\ run'[r].via = run[r].via /\ run'[r].sent = run[r].sent /\ run'[r].text = run[r].text
       /\ observer'[r] = observer[r]
       /\ record'[r] = record[r]
       /\ queue'[r] = queue[r]
       /\ {m \in messages' : m.req = r} = {m \in messages : m.req = r}
    BY DEF Handle, stored, Typed, RunType, QueueType, ObserverType, RecordType, Course, Watcher
  <2>2. run[r] \in Course /\ observer[r] \in Watcher /\ Sound(r) /\ record[r].is \in Stages
    BY DEF Typed, RunType, ObserverType, RecordType
  <2>3. Quiet(r)'
    BY <2>1, <2>2 DEF Sound, Quiet
  <2>4. Placed(r)'
    BY <2>1, <2>2 DEF Sound, Placed
  <2>5. InStep(r)'
    BY <2>1, <2>2 DEF Sound, InStep, Placed, Course, Watcher
  <2>6. EndIsLast(r)'
    BY <2>1, <2>2 DEF Sound, EndIsLast
  <2>7. Worded(r)'
    BY <2>1, <2>2 DEF Sound, Worded, EndIsLast
  <2>8. Kept(r)'
    BY <2>1, <2>2 DEF Sound, Kept, Turn, Said, Placed, Stages
  <2> QED BY <2>3, <2>4, <2>5, <2>6, <2>7, <2>8 DEF Sound
<1> QED BY <1>1, <1>2, Others

LEMMA SoundTurned ==
    ASSUME Typed, ConversationAssumption, \A q \in Request : Sound(q), NEW r \in Request, Turned(r)
    PROVE  \A q \in Request : Sound(q)'
<1>1. \A q \in Request \ {r} : Same(q)
  BY DEF Turned, Arrives, Same, stored, Typed, RunType, QueueType, ObserverType, RecordType, Course,
       Watcher
<1>2. Sound(r)'
  BY DEF Turned, Arrives, stored, Typed, RunType, QueueType, ObserverType, RecordType, Course,
       Watcher, Sound, Quiet, Placed, InStep, EndIsLast, Worded, Kept, Turn, Said
<1> QED BY <1>1, <1>2, Others

LEMMA SoundStart ==
    ASSUME Typed, ConversationAssumption, \A q \in Request : Sound(q), NEW r \in Request, Start(r)
    PROVE  \A q \in Request : Sound(q)'
<1>1. \A q \in Request \ {r} : Same(q)
  BY DEF Start, Same, stored, Typed, RunType, QueueType, ObserverType, RecordType, Course, Watcher
<1>2. Sound(r)'
  <2>1. /\ run[r].at = "open" /\ observer[r].on
       /\ run'[r].at = "going"
       /\ run'[r].via = run[r].via /\ run'[r].sent = run[r].sent /\ run'[r].text = run[r].text
       /\ observer'[r] = observer[r]
       /\ record'[r] = record[r]
       /\ queue'[r] = queue[r]
       /\ {m \in messages' : m.req = r} = {m \in messages : m.req = r}
    BY DEF Start, stored, Typed, RunType, QueueType, ObserverType, RecordType, Course, Watcher
  <2>2. run[r] \in Course /\ observer[r] \in Watcher /\ Sound(r) /\ record[r].is \in Stages
    BY DEF Typed, RunType, ObserverType, RecordType
  <2>3. Quiet(r)'
    BY <2>1, <2>2 DEF Sound, Quiet
  <2>4. Placed(r)'
    BY <2>1, <2>2 DEF Sound, Placed
  <2>5. InStep(r)'
    BY <2>1, <2>2 DEF Sound, InStep, Placed, Course, Watcher
  <2>6. EndIsLast(r)'
    BY <2>1, <2>2 DEF Sound, EndIsLast
  <2>7. Worded(r)'
    BY <2>1, <2>2 DEF Sound, Worded, EndIsLast
  <2>8. Kept(r)'
    BY <2>1, <2>2 DEF Sound, Kept, Turn, Said, Placed, Stages
  <2> QED BY <2>3, <2>4, <2>5, <2>6, <2>7, <2>8 DEF Sound
<1> QED BY <1>1, <1>2, Others

LEMMA SoundLeaveUnstarted ==
    ASSUME Typed, ConversationAssumption, \A q \in Request : Sound(q), NEW r \in Request, LeaveUnstarted(r)
    PROVE  \A q \in Request : Sound(q)'
<1>1. \A q \in Request \ {r} : Same(q)
  BY DEF LeaveUnstarted, Same, stored, Typed, RunType, QueueType, ObserverType, RecordType, Course,
       Watcher
<1>2. Sound(r)'
  BY DEF LeaveUnstarted, stored, Typed, RunType, QueueType, ObserverType, RecordType, Course,
       Watcher, Sound, Quiet, Placed, InStep, EndIsLast, Worded, Kept, Turn, Said
<1> QED BY <1>1, <1>2, Others

LEMMA SoundObserve ==
    ASSUME Typed, ConversationAssumption, \A q \in Request : Sound(q), NEW r \in Request, Observe(r)
    PROVE  \A q \in Request : Sound(q)'
<1>1. \A q \in Request \ {r} : Same(q)
  BY DEF Observe, Same, stored, Typed, RunType, QueueType, ObserverType, RecordType, Course, Watcher
<1>2. Sound(r)'
  <2>1. CASE Head(queue[r]) = "end"
    <3>1. /\ run[r].via = "sse" /\ observer[r].on /\ queue[r] # <<>> /\ Head(queue[r]) = "end"
         /\ run'[r] = run[r]
         /\ observer'[r].on = FALSE
         /\ observer'[r].done = TRUE
         /\ observer'[r].got = observer[r].got /\ observer'[r].answered = observer[r].answered /\ observer'[r].orphan = observer[r].orphan
         /\ record'[r] = record[r]
         /\ queue'[r] = Tail(queue[r])
         /\ {m \in messages' : m.req = r} = {m \in messages : m.req = r}
      BY <2>1, ShownAt DEF Observe, stored, Typed, RunType, QueueType, ObserverType, RecordType,
           Course, Watcher
    <3>2. /\ queue[r] \in Seq(Event \cup {"end"}) /\ Len(queue[r]) \in Nat \ {0} /\ Len(queue'[r]) = Len(queue[r]) - 1
     /\ Head(queue[r]) = queue[r][1]
     /\ \A i \in 1..Len(queue'[r]) : queue'[r][i] = queue[r][i + 1]
      BY <3>1, Shrunk DEF Typed, QueueType, Event
    <3>3. run[r] \in Course /\ observer[r] \in Watcher /\ Sound(r) /\ record[r].is \in Stages
      BY DEF Typed, RunType, ObserverType, RecordType
    <3>4. 1 \in 1..Len(queue[r]) /\ queue[r][1] = "end"
      BY <3>1, <3>2, <3>3 DEF Sound
    <3>5. run[r].at = "over" /\ Len(queue[r]) = 1
      BY <3>1, <3>2, <3>3, <3>4 DEF Sound, EndIsLast
    <3>6. observer[r].got = run[r].sent
      BY <3>1, <3>2, <3>3, <3>4, <3>5 DEF Sound, InStep, Course, Watcher
    <3>7. Quiet(r)'
      BY <3>1, <3>2, <3>3, <3>4, <3>5, <3>6 DEF Sound, Quiet
    <3>8. Placed(r)'
      BY <3>1, <3>2, <3>3, <3>4, <3>5, <3>6 DEF Sound, Placed
    <3>9. InStep(r)'
      BY <3>1, <3>2, <3>3, <3>4, <3>5, <3>6 DEF Sound, InStep, Placed, Course, Watcher
    <3>10. EndIsLast(r)'
      BY <3>1, <3>2, <3>3, <3>4, <3>5, <3>6 DEF Sound, EndIsLast
    <3>11. Worded(r)'
      BY <3>1, <3>2, <3>3, <3>4, <3>5, <3>6 DEF Sound, Worded, EndIsLast
    <3>12. Kept(r)'
      BY <3>1, <3>2, <3>3, <3>4, <3>5, <3>6 DEF Sound, Kept, Turn, Said, Placed, Stages
    <3> QED BY <3>7, <3>8, <3>9, <3>10, <3>11, <3>12 DEF Sound
  <2>2. CASE Head(queue[r]) # "end"
    <3>1. /\ run[r].via = "sse" /\ observer[r].on /\ queue[r] # <<>> /\ Head(queue[r]) # "end"
         /\ run'[r] = run[r]
         /\ observer'[r].got = observer[r].got + 1
         /\ (observer'[r].answered => observer[r].answered \/ Head(queue[r]) = "answer")
         /\ observer'[r].on = observer[r].on /\ observer'[r].done = observer[r].done /\ observer'[r].orphan = observer[r].orphan
         /\ record'[r] = record[r]
         /\ queue'[r] = Tail(queue[r])
         /\ {m \in messages' : m.req = r} = {m \in messages : m.req = r}
      BY <2>2, ShownAt DEF Observe, stored, Typed, RunType, QueueType, ObserverType, RecordType,
           Course, Watcher
    <3>2. /\ queue[r] \in Seq(Event \cup {"end"}) /\ Len(queue[r]) \in Nat \ {0} /\ Len(queue'[r]) = Len(queue[r]) - 1
     /\ Head(queue[r]) = queue[r][1]
     /\ \A i \in 1..Len(queue'[r]) : queue'[r][i] = queue[r][i + 1]
      BY <3>1, Shrunk DEF Typed, QueueType, Event
    <3>3. run[r] \in Course /\ observer[r] \in Watcher /\ Sound(r) /\ record[r].is \in Stages
      BY DEF Typed, RunType, ObserverType, RecordType
    <3>4. observer[r].got + Len(queue[r]) = run[r].sent + (IF run[r].at = "over" THEN 1 ELSE 0)
      BY <3>1, <3>2, <3>3 DEF Sound, InStep
    <3>5. ~observer[r].done
      BY <3>1, <3>2, <3>3, <3>4 DEF Sound, InStep
    <3>6. observer[r].got \in Nat /\ run[r].sent \in Nat
      BY <3>1, <3>2, <3>3, <3>4, <3>5 DEF Course, Watcher
    <3>7. Len(queue[r]) \in Nat /\ Len(queue'[r]) = Len(queue[r]) - 1 /\ observer'[r].got = observer[r].got + 1
      BY <3>1, <3>2, <3>3, <3>4, <3>5, <3>6
    <3>8. observer'[r].got + Len(queue'[r]) = observer[r].got + Len(queue[r])
      BY <3>6, <3>7
    <3>9. Quiet(r)'
      BY <3>1, <3>2, <3>3, <3>4, <3>5, <3>6, <3>7, <3>8 DEF Sound, Quiet
    <3>10. Placed(r)'
      BY <3>1, <3>2, <3>3, <3>4, <3>5, <3>6, <3>7, <3>8 DEF Sound, Placed
    <3>11. InStep(r)'
      BY <3>1, <3>2, <3>3, <3>4, <3>5, <3>6, <3>7, <3>8 DEF Sound, InStep, Placed, Course, Watcher
    <3>12. EndIsLast(r)'
      BY <3>1, <3>2, <3>3, <3>4, <3>5, <3>6, <3>7, <3>8 DEF Sound, EndIsLast
    <3>13. Worded(r)'
      BY <3>1, <3>2, <3>3, <3>4, <3>5, <3>6, <3>7, <3>8 DEF Sound, Worded, EndIsLast
    <3>14. Kept(r)'
      BY <3>1, <3>2, <3>3, <3>4, <3>5, <3>6, <3>7, <3>8 DEF Sound, Kept, Turn, Said, Placed, Stages
    <3> QED BY <3>9, <3>10, <3>11, <3>12, <3>13, <3>14 DEF Sound
  <2> QED BY <2>1, <2>2
<1> QED BY <1>1, <1>2, Others

LEMMA SoundDisconnect ==
    ASSUME Typed, ConversationAssumption, \A q \in Request : Sound(q), NEW r \in Request, Disconnect(r)
    PROVE  \A q \in Request : Sound(q)'
<1>1. \A q \in Request \ {r} : Same(q)
  BY DEF Disconnect, Same, stored, Typed, RunType, QueueType, ObserverType, RecordType, Course,
       Watcher
<1>2. Sound(r)'
  BY DEF Disconnect, Streamed, stored, Typed, RunType, QueueType, ObserverType, RecordType, Course, Watcher,
       Sound, Quiet, Placed, InStep, EndIsLast, Worded, Kept, Turn, Said
<1> QED BY <1>1, <1>2, Others

LEMMA SoundOrphanGets ==
    ASSUME Typed, ConversationAssumption, \A q \in Request : Sound(q), NEW r \in Request, OrphanGets(r)
    PROVE  \A q \in Request : Sound(q)'
<1>1. \A q \in Request \ {r} : Same(q)
  BY DEF OrphanGets, Same, stored, Typed, RunType, QueueType, ObserverType, RecordType, Course,
       Watcher
<1>2. Sound(r)'
  <2>1. /\ observer[r].orphan /\ queue[r] # <<>>
       /\ run'[r] = run[r]
       /\ observer'[r].orphan = FALSE
       /\ observer'[r].on = observer[r].on /\ observer'[r].got = observer[r].got /\ observer'[r].answered = observer[r].answered /\ observer'[r].done = observer[r].done
       /\ record'[r] = record[r]
       /\ queue'[r] = Tail(queue[r])
       /\ {m \in messages' : m.req = r} = {m \in messages : m.req = r}
    BY DEF OrphanGets, stored, Typed, RunType, QueueType, ObserverType, RecordType, Course, Watcher
  <2>2. /\ queue[r] \in Seq(Event \cup {"end"}) /\ Len(queue[r]) \in Nat \ {0} /\ Len(queue'[r]) = Len(queue[r]) - 1
     /\ Head(queue[r]) = queue[r][1]
     /\ \A i \in 1..Len(queue'[r]) : queue'[r][i] = queue[r][i + 1]
    BY <2>1, Shrunk DEF Typed, QueueType, Event
  <2>3. run[r] \in Course /\ observer[r] \in Watcher /\ Sound(r) /\ record[r].is \in Stages
    BY DEF Typed, RunType, ObserverType, RecordType
  <2>4. Quiet(r)'
    BY <2>1, <2>2, <2>3 DEF Sound, Quiet
  <2>5. Placed(r)'
    BY <2>1, <2>2, <2>3 DEF Sound, Placed
  <2>6. InStep(r)'
    BY <2>1, <2>2, <2>3 DEF Sound, InStep, Placed, Course, Watcher
  <2>7. EndIsLast(r)'
    BY <2>1, <2>2, <2>3 DEF Sound, EndIsLast
  <2>8. Worded(r)'
    BY <2>1, <2>2, <2>3 DEF Sound, Worded, EndIsLast
  <2>9. Kept(r)'
    BY <2>1, <2>2, <2>3 DEF Sound, Kept, Turn, Said, Placed, Stages
  <2> QED BY <2>4, <2>5, <2>6, <2>7, <2>8, <2>9 DEF Sound
<1> QED BY <1>1, <1>2, Others

LEMMA SoundSend ==
    ASSUME Typed, ConversationAssumption, \A q \in Request : Sound(q), NEW r \in Request, Send(r)
    PROVE  \A q \in Request : Sound(q)'
<1>1. \A q \in Request \ {r} : Same(q)
  BY DEF Send, Arrives, Same, stored, Typed, RunType, QueueType, ObserverType, RecordType, Course,
       Watcher
<1>2. Sound(r)'
  <2>1. /\ run[r].at = "no"
        /\ run'[r].at = "going" /\ run'[r].via = "ws"
        /\ run'[r].sent = run[r].sent /\ run'[r].text = run[r].text
        /\ observer'[r].got = observer[r].got /\ observer'[r].answered = observer[r].answered
        /\ observer'[r].done = observer[r].done /\ observer'[r].orphan = observer[r].orphan
        /\ record'[r] = record[r] /\ queue'[r] = queue[r]
        /\ {m \in messages' : m.req = r} = {m \in messages : m.req = r}
    BY DEF Send, Arrives, stored, Typed, RunType, QueueType, ObserverType, RecordType, Course, Watcher
  <2>2. run[r] \in Course /\ observer[r] \in Watcher /\ Sound(r) /\ record[r].is \in Stages
    BY DEF Typed, RunType, ObserverType, RecordType
  <2>3. Quiet(r)'
    BY <2>1 DEF Quiet
  <2>4. Placed(r)'
    BY <2>1, <2>2 DEF Sound, Placed, Quiet
  <2>5. InStep(r)'
    BY <2>1 DEF InStep
  <2>6. EndIsLast(r)'
    BY <2>1, <2>2 DEF Sound, Quiet, EndIsLast
  <2>7. Worded(r)'
    BY <2>1, <2>2 DEF Sound, Worded
  <2>8. Kept(r)'
    BY <2>1, <2>2 DEF Sound, Kept, Turn, Said
  <2> QED BY <2>3, <2>4, <2>5, <2>6, <2>7, <2>8 DEF Sound
<1> QED BY <1>1, <1>2, Others

LEMMA SoundRunFails ==
    ASSUME Typed, ConversationAssumption, \A q \in Request : Sound(q), NEW r \in Request, RunFails(r)
    PROVE  \A q \in Request : Sound(q)'
<1>1. \A q \in Request \ {r} : Same(q)
  BY DEF RunFails, Same, stored, Typed, RunType, QueueType, ObserverType, RecordType, Course,
       Watcher
<1>2. Sound(r)'
  <2>1. CASE run[r].via = "sse"
    <3>1. /\ run[r].at \in {"going", "locked"} /\ run[r].via = "sse"
         /\ run'[r].at = "failing"
         /\ run'[r].via = run[r].via /\ run'[r].sent = run[r].sent /\ run'[r].text = run[r].text
         /\ observer'[r] = observer[r]
         /\ record'[r] = record[r]
         /\ queue'[r] = queue[r]
         /\ {m \in messages' : m.req = r} = {m \in messages : m.req = r}
      BY <2>1 DEF RunFails, stored, Typed, RunType, QueueType, ObserverType, RecordType, Course,
           Watcher
    <3>2. run[r] \in Course /\ observer[r] \in Watcher /\ Sound(r) /\ record[r].is \in Stages
      BY DEF Typed, RunType, ObserverType, RecordType
    <3>3. Quiet(r)'
      BY <3>1, <3>2 DEF Sound, Quiet
    <3>4. Placed(r)'
      BY <3>1, <3>2 DEF Sound, Placed
    <3>5. InStep(r)'
      BY <3>1, <3>2 DEF Sound, InStep, Placed, Course, Watcher
    <3>6. EndIsLast(r)'
      BY <3>1, <3>2 DEF Sound, EndIsLast
    <3>7. Worded(r)'
      BY <3>1, <3>2 DEF Sound, Worded, EndIsLast
    <3>8. Kept(r)'
      BY <3>1, <3>2 DEF Sound, Kept, Turn, Said, Placed, Stages
    <3> QED BY <3>3, <3>4, <3>5, <3>6, <3>7, <3>8 DEF Sound
  <2>2. CASE run[r].via # "sse"
    <3>1. /\ run[r].at \in {"going", "locked"} /\ run[r].via # "sse"
         /\ run'[r].at = "over"
         /\ run'[r].via = run[r].via /\ run'[r].sent = run[r].sent /\ run'[r].text = run[r].text
         /\ observer'[r].on = FALSE
         /\ observer'[r].got = observer[r].got /\ observer'[r].answered = observer[r].answered /\ observer'[r].done = observer[r].done /\ observer'[r].orphan = observer[r].orphan
         /\ record'[r].is = "dropped"
         /\ record'[r].t = record[r].t
         /\ queue'[r] = queue[r]
         /\ {m \in messages' : m.req = r} = {m \in messages : m.req = r}
      BY <2>2 DEF RunFails, stored, Typed, RunType, QueueType, ObserverType, RecordType, Course,
           Watcher
    <3>2. run[r] \in Course /\ observer[r] \in Watcher /\ Sound(r) /\ record[r].is \in Stages
      BY DEF Typed, RunType, ObserverType, RecordType
    <3>3. Quiet(r)'
      BY <3>1, <3>2 DEF Sound, Quiet
    <3>4. Placed(r)'
      BY <3>1, <3>2 DEF Sound, Placed
    <3>5. InStep(r)'
      BY <3>1, <3>2 DEF Sound, InStep, Placed, Course, Watcher
    <3>6. EndIsLast(r)'
      BY <3>1, <3>2 DEF Sound, EndIsLast
    <3>7. Worded(r)'
      BY <3>1, <3>2 DEF Sound, Worded, EndIsLast
    <3>8. Kept(r)'
      BY <3>1, <3>2 DEF Sound, Kept, Turn, Said, Placed, Stages
    <3> QED BY <3>3, <3>4, <3>5, <3>6, <3>7, <3>8 DEF Sound
  <2> QED BY <2>1, <2>2
<1> QED BY <1>1, <1>2, Others

LEMMA SoundPersistFails ==
    ASSUME Typed, ConversationAssumption, \A q \in Request : Sound(q), NEW r \in Request, PersistFails(r)
    PROVE  \A q \in Request : Sound(q)'
<1>1. \A q \in Request \ {r} : Same(q)
  BY DEF PersistFails, Same, stored, Typed, RunType, QueueType, ObserverType, RecordType, Course,
       Watcher
<1>2. Sound(r)'
  BY DEF PersistFails, stored, Typed, RunType, QueueType, ObserverType, RecordType, Course, Watcher,
       Sound, Quiet, Placed, InStep, EndIsLast, Worded, Kept, Turn, Said
<1> QED BY <1>1, <1>2, Others

LEMMA SoundCancelled ==
    ASSUME Typed, ConversationAssumption, Wired, \A q \in Request : Sound(q), CancelMessage \/ Close
    PROVE  \A q \in Request : Sound(q)'
<1> SUFFICES ASSUME NEW q \in Request PROVE Sound(q)'
  OBVIOUS
<1>1. /\ queue'[q] = queue[q] /\ messages' = messages
      /\ observer'[q] = observer[q]
            \/ (run[q].via = "ws" /\ observer'[q] = [observer[q] EXCEPT !.on = FALSE])
      /\ \/ run'[q] = run[q] /\ record'[q] = record[q]
         \/ /\ q = socket /\ run[q].at # "over"
            /\ run'[q] = [run[q] EXCEPT !.at = "over"]
            /\ record'[q] = [record[q] EXCEPT !.is = "dropped"]
  <2>1. CASE CancelMessage
    BY <2>1 DEF CancelMessage, Cancelled, stored, Typed, RunType, RecordType
  <2>2. CASE Close
    <3>1. \/ run'[q] = run[q] /\ record'[q] = record[q]
          \/ /\ q = socket /\ run[q].at # "over"
             /\ run'[q] = [run[q] EXCEPT !.at = "over"]
             /\ record'[q] = [record[q] EXCEPT !.is = "dropped"]
      BY <2>2 DEF Close, Cancelled, Typed, RunType, RecordType
    <3>2. observer'[q] = observer[q]
             \/ (run[q].via = "ws" /\ observer'[q] = [observer[q] EXCEPT !.on = FALSE])
      BY <2>2 DEF Close
    <3> QED BY <2>2, <3>1, <3>2 DEF Close, stored
  <2> QED BY <2>1, <2>2
<1>2. run[q] \in Course /\ observer[q] \in Watcher /\ Sound(q) /\ record[q].is \in Stages
  BY DEF Typed, RunType, ObserverType, RecordType
<1>3. /\ observer'[q].got = observer[q].got /\ observer'[q].answered = observer[q].answered
      /\ observer'[q].done = observer[q].done /\ observer'[q].orphan = observer[q].orphan
      /\ observer'[q].on => observer[q].on
      /\ run[q].via # "ws" => observer'[q] = observer[q]
  BY <1>1, <1>2 DEF Watcher
<1>4. /\ run'[q].via = run[q].via /\ run'[q].sent = run[q].sent /\ run'[q].text = run[q].text
      /\ record'[q].t = record[q].t
  BY <1>1, <1>2 DEF Course, Typed, RecordType
<1>5. \/ run'[q] = run[q] /\ record'[q] = record[q]
      \/ /\ run[q].via = "ws" /\ run[q].at \notin {"no", "over"} /\ record[q].is \in {"no", "dropped"}
         /\ run'[q].at = "over" /\ record'[q].is = "dropped"
  <2>1. CASE q = socket /\ run[q].at # "over" /\ run'[q] = [run[q] EXCEPT !.at = "over"]
             /\ record'[q] = [record[q] EXCEPT !.is = "dropped"]
    <3>1. run[q].via = "ws" /\ run[q].at # "no"
      BY <2>1 DEF Wired
    <3>2. run'[q].at = "over" /\ record'[q].is = "dropped"
      BY <2>1, <1>2 DEF Course, Typed, RecordType
    <3> QED BY <2>1, <3>1, <3>2, <1>2 DEF Sound, Placed, Stages
  <2> QED BY <2>1, <1>1
<1>6. Quiet(q)'
  BY <1>1, <1>2, <1>3, <1>4, <1>5 DEF Sound, Quiet
<1>7. Placed(q)'
  BY <1>1, <1>2, <1>3, <1>4, <1>5 DEF Sound, Placed
<1>8. InStep(q)'
  BY <1>1, <1>2, <1>3, <1>4, <1>5 DEF Sound, InStep
<1>9. EndIsLast(q)'
  BY <1>1, <1>2, <1>4, <1>5 DEF Sound, EndIsLast
<1>10. Worded(q)'
  BY <1>1, <1>2, <1>3, <1>4 DEF Sound, Worded
<1>11. Kept(q)'
  BY <1>1, <1>2, <1>4, <1>5 DEF Sound, Kept, Turn, Said
<1> QED BY <1>6, <1>7, <1>8, <1>9, <1>10, <1>11 DEF Sound

LEMMA SoundDead ==
    ASSUME Typed, \A q \in Request : Sound(q), Dead
    PROVE  \A q \in Request : Sound(q)'
<1> SUFFICES ASSUME NEW q \in Request PROVE Sound(q)'
  OBVIOUS
<1>1. run[q] \in Course /\ observer[q] \in Watcher /\ Sound(q) /\ record[q].is \in Stages
  BY DEF Typed, RunType, ObserverType, RecordType
<1>2. /\ run'[q].via = run[q].via /\ run'[q].sent = run[q].sent /\ run'[q].text = run[q].text
      /\ run'[q].at = IF run[q].at = "no" THEN "no" ELSE "over"
  BY <1>1 DEF Dead, Course
<1>3. /\ observer'[q].got = observer[q].got /\ observer'[q].answered = observer[q].answered
      /\ observer'[q].done = observer[q].done
      /\ ~observer'[q].on /\ ~observer'[q].orphan
  BY <1>1 DEF Dead, Watcher
<1>4. queue'[q] = <<>> /\ messages' = messages
  BY DEF Dead
<1>5. /\ record'[q].t = record[q].t
      /\ record'[q].is = record[q].is
         \/ (record[q].is # "recorded" /\ run[q].at # "no" /\ record'[q].is = "dropped")
  <2>1. record'[q] = record[q]
        \/ (/\ record[q].is \in {"due", "begun"} \/ (record[q].is = "no" /\ InProgress(q))
            /\ record'[q] = [record[q] EXCEPT !.is = "dropped"])
    BY DEF Dead
  <2>2. record[q].is \in {"due", "begun"} => run[q].at # "no"
    BY <1>1 DEF Sound, Placed
  <2>3. InProgress(q) => run[q].at # "no"
    BY DEF InProgress
  <2> QED BY <2>1, <2>2, <2>3 DEF Typed, RecordType
<1>6. Quiet(q)'
  BY <1>1, <1>2, <1>3, <1>4, <1>5 DEF Sound, Quiet
<1>7. Placed(q)'
  BY <1>1, <1>2, <1>3, <1>5 DEF Sound, Placed
<1>8. InStep(q)'
  BY <1>1, <1>2, <1>3 DEF Sound, InStep
<1>9. EndIsLast(q)'
  BY <1>4 DEF EndIsLast
<1>10. Worded(q)'
  BY <1>1, <1>2, <1>3, <1>4 DEF Sound, Worded
<1>11. Kept(q)'
  BY <1>1, <1>2, <1>4, <1>5 DEF Sound, Kept, Turn, Said
<1> QED BY <1>6, <1>7, <1>8, <1>9, <1>10, <1>11 DEF Sound

LEMMA SoundOtherwise ==
    ASSUME ConversationAssumption, \A q \in Request : Sound(q),
           Connect \/ Create \/ AddMessage \/ Poll \/ RenameReads \/ RenameWrites \/ Shutdown \/ Restart
              \/ UNCHANGED vars
    PROVE  \A q \in Request : Sound(q)'
<1>1. CASE AddMessage
  <2>1. PICK m : m.req = None /\ messages' = messages \cup {m}
    BY <1>1 DEF AddMessage
  <2>2. \A q \in Request : {k \in messages' : k.req = q} = {k \in messages : k.req = q}
    BY <2>1 DEF ConversationAssumption
  <2>3. \A q \in Request : Same(q)
    BY <1>1, <2>2 DEF Same, AddMessage, Edit
  <2> QED BY <2>3, Untouched
<1>2. CASE ~AddMessage
  <2>1. \A q \in Request : Same(q)
    <3>1. CASE Connect \/ Create \/ RenameWrites \/ Shutdown \/ Restart \/ UNCHANGED vars
      BY <3>1 DEF Connect, Create, RenameWrites, Shutdown, Restart, vars, stored, Same
    <3>2. CASE Poll
      BY <3>2 DEF Poll, Edit, Same
    <3>3. CASE RenameReads
      BY <3>3 DEF RenameReads, Edit, Same
    <3> QED BY <1>2, <3>1, <3>2, <3>3
  <2> QED BY <2>1, Untouched
<1> QED BY <1>1, <1>2

LEMMA SoundInit == Init => \A q \in Request : Sound(q)
<1> SUFFICES ASSUME Init, NEW q \in Request PROVE Sound(q)
  OBVIOUS
<1> QED BY DEF Init, Sound, Quiet, Placed, InStep, EndIsLast, Worded, Kept

LEMMA SoundNext ==
    ASSUME Typed, ConversationAssumption, Wired, \A q \in Request : Sound(q), [Next]_vars
    PROVE  \A q \in Request : Sound(q)'
<1>1. CASE \E r \in Request : RunStep(r)
  BY <1>1, SoundEnsure, SoundHandle, SoundAcquire, SoundRefuse, SoundRunEnds, SoundPutError, SoundPutEnd, SoundBegin,
       SoundCommit,
     SoundEmit DEF RunStep
<1>2. CASE \E r \in Request : Client(r)
  BY <1>2, SoundPost, SoundTurned, SoundStart, SoundLeaveUnstarted, SoundObserve, SoundDisconnect,
     SoundOrphanGets, SoundSend DEF Client
<1>3. CASE \E r \in Request : RunFails(r) \/ PersistFails(r)
  BY <1>3, SoundRunFails, SoundPersistFails
<1>4. CASE CancelMessage \/ Close
  BY <1>4, SoundCancelled
<1>5. CASE Exit \/ Die
  BY <1>5, SoundDead DEF Exit, Die
<1>6. CASE Connect \/ Create \/ AddMessage \/ Poll \/ RenameReads \/ RenameWrites \/ Shutdown
     \/ Restart
           \/ UNCHANGED vars
  BY <1>6, SoundOtherwise
<1> QED BY <1>1, <1>2, <1>3, <1>4, <1>5, <1>6 DEF Next

-----------------------------------------------------------------------------
(* A request's way is fixed once it has arrived.                           *)
LEMMA WaysStand ==
    ASSUME Typed, [Next]_vars, NEW q \in Request, run[q].at # "no"
    PROVE  run'[q].via = run[q].via /\ run'[q].at # "no"
<1> USE DEF Typed, RunType, Course
<1>1. ASSUME NEW r \in Request, RunStep(r) PROVE run'[q].via = run[q].via /\ run'[q].at # "no"
  <2>1. CASE Begin(r) \/ Commit(r)
    BY <2>1 DEF Begin, Commit
  <2>2. CASE Ensure(r) \/ Handle(r) \/ Acquire(r) \/ PutError(r) \/ PutEnd(r)
    BY <2>2 DEF Ensure, Handle, Acquire, PutError, PutEnd
  <2>3. CASE RunEnds(r) \/ Refuse(r)
    BY <2>3 DEF RunEnds, Refuse, Finish
  <2>4. CASE \E e \in {"step", "answer"} : Emit(r, e)
    BY <2>4 DEF Emit
  <2> QED BY <1>1, <2>1, <2>2, <2>3, <2>4 DEF RunStep
<1>2. ASSUME NEW r \in Request, Client(r) PROVE run'[q].via = run[q].via /\ run'[q].at # "no"
  <2>1. CASE Turned(r) \/ Send(r)
    BY <2>1 DEF Turned, Send, Arrives
  <2>2. CASE \E via \in Way : Post(r, via)
    BY <2>2 DEF Post, Arrives
  <2>3. CASE Start(r) \/ LeaveUnstarted(r)
    BY <2>3 DEF Start, LeaveUnstarted
  <2>4. CASE Observe(r) \/ Disconnect(r) \/ OrphanGets(r)
    BY <2>4 DEF Observe, Disconnect, OrphanGets
  <2> QED BY <1>2, <2>1, <2>2, <2>3, <2>4 DEF Client
<1>3. ASSUME NEW r \in Request, RunFails(r) \/ PersistFails(r)
      PROVE  run'[q].via = run[q].via /\ run'[q].at # "no"
  BY <1>3 DEF RunFails, PersistFails
<1>4. CASE CancelMessage \/ Close
  BY <1>4 DEF CancelMessage, Close, Cancelled
<1>5. CASE Exit \/ Die
  <2>1. run'[q] = [run[q] EXCEPT !.at = "over"]
    BY <1>5 DEF Exit, Die, Dead
  <2> QED BY <2>1
<1>6. CASE UNCHANGED run
  BY <1>6
<1>7. CASE Connect \/ Create \/ AddMessage \/ Poll \/ RenameReads \/ RenameWrites \/ Shutdown
     \/ Restart
           \/ UNCHANGED vars
  BY <1>6, <1>7 DEF Connect, Create, AddMessage, Poll, RenameReads, RenameWrites, Edit, Shutdown,
       Restart, vars
<1> QED BY <1>1, <1>2, <1>3, <1>4, <1>5, <1>7 DEF Next

(* The websocket's latest run stays one of its own.                        *)
LEMMA WiredNext ==
    ASSUME Typed, ConversationAssumption, Wired, [Next]_vars
    PROVE  Wired'
<1> SUFFICES ASSUME socket' \in Request PROVE run'[socket'].via = "ws" /\ run'[socket'].at # "no"
  BY DEF Wired
<1>1. CASE UNCHANGED socket
  BY <1>1, WaysStand DEF Wired
<1>2. ASSUME NEW r \in Request, Send(r) PROVE run'[socket'].via = "ws" /\ run'[socket'].at # "no"
  BY <1>2 DEF Send, Typed, RunType, Course
<1>3. CASE Connect \/ Close \/ Exit \/ Die
  BY <1>3 DEF Connect, Close, Exit, Die, Dead, ConversationAssumption
<1>4. ASSUME NEW r \in Request, RunStep(r) PROVE UNCHANGED socket
  BY <1>4 DEF RunStep, Ensure, Handle, Acquire, Refuse, RunEnds, PutError, PutEnd, Begin, Commit, Emit
<1>5. ASSUME NEW r \in Request, Client(r), ~Send(r) PROVE UNCHANGED socket
  BY <1>5 DEF Client, Post, Turned, Start, LeaveUnstarted, Observe, Disconnect, OrphanGets
<1>6. ASSUME NEW r \in Request, RunFails(r) \/ PersistFails(r) PROVE UNCHANGED socket
  BY <1>6 DEF RunFails, PersistFails
<1>7. CASE CancelMessage \/ Create \/ AddMessage \/ Poll \/ RenameReads \/ RenameWrites \/ Shutdown
           \/ Restart \/ UNCHANGED vars
  BY <1>7, <1>1 DEF CancelMessage, Create, AddMessage, Poll, RenameReads, RenameWrites, Edit,
       Shutdown,
     Restart, vars
<1> QED BY <1>1, <1>2, <1>3, <1>4, <1>5, <1>6, <1>7 DEF Next

-----------------------------------------------------------------------------
(* Who is watching, and how a step moves the count.                        *)
Watching == {r \in Request : Watched(r)}

Tallied ==
    \/ Watching' \subseteq Watching /\ app'.active = app.active
    \/ \E r \in Request : Watching' \subseteq Watching \cup {r} /\ app'.active = app.active + 1
    \/ \E r \in Watching :
          /\ Watching' \subseteq Watching \ {r}
          /\ app'.active = IF app.active > 0 THEN app.active - 1 ELSE 0

(* A live process keeps the count, and stops only by Dead.                 *)
Steps == Alive /\ Alive' /\ Tallied

(* A step that concerns one request moves the count of that one.           *)
LEMMA CountFrame ==
    ASSUME NEW r \in Request, \A q \in Request \ {r} : Watched(q)' => Watched(q)
    PROVE  /\ Watching' \subseteq Watching \cup {r}
           /\ (Watched(r)' => Watched(r)) => Watching' \subseteq Watching
           /\ ~Watched(r)' => Watching' \subseteq Watching \ {r}
BY DEF Watching

LEMMA StepsCount ==
    ASSUME Typed, ConversationAssumption, Wired, \A q \in Request : Sound(q), [Next]_vars
    PROVE  \/ Steps
           \/ Dead
           \/ Restart
           \/ UNCHANGED <<app, observer, run>>
<1> DEFINE Goal == Steps \/ Dead \/ Restart \/ UNCHANGED <<app, observer, run>>
<1> SUFFICES Goal
  OBVIOUS
<1> USE DEF Typed, RunType, Course, ObserverType, Watcher, AppType
<1>1. ASSUME Alive, app' = app, \A q \in Request : Watched(q)' => Watched(q)
      PROVE  Steps
  BY <1>1 DEF Steps, Tallied, Alive, Watching
<1>2. ASSUME NEW r \in Request,
             Acquire(r) \/ Begin(r) \/ Commit(r) \/ PutError(r) \/ PutEnd(r) \/ Ensure(r)
      PROVE  Steps
  <2>1. Alive /\ app' = app /\ observer' = observer
    BY <1>2 DEF Acquire, Begin, Commit, PutError, PutEnd, Ensure
  <2>2. \A q \in Request : Watched(q)' => Watched(q)
    <3>1. CASE Begin(r) \/ Commit(r)
      BY <3>1 DEF Begin, Commit, Watched
    <3>2. CASE Acquire(r)
      BY <3>2 DEF Acquire, Watched
    <3>3. CASE PutError(r)
      BY <3>3 DEF PutError, Watched
    <3>4. CASE PutEnd(r)
      BY <3>4 DEF PutEnd, Watched
    <3>5. CASE Ensure(r)
      BY <3>5 DEF Ensure, Watched
    <3> QED BY <1>2, <3>1, <3>2, <3>3, <3>4, <3>5
  <2> QED BY <2>1, <2>2, <1>1
<1>3. ASSUME NEW r \in Request, NEW e \in {"step", "answer"}, Emit(r, e) PROVE Steps
  <2>1. Alive /\ app' = app
    BY <1>3 DEF Emit
  <2>2. \A q \in Request : /\ run'[q].via = run[q].via /\ run'[q].at = run[q].at
                           /\ observer'[q].on = observer[q].on
    BY <1>3 DEF Emit, Received
  <2> QED BY <2>1, <2>2, <1>1 DEF Watched
<1>4. ASSUME NEW r \in Request, Alive, Finish(r), run[r].at \in {"going", "locked"} PROVE Steps
  <2>1. /\ \A q \in Request : run'[q].via = run[q].via
        /\ \A q \in Request \ {r} : run'[q] = run[q]
    BY <1>4 DEF Finish
  <2>2. CASE run[r].via = "sse"
    <3>1. Alive /\ app' = app /\ observer' = observer
      BY <2>2, <1>4 DEF Finish
    <3>2. \A q \in Request : Watched(q)' => Watched(q)
      BY <2>1, <3>1, <1>4 DEF Watched
    <3> QED BY <3>1, <3>2, <1>1
  <2>3. CASE run[r].via = "json"
    <3>1. r \in Watching
      BY <1>4, <2>3 DEF Sound, Placed, Watching, Watched
    <3>2. Watching' \subseteq Watching \ {r}
      <4>1. ~observer'[r].on /\ \A q \in Request \ {r} : observer'[q] = observer[q]
        BY <1>4, <2>3 DEF Finish
      <4>2. ~Watched(r)' /\ \A q \in Request \ {r} : Watched(q)' => Watched(q)
        BY <4>1, <2>1 DEF Watched
      <4> QED BY <4>2, CountFrame
    <3>3. Alive' /\ app'.active = IF app.active > 0 THEN app.active - 1 ELSE 0
      BY <1>4, <2>3 DEF Finish, Uncounted, Alive
    <3> QED BY <1>4, <3>1, <3>2, <3>3 DEF Steps, Tallied
  <2>4. CASE run[r].via \notin {"sse", "json"}
    <3>1. app' = app /\ \A q \in Request \ {r} : observer'[q].on = observer[q].on
      BY <2>4, <1>4 DEF Finish
    <3>2. \A q \in Request : Watched(q)' => Watched(q)
      BY <3>1, <2>1, <2>4 DEF Watched
    <3> QED BY <3>1, <3>2, <1>1, <1>4
  <2> QED BY <2>2, <2>3, <2>4
<1>5. ASSUME NEW r \in Request, RunEnds(r) \/ Refuse(r) PROVE Steps
  <2>1. CASE RunEnds(r)
    BY <2>1, <1>4 DEF RunEnds
  <2>2. CASE Refuse(r) /\ run[r].via # "sse"
    BY <2>2, <1>4 DEF Refuse
  <2>3. CASE Refuse(r) /\ run[r].via = "sse"
    <3>1. Alive /\ app' = app /\ observer' = observer
      BY <2>3 DEF Refuse
    <3>2. \A q \in Request : Watched(q)' => Watched(q)
      BY <2>3, <3>1 DEF Refuse, Watched
    <3> QED BY <3>1, <3>2, <1>1
  <2> QED BY <1>5, <2>1, <2>2, <2>3
<1>6. ASSUME NEW r \in Request, Handle(r) PROVE Steps
  <2>1. Alive /\ Alive' /\ app'.active = app.active + 1
    BY <1>6 DEF Handle, Alive
  <2>2. \A q \in Request \ {r} : Watched(q)' => Watched(q)
    BY <1>6 DEF Handle, Watched
  <2> QED BY <2>1, <2>2, CountFrame DEF Steps, Tallied
<1>7. ASSUME NEW r \in Request, Turned(r) \/ Start(r) \/ OrphanGets(r) PROVE Steps
  <2>1. Alive /\ app' = app
    BY <1>7 DEF Turned, Start, OrphanGets
  <2>2. \A q \in Request : Watched(q)' => Watched(q)
    <3>1. CASE Turned(r)
      BY <3>1 DEF Turned, Arrives, Watched, Sound, Quiet
    <3>2. CASE Start(r)
      BY <3>2 DEF Start, Watched
    <3>3. CASE OrphanGets(r)
      BY <3>3 DEF OrphanGets, Watched
    <3> QED BY <1>7, <3>1, <3>2, <3>3
  <2> QED BY <2>1, <2>2, <1>1
<1>8. ASSUME NEW r \in Request, LeaveUnstarted(r) \/ Send(r) \/ (\E via \in Way : Post(r, via))
      PROVE  Steps
  <2>1. Alive /\ app' = app
    BY <1>8 DEF LeaveUnstarted, Send, Post
  <2>2. /\ \A q \in Request \ {r} : run'[q] = run[q] /\ observer'[q] = observer[q]
        /\ ~Watched(r)'
    <3>1. CASE LeaveUnstarted(r)
      BY <3>1 DEF LeaveUnstarted, Watched
    <3>2. CASE Send(r)
      BY <3>2 DEF Send, Watched
    <3>3. CASE \E via \in Way : Post(r, via)
      BY <3>3 DEF Post, Watched
    <3> QED BY <1>8, <3>1, <3>2, <3>3
  <2>3. \A q \in Request : Watched(q)' => Watched(q)
    BY <2>2 DEF Watched
  <2> QED BY <2>1, <2>3, <1>1
<1>9. ASSUME NEW r \in Request, Observe(r) \/ Disconnect(r) PROVE Steps
  <2>1. r \in Watching /\ run' = run /\ Alive
    <3>1. CASE Observe(r)
      <4>1. /\ Alive /\ run' = run /\ run[r].via = "sse" /\ observer[r].on /\ queue[r] # <<>>
        BY <3>1 DEF Observe
      <4>2. run[r].at \notin {"posted", "known"}
        BY <4>1 DEF Sound, Placed
      <4> QED BY <4>1, <4>2 DEF Watching, Watched
    <3>2. CASE Disconnect(r)
      BY <3>2 DEF Disconnect, Streamed, Watching, Watched
    <3> QED BY <1>9, <3>1, <3>2
  <2>2. CASE Observe(r) /\ Head(queue[r]) # "end"
    <3>1. observer' = [observer EXCEPT ![r].got = @ + 1, ![r].answered = @ \/ Head(queue[r]) = "answer"]
      BY <2>2 DEF Observe
    <3>2. \A q \in Request : observer'[q].on = observer[q].on
      BY <3>1
    <3>3. app' = app
      BY <2>2 DEF Observe
    <3> QED BY <2>1, <3>2, <3>3, <1>1 DEF Watched
  <2>3. CASE Disconnect(r) \/ (Observe(r) /\ Head(queue[r]) = "end")
    <3>1. ~observer'[r].on /\ \A q \in Request \ {r} : observer'[q] = observer[q]
      BY <2>3 DEF Observe, Disconnect
    <3>2. Watching' \subseteq Watching \ {r}
      <4>1. ~Watched(r)' /\ \A q \in Request \ {r} : Watched(q)' => Watched(q)
        BY <2>1, <3>1 DEF Watched
      <4> QED BY <4>1, CountFrame
    <3>3. Alive' /\ app'.active = IF app.active > 0 THEN app.active - 1 ELSE 0
      BY <2>1, <2>3 DEF Observe, Disconnect, Uncounted, Alive
    <3> QED BY <2>1, <3>2, <3>3 DEF Steps, Tallied
  <2> QED BY <1>9, <2>2, <2>3
<1>10. ASSUME NEW r \in Request, RunFails(r) PROVE Steps
  <2>1. /\ Alive /\ run[r].at \in {"going", "locked"}
        /\ \A q \in Request : run'[q].via = run[q].via
        /\ \A q \in Request \ {r} : run'[q] = run[q] /\ observer'[q].on = observer[q].on
    BY <1>10 DEF RunFails
  <2>2. CASE run[r].via = "sse"
    <3>1. app' = app /\ observer' = observer
      BY <2>2, <1>10 DEF RunFails
    <3>2. \A q \in Request : Watched(q)' => Watched(q)
      BY <2>1, <3>1 DEF Watched
    <3> QED BY <2>1, <3>1, <3>2, <1>1
  <2>3. CASE run[r].via = "json"
    <3>1. r \in Watching
      BY <2>1, <2>3 DEF Sound, Placed, Watching, Watched
    <3>2. ~observer'[r].on
      BY <1>10, <2>3 DEF RunFails
    <3>3. Watching' \subseteq Watching \ {r}
      <4>1. ~Watched(r)' /\ \A q \in Request \ {r} : Watched(q)' => Watched(q)
        BY <2>1, <3>2 DEF Watched
      <4> QED BY <4>1, CountFrame
    <3>4. Alive' /\ app'.active = IF app.active > 0 THEN app.active - 1 ELSE 0
      BY <1>10, <2>1, <2>3 DEF RunFails, Uncounted, Alive
    <3> QED BY <2>1, <3>1, <3>3, <3>4 DEF Steps, Tallied
  <2>4. CASE run[r].via \notin {"sse", "json"}
    <3>1. app' = app
      BY <1>10, <2>4 DEF RunFails
    <3>2. \A q \in Request : Watched(q)' => Watched(q)
      BY <2>1, <2>4 DEF Watched
    <3> QED BY <2>1, <3>1, <3>2, <1>1
  <2> QED BY <2>2, <2>3, <2>4
<1>11. CASE Close \/ CancelMessage
  <2>1. Alive /\ app' = app
    BY <1>11 DEF Close, CancelMessage
  <2>2. run' = run \/ (run' = [run EXCEPT ![socket].at = "over"] /\ socket \in Request
                                /\ run[socket].at # "over")
    BY <1>11 DEF Close, CancelMessage, Cancelled
  <2>3. \A q \in Request : observer'[q].on => observer[q].on
    BY <1>11 DEF Close, CancelMessage
  <2>4. \A q \in Request : run'[q].via = run[q].via /\ (run'[q].at = run[q].at \/ q = socket)
    BY <2>2
  <2>5. socket \in Request => run[socket].via = "ws"
    BY DEF Wired
  <2>6. \A q \in Request : Watched(q)' => Watched(q)
    BY <2>2, <2>3, <2>4, <2>5 DEF Watched
  <2> QED BY <2>1, <2>6, <1>1
<1>12. CASE Shutdown
  BY <1>12 DEF Shutdown, Steps, Tallied, Alive, Watching, Watched
<1>13. CASE Exit \/ Die
  BY <1>13 DEF Exit, Die
<1>14. CASE Connect \/ Create \/ AddMessage \/ Poll \/ RenameReads \/ RenameWrites \/ UNCHANGED vars
  BY <1>14 DEF Connect, Create, AddMessage, Poll, RenameReads, RenameWrites, Edit, vars
<1>15. ASSUME NEW r \in Request, PersistFails(r) PROVE Goal
  BY <1>15 DEF PersistFails
<1> QED BY <1>2, <1>3, <1>5, <1>6, <1>7, <1>8, <1>9, <1>10, <1>11, <1>12, <1>13, <1>14, <1>15
        DEF Next, RunStep, Client

LEMMA DownNext ==
    ASSUME Typed, ConversationAssumption, Wired, Down, \A q \in Request : Sound(q), [Next]_vars
    PROVE  Down'
<1>1. CASE Steps
  BY <1>1 DEF Steps, Down
<1>2. CASE Dead
  BY <1>2 DEF Dead, Down, Typed, ObserverType, Watcher
<1>3. CASE Restart
  BY <1>3 DEF Restart, Down, Alive
<1>4. CASE UNCHANGED <<app, observer, run>>
  BY <1>4 DEF Down, Alive
<1> QED BY <1>1, <1>2, <1>3, <1>4, StepsCount

LEMMA Fewer == \A S, T : IsFiniteSet(T) /\ S \subseteq T => Cardinality(S) <= Cardinality(T)
BY FS_Subset

LEMMA CountedNext ==
    ASSUME Typed, ConversationAssumption, Wired, Down, WatchersAreCounted, \A q \in Request : Sound(q),
           [Next]_vars
    PROVE  WatchersAreCounted'
<1>1. WatchersAreCounted <=> (Alive => app.active >= Cardinality(Watching))
  BY DEF WatchersAreCounted, Watching
<1>2. SUFFICES Alive' => app'.active >= Cardinality(Watching')
  BY DEF WatchersAreCounted, Watching
<1>3. IsFiniteSet(Watching)
  BY FS_Subset DEF ConversationAssumption, Watching
<1>4. Cardinality(Watching) \in Nat /\ app.active \in Nat
  BY <1>3, FS_CardinalityType DEF Typed, AppType
<1>5. CASE Steps
  <2>0. app.active >= Cardinality(Watching)
    BY <1>1, <1>5 DEF Steps
  <2>1. CASE Watching' \subseteq Watching /\ app'.active = app.active
    <3>1. Cardinality(Watching') \in Nat /\ Cardinality(Watching') <= Cardinality(Watching)
      BY <1>3, <2>1, FS_Subset, FS_CardinalityType
    <3> QED BY <1>4, <2>0, <2>1, <3>1
  <2>2. ASSUME NEW r \in Request, Watching' \subseteq Watching \cup {r}, app'.active = app.active + 1
        PROVE  app'.active >= Cardinality(Watching')
    <3>1. IsFiniteSet(Watching \cup {r}) /\ Cardinality(Watching \cup {r}) <= Cardinality(Watching) + 1
      <4>1. /\ IsFiniteSet(Watching \cup {r})
            /\ Cardinality(Watching \cup {r})
                  = IF r \in Watching THEN Cardinality(Watching) ELSE Cardinality(Watching) + 1
        BY <1>3, FS_AddElement
      <4> DEFINE n == Cardinality(Watching)
      <4>2. n \in Nat /\ (n <= n + 1) /\ (n + 1 <= n + 1)
        BY <1>4
      <4> QED BY <4>1, <4>2
    <3>2. Cardinality(Watching') \in Nat /\ Cardinality(Watching') <= Cardinality(Watching \cup {r})
      BY <2>2, <3>1, FS_Subset, FS_CardinalityType
    <3>3. Cardinality(Watching \cup {r}) \in Nat
      BY <3>1, FS_CardinalityType
    <3> QED BY <1>4, <2>0, <2>2, <3>1, <3>2, <3>3
  <2>3. ASSUME NEW r \in Watching, Watching' \subseteq Watching \ {r},
               app'.active = IF app.active > 0 THEN app.active - 1 ELSE 0
        PROVE  app'.active >= Cardinality(Watching')
    <3>1. IsFiniteSet(Watching \ {r}) /\ Cardinality(Watching \ {r}) = Cardinality(Watching) - 1
      BY <1>3, FS_RemoveElement
    <3>2. Cardinality(Watching') \in Nat /\ Cardinality(Watching') <= Cardinality(Watching \ {r})
      BY <2>3, <3>1, FS_Subset, FS_CardinalityType
    <3>3. Cardinality(Watching \ {r}) \in Nat
      BY <3>1, FS_CardinalityType
    <3> QED BY <1>4, <2>0, <2>3, <3>1, <3>2, <3>3
  <2> QED BY <1>5, <2>1, <2>2, <2>3 DEF Steps, Tallied
<1>6. CASE Dead
  BY <1>6 DEF Dead, Alive, Typed, AppType
<1>7. CASE Restart
  <2>1. Watching' = {} /\ app'.active = 0
    BY <1>7 DEF Restart, Down, Watching, Watched
  <2> QED BY <2>1, FS_EmptySet
<1>8. CASE UNCHANGED <<app, observer, run>>
  <2>1. Watching' = Watching /\ app' = app /\ (Alive' <=> Alive)
    BY <1>8 DEF Watching, Watched, Alive
  <2> QED BY <2>1, <1>1
<1> QED BY <1>5, <1>6, <1>7, <1>8, StepsCount

-----------------------------------------------------------------------------
(* The inductive invariant.                                                *)
Safe == Typed /\ Wired /\ Down /\ WatchersAreCounted /\ \A r \in Request : Sound(r)

LEMMA SafeInit == ConversationAssumption /\ Init => Safe
<1> SUFFICES ASSUME ConversationAssumption, Init PROVE Safe
  OBVIOUS
<1>1. RunType
  BY DEF Init, RunType, Course, Places, Way
<1>2. QueueType
  BY EmptySeq DEF Init, QueueType
<1>3. ObserverType /\ RecordType /\ AppType /\ SocketType
  BY DEF Init, ObserverType, Watcher, RecordType, Stages, AppType, SocketType
<1>4. Wired
  BY DEF Init, Wired, ConversationAssumption
<1>5. Down
  BY DEF Init, Down
<1>6. WatchersAreCounted
  <2>1. Watching = {} /\ app.active = 0
    BY DEF Init, Watching, Watched
  <2> QED BY <2>1, FS_EmptySet DEF WatchersAreCounted, Watching
<1> QED BY <1>1, <1>2, <1>3, <1>4, <1>5, <1>6, SoundInit DEF Safe, Typed

LEMMA SafeNext == ConversationAssumption /\ Safe /\ [Next]_vars => Safe'
<1> SUFFICES ASSUME ConversationAssumption, Safe, [Next]_vars PROVE Safe'
  OBVIOUS
<1>1. Typed'
  BY RunTyped, QueueTyped, ObserverTyped, RecordTyped, AppTyped, SocketTyped DEF Safe, Typed
<1> QED BY <1>1, WiredNext, DownNext, CountedNext, SoundNext DEF Safe

LEMMA SafeAlways == ASSUME ConversationAssumption PROVE Spec => []Safe
<1>1. Init => Safe
  BY SafeInit
<1>2. Safe /\ [Next]_vars => Safe'
  BY SafeNext
<1> QED BY <1>1, <1>2, PTL DEF Spec

(* For any number of requests and any queue, a client told "done" was      *)
(* given every event of its run, and the run is over (_drain_invoke and    *)
(* _generate, chat.py).                                                    *)
THEOREM EndsTheStream == ASSUME ConversationAssumption PROVE Spec => []DoneIsLast
<1>1. Safe => DoneIsLast
  BY DEF Safe, Sound, InStep, DoneIsLast
<1> QED BY <1>1, SafeAlways, PTL

(* A recorded turn has the user's message and exactly the answer its run   *)
(* gave, whatever order the records of several turns commit in, whoever    *)
(* has left and whatever process dies between (_drain_invoke and           *)
(* _persist_messages).                                                     *)
THEOREM RecordsTurns == ASSUME ConversationAssumption PROVE Spec => []WholeTurns
<1>1. Safe => WholeTurns
  <2> SUFFICES ASSUME Safe, NEW r \in Request
      PROVE LET rows == {m \in messages : m.req = r}
                has(role) == \E m \in rows : m.role = role
            IN  /\ record[r].is = "recorded" => has("user")
                /\ record[r].is = "recorded" => (has("assistant") <=> run[r].text)
                /\ record[r].is # "recorded" => rows = {}
                /\ observer[r].answered => run[r].text
                /\ \A m, k \in rows : m.t = k.t
    BY DEF WholeTurns
  <2>1. {m \in messages : m.req = r} = IF record[r].is = "recorded" THEN Turn(r) ELSE {}
    BY DEF Safe, Sound, Kept
  <2>2. observer[r].answered => run[r].text
    BY DEF Safe, Sound, Worded
  <2> DEFINE rows == {m \in messages : m.req = r}
  <2> DEFINE has(role) == \E m \in rows : m.role = role
  <2>3. CASE record[r].is # "recorded"
    <3>1. rows = {}
      BY <2>1, <2>3
    <3> QED BY <3>1, <2>2, <2>3
  <2>4. CASE record[r].is = "recorded"
    <3>1. rows = Turn(r)
      BY <2>1, <2>4
    <3>2. \A m \in Turn(r) : m.t = record[r].t
      BY DEF Turn, Said
    <3>3. has("user")
      <4>1. Said(r, "user") \in rows /\ Said(r, "user").role = "user"
        BY <3>1 DEF Turn, Said
      <4> QED BY <4>1
    <3>4. run[r].text => has("assistant")
      <4>1. run[r].text => Said(r, "assistant") \in rows /\ Said(r, "assistant").role = "assistant"
        BY <3>1 DEF Turn, Said
      <4> QED BY <4>1
    <3>5. has("assistant") => run[r].text
      <4>1. ASSUME ~run[r].text PROVE \A m \in rows : m.role = "user"
        BY <3>1, <4>1 DEF Turn, Said
      <4> QED BY <4>1
    <3> HIDE DEF rows
    <3>6. \A m, k \in rows : m.t = k.t
      BY <3>1, <3>2
    <3> HIDE DEF has
    <3>7. /\ record[r].is = "recorded" => has("user")
          /\ record[r].is = "recorded" => (has("assistant") <=> run[r].text)
          /\ record[r].is # "recorded" => rows = {}
          /\ observer[r].answered => run[r].text
          /\ \A m, k \in rows : m.t = k.t
      BY <3>3, <3>4, <3>5, <3>6, <2>2, <2>4
    <3> QED BY <3>7 DEF has, rows
  <2> QED BY <2>3, <2>4
<1> QED BY <1>1, SafeAlways, PTL

(* Whoever watches a stream or waits for a JSON answer whose handler has   *)
(* its runner is counted, so that a shutdown waits for it                  *)
(* (active_agent_runs, chat.py and main.py).                               *)
THEOREM CountsWatchers == ASSUME ConversationAssumption PROVE Spec => []WatchersAreCounted
<1>1. Safe => WatchersAreCounted
  BY DEF Safe
<1> QED BY <1>1, SafeAlways, PTL
=============================================================================
