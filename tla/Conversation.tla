------------------------------ MODULE Conversation ------------------------------
(***************************************************************************)
(* One session's conversation between the runs that answer it and the      *)
(* clients that watch them: the chat endpoint's streamed and JSON answers  *)
(* (api/chat.py), the websocket (api/websocket.py), the record of what was *)
(* said (sessions/), and the process that shuts down under all of them     *)
(* (api/main.py).                                                          *)
(*                                                                         *)
(* What a run computes is left to the other modules: here it emits         *)
(* events, some of which carry its answer.  Ownership of sessions, the     *)
(* heartbeats of the streams and the words of messages are left out.       *)
(***************************************************************************)
EXTENDS Naturals, Sequences, FiniteSets, FiniteSetsExt, Functions

CONSTANTS
    Request,     \* messages the clients send, numbered as they arrive
    None,
    Closed,      \* the websocket, before and after its connection
    Cap,         \* the observer queue's maxsize (500 in the code)
    Events,      \* bound: events of a run
    Page,        \* page_size of a client that follows the record
    MaxExtras    \* bound: failures, deaths and requests to the session API

(* What the constants are assumed to be (a composing module says so).      *)
ConversationAssumption ==
    /\ Request \subseteq Nat /\ IsFiniteSet(Request) /\ {None, Closed} \cap Request = {} /\ None # Closed
    /\ {Cap, Events, Page} \subseteq Nat \ {0}
    /\ MaxExtras \in Nat

VARIABLES
    run,        \* by request: its run
    queue,      \* by request: the queue between its run and its observer
    observer,   \* by request: who watches the stream
    lock,       \* the request whose run holds the session's lock
    socket,     \* the websocket: closed, or the run it can cancel
    app,        \* the process
    record,     \* by request: the transaction that records it
    session,    \* whether the session's row exists
    messages,   \* the session's message rows
    follower,   \* a client that pages through the messages with after_id
    rename,     \* the messages a rename has read, while the model names them
    spent       \* of MaxExtras

vars == <<run, queue, observer, lock, socket, app, record, session, messages, follower,
          rename, spent>>
stored == <<session, messages, follower, rename>>

Way == {"sse", "json", "ws"}
Event == {"step", "answer", "error"}

(* text is _drain_invoke's final_text: only a final_response event sets    *)
(* it.  A workflow's question, an approval request and a cancelled         *)
(* workflow's reply travel in events of their own (runner.py, 1290-1328).  *)
Run == [via : Way \cup {None}, sent : 0..Events + 1, text : BOOLEAN,
        at : {"no", "posted", "known", "open", "going", "locked", "failing", "ending", "over"}]

(* got counts the events received; orphan is the queue.get() a             *)
(* disconnected observer leaves pending.                                   *)
Observer == [on : BOOLEAN, got : 0..Events + 1, answered : BOOLEAN, done : BOOLEAN,
             orphan : BOOLEAN]

(* created_at is now(), the start of the transaction: t numbers them.      *)
Record == [is : {"no", "due", "begun", "recorded", "failed", "dropped"}, t : Nat]

Message == [req : Request \cup {None}, role : {"user", "assistant"}, t : Nat]

InProgress(r) == run[r].at \notin {"no", "over"}
Alive == app.up
Arrives(r) == run[r].at = "no" /\ \A q \in Request : q < r => run[q].at # "no"

-----------------------------------------------------------------------------
(* _ensure_session_exists: created on demand, and a failure is only logged. *)
Ensured ==
    \/ /\ session' = TRUE
       /\ UNCHANGED spent
    \/ /\ ~session /\ spent < MaxExtras
       /\ spent' = spent + 1
       /\ UNCHANGED session

(* DrainMiddleware refuses what arrives during the shutdown.               *)
Turned(r) ==
    /\ Alive /\ app.draining /\ Arrives(r)
    /\ run' = [run EXCEPT ![r].at = "over"]
    /\ record' = [record EXCEPT ![r].is = "dropped"]
    /\ UNCHANGED <<queue, observer, lock, socket, app, stored, spent>>

(* chat: past the drain check, the handler awaits the session's row and    *)
(* then its runner, and nobody counts it while it does.                    *)
Post(r, via) ==
    /\ Alive /\ ~app.draining /\ Arrives(r) /\ via \in {"sse", "json"}
    /\ run' = [run EXCEPT ![r].via = via, ![r].at = "posted"]
    /\ observer' = [observer EXCEPT ![r].on = TRUE]
    /\ UNCHANGED <<queue, lock, socket, app, record, stored, spent>>

Ensure(r) ==
    /\ Alive /\ run[r].at = "posted"
    /\ Ensured
    /\ run' = [run EXCEPT ![r].at = "known"]
    /\ UNCHANGED <<queue, observer, lock, socket, app, record, messages, follower, rename>>

(* With its runner, a stream is counted before its generator starts and a  *)
(* JSON answer as its run begins.                                          *)
Handle(r) ==
    /\ Alive /\ run[r].at = "known"
    /\ run' = [run EXCEPT ![r].at = IF run[r].via = "sse" THEN "open" ELSE "going"]
    /\ app' = [app EXCEPT !.active = @ + 1]
    /\ UNCHANGED <<queue, observer, lock, socket, record, stored, spent>>

(* _generate starts: the run becomes a task of its own.                    *)
Start(r) ==
    /\ Alive /\ run[r].at = "open" /\ observer[r].on
    /\ run' = [run EXCEPT ![r].at = "going"]
    /\ UNCHANGED <<queue, observer, lock, socket, app, record, stored, spent>>

(* The client leaves before the response is iterated: a generator that     *)
(* never started runs no finally clause.                                   *)
LeaveUnstarted(r) ==
    /\ Alive /\ run[r].at = "open"
    /\ run' = [run EXCEPT ![r].at = "over"]
    /\ observer' = [observer EXCEPT ![r].on = FALSE]
    /\ record' = [record EXCEPT ![r].is = "dropped"]
    /\ UNCHANGED <<queue, lock, socket, app, stored, spent>>

-----------------------------------------------------------------------------
(* What a run does.  A streamed run puts its events on the bounded queue   *)
(* and waits when it is full, holding the lock; a JSON handler keeps them; *)
(* a websocket run sends them, and stops at an event once disconnected.    *)
Room(r) == run[r].via = "sse" => Len(queue[r]) < Cap

Received(r, e) ==
    IF run[r].via = "sse"
    THEN /\ queue' = [queue EXCEPT ![r] = Append(@, e)]
         /\ UNCHANGED observer
    ELSE /\ observer' = [observer EXCEPT ![r].got = @ + 1,
                                         ![r].answered = @ \/ e = "answer"]
         /\ UNCHANGED queue

(* The lock is free: the run has the session for itself.                   *)
Acquire(r) ==
    /\ Alive /\ run[r].at = "going" /\ lock = None
    /\ lock' = r
    /\ run' = [run EXCEPT ![r].at = "locked"]
    /\ UNCHANGED <<queue, observer, socket, app, record, stored, spent>>

Emit(r, e) ==
    /\ Alive /\ run[r].at = "locked" /\ run[r].sent < Events /\ Room(r)
    /\ run[r].via = "ws" => socket # Closed
    /\ Received(r, e)
    /\ run' = [run EXCEPT ![r].sent = @ + 1, ![r].text = @ \/ e = "answer"]
    /\ UNCHANGED <<lock, socket, app, record, stored, spent>>

Uncounted == [app EXCEPT !.active = IF @ > 0 THEN @ - 1 ELSE 0]

(* Slip: every handler that ends is taken off the count. *)
SlipFinish(r) ==
    /\ run' = [run EXCEPT ![r].at = IF run[r].via = "sse" THEN "ending" ELSE "over"]
    /\ record' = [record EXCEPT ![r].is = IF run[r].via = "ws" THEN "dropped" ELSE "due"]
    /\ observer' = IF run[r].via = "sse" THEN observer
                   ELSE [observer EXCEPT ![r].on = FALSE, ![r].done = TRUE]
    /\ app' = Uncounted

(* The end of the iteration over the run's events: a streamed run          *)
(* schedules the record and still has to put the end mark; a JSON handler  *)
(* stops being counted and schedules the record; a websocket records       *)
(* nothing.                                                                *)
Finish(r) ==
    /\ run' = [run EXCEPT ![r].at = IF run[r].via = "sse" THEN "ending" ELSE "over"]
    /\ record' = [record EXCEPT ![r].is = IF run[r].via = "ws" THEN "dropped" ELSE "due"]
    /\ observer' = IF run[r].via = "sse" THEN observer
                   ELSE [observer EXCEPT ![r].on = FALSE, ![r].done = TRUE]
    /\ app' = IF run[r].via = "json" THEN Uncounted ELSE app

RunEnds(r) ==
    /\ Alive /\ run[r].at = "locked"
    /\ Finish(r)
    /\ lock' = None
    /\ UNCHANGED <<queue, socket, stored, spent>>

(* The lock is held: one error event, and the turn is over (its words are  *)
(* recorded like any other's).                                             *)
Refuse(r) ==
    /\ Alive /\ run[r].at = "going" /\ lock # None
    /\ IF run[r].via = "sse"
       THEN /\ run' = [run EXCEPT ![r].at = "failing"]
            /\ UNCHANGED <<observer, record, app>>
       ELSE Finish(r)
    /\ UNCHANGED <<queue, lock, socket, stored, spent>>

(* An exception out of the run: a stream reports it before it is recorded, *)
(* a JSON handler answers 500 and records nothing.                         *)
RunFails(r) ==
    /\ Alive /\ run[r].at \in {"going", "locked"} /\ spent < MaxExtras
    /\ spent' = spent + 1
    /\ lock' = IF lock = r THEN None ELSE lock
    /\ run' = [run EXCEPT ![r].at = IF run[r].via = "sse" THEN "failing" ELSE "over"]
    /\ IF run[r].via = "sse" THEN UNCHANGED <<observer, record, app>>
       ELSE /\ observer' = [observer EXCEPT ![r].on = FALSE]
            /\ record' = [record EXCEPT ![r].is = "dropped"]
            /\ app' = IF run[r].via = "json" THEN Uncounted ELSE app
    /\ UNCHANGED <<queue, socket, stored>>

PutError(r) ==
    /\ Alive /\ run[r].at = "failing" /\ Room(r)
    /\ queue' = [queue EXCEPT ![r] = Append(@, "error")]
    /\ run' = [run EXCEPT ![r].at = "ending", ![r].sent = @ + 1]
    /\ record' = [record EXCEPT ![r].is = "due"]
    /\ UNCHANGED <<observer, lock, socket, app, stored, spent>>

PutEnd(r) ==
    /\ Alive /\ run[r].at = "ending" /\ Room(r)
    /\ queue' = [queue EXCEPT ![r] = Append(@, "end")]
    /\ run' = [run EXCEPT ![r].at = "over"]
    /\ UNCHANGED <<observer, lock, socket, app, record, stored, spent>>

-----------------------------------------------------------------------------
(* Slip: a heartbeat cancels the queue.get() that has just been served. *)
SlipObserve(r) ==
    /\ Alive /\ run[r].via = "sse" /\ observer[r].on /\ queue[r] # <<>>
    /\ LET e == Head(queue[r]) IN
       IF e = "end"
       THEN /\ observer' = [observer EXCEPT ![r].on = FALSE, ![r].done = TRUE]
            /\ app' = Uncounted
       ELSE observer' = observer /\ UNCHANGED app
    /\ queue' = [queue EXCEPT ![r] = Tail(@)]
    /\ UNCHANGED <<run, lock, socket, record, stored, spent>>

(* The observer of a stream: one event at a time, "done" after the end     *)
(* mark, and no longer counted when it stops.                              *)
Observe(r) ==
    /\ Alive /\ run[r].via = "sse" /\ observer[r].on /\ queue[r] # <<>>
    /\ LET e == Head(queue[r]) IN
       IF e = "end"
       THEN /\ observer' = [observer EXCEPT ![r].on = FALSE, ![r].done = TRUE]
            /\ app' = Uncounted
       ELSE /\ observer' = [observer EXCEPT ![r].got = @ + 1,
                                            ![r].answered = @ \/ e = "answer"]
            /\ UNCHANGED app
    /\ queue' = [queue EXCEPT ![r] = Tail(@)]
    /\ UNCHANGED <<run, lock, socket, record, stored, spent>>

(* The observer of a stream that has started. *)
Streamed(r) ==
    Alive /\ run[r].via = "sse" /\ run[r].at \notin {"posted", "known", "open"} /\ observer[r].on

(* Slip: the turn is recorded when its observer leaves. *)
SlipDisconnect(r) ==
    /\ Streamed(r)
    /\ \E waiting \in BOOLEAN :
          observer' = [observer EXCEPT ![r].on = FALSE, ![r].orphan = waiting]
    /\ app' = Uncounted
    /\ record' = [record EXCEPT ![r].is = IF @ = "no" THEN "due" ELSE @]
    /\ UNCHANGED <<run, queue, lock, socket, stored, spent>>

(* The browser goes away: the observer stops, the run does not.  Cancelled *)
(* while it waits for an event, it leaves its queue.get() behind.          *)
Disconnect(r) ==
    /\ Streamed(r)
    /\ \E waiting \in BOOLEAN :
          observer' = [observer EXCEPT ![r].on = FALSE, ![r].orphan = waiting]
    /\ app' = Uncounted
    /\ UNCHANGED <<run, queue, lock, socket, record, stored, spent>>

OrphanGets(r) ==
    /\ Alive /\ observer[r].orphan /\ queue[r] # <<>>
    /\ queue' = [queue EXCEPT ![r] = Tail(@)]
    /\ observer' = [observer EXCEPT ![r].orphan = FALSE]
    /\ UNCHANGED <<run, lock, socket, app, record, stored, spent>>

-----------------------------------------------------------------------------
(* The websocket (one connection): each message starts a run, and only the *)
(* latest one can be cancelled.  The drain middleware sees HTTP only.      *)
Connect ==
    /\ Alive /\ socket = Closed
    /\ \A r \in Request : run[r].via # "ws"
    /\ Ensured
    /\ socket' = None
    /\ UNCHANGED <<run, queue, observer, lock, app, record, messages, follower, rename>>

Send(r) ==
    /\ Alive /\ socket # Closed /\ Arrives(r)
    /\ socket' = r
    /\ run' = [run EXCEPT ![r].via = "ws", ![r].at = "going"]
    /\ observer' = [observer EXCEPT ![r].on = TRUE]
    /\ UNCHANGED <<queue, lock, app, record, stored, spent>>

(* run_task.cancel(), if the latest run is not done.                       *)
Cancelled(r) ==
    IF r \in Request /\ run[r].at # "over"
    THEN /\ run' = [run EXCEPT ![r].at = "over"]
         /\ record' = [record EXCEPT ![r].is = "dropped"]
         /\ lock' = IF lock = r THEN None ELSE lock
    ELSE UNCHANGED <<run, record, lock>>

CancelMessage ==
    /\ Alive /\ socket \in Request
    /\ run[socket].at # "over"
    /\ Cancelled(socket)
    /\ UNCHANGED <<queue, observer, socket, app, stored, spent>>

(* The client leaves, or sends nothing for 30 seconds: the finally clause  *)
(* cancels the latest run.                                                 *)
Close ==
    /\ Alive /\ socket # Closed
    /\ socket' = Closed
    /\ Cancelled(socket)
    /\ observer' = [r \in Request |-> IF run[r].via = "ws" THEN [observer[r] EXCEPT !.on = FALSE]
                                      ELSE observer[r]]
    /\ UNCHANGED <<queue, app, stored, spent>>

-----------------------------------------------------------------------------
(* _persist_messages: one transaction with the user's message and, if the  *)
(* run had a final text, the answer; any failure is only logged.  The      *)
(* tasks of two turns run in any order.                                    *)
Now == FoldSet(LAMBDA m, n : IF m.t > n THEN m.t ELSE n,
               FoldFunction(LAMBDA c, n : IF c.t > n THEN c.t ELSE n, 0, record), messages) + 1

Begin(r) ==
    /\ Alive /\ record[r].is = "due"
    /\ record' = [record EXCEPT ![r] = [is |-> "begun", t |-> Now]]
    /\ UNCHANGED <<run, queue, observer, lock, socket, app, stored, spent>>

Said(r, role) == [req |-> r, role |-> role, t |-> record[r].t]

Turn(r) == {Said(r, "user")} \cup (IF run[r].text THEN {Said(r, "assistant")} ELSE {})

Commit(r) ==
    /\ Alive /\ record[r].is = "begun"
    /\ IF session THEN /\ messages' = messages \cup Turn(r)
                              /\ record' = [record EXCEPT ![r].is = "recorded"]
       ELSE record' = [record EXCEPT ![r].is = "failed"] /\ UNCHANGED messages
    /\ UNCHANGED <<run, queue, observer, lock, socket, app, session, follower, rename, spent>>

PersistFails(r) ==
    /\ Alive /\ record[r].is \in {"due", "begun"} /\ spent < MaxExtras
    /\ spent' = spent + 1
    /\ record' = [record EXCEPT ![r].is = "failed"]
    /\ UNCHANGED <<run, queue, observer, lock, socket, app, stored>>

-----------------------------------------------------------------------------
(* The session's own API.  Its title and status are read by no run: an     *)
(* archived session is answered like any other.                            *)
Edit ==
    /\ Alive /\ ~app.draining /\ session /\ spent < MaxExtras
    /\ spent' = spent + 1
    /\ UNCHANGED <<run, queue, observer, lock, socket, app, record>>

Create ==
    /\ Alive /\ ~app.draining /\ ~session
    /\ session' = TRUE
    /\ UNCHANGED <<run, queue, observer, lock, socket, app, record, messages, follower,
                   rename, spent>>

AddMessage ==
    /\ Edit
    /\ \E role \in {"user", "assistant"} :
          messages' = messages \cup {[req |-> None, role |-> role, t |-> Now]}
    /\ UNCHANGED <<session, follower, rename>>

(* The rows of one page of an order, whatever the order of equal times.    *)
First(rows, n, before(_, _)) ==
    {p \in kSubset(IF n < Cardinality(rows) THEN n ELSE Cardinality(rows), rows) :
        \A m \in p, k \in rows \ p : ~before(k, m)}

(* list_by_session with after_id: strictly later rows, oldest first; the   *)
(* client goes on from the last row it was given.                          *)
Later == {m \in messages : m.t > follower.t}
Poll ==
    /\ Edit /\ Later # {}
    /\ \E page \in First(Later, Page, LAMBDA a, b : a.t < b.t) :
          follower' = [seen |-> follower.seen \cup page, t |-> Max({m.t : m \in page})]
    /\ UNCHANGED <<session, messages, rename>>

(* rename_session: the last two rows, then the model, then the update.     *)
RenameReads ==
    /\ rename = {} /\ Cardinality(messages) >= 2
    /\ Edit
    /\ rename' \in First(messages, 2, LAMBDA a, b : a.t > b.t)
    /\ UNCHANGED <<session, messages, follower>>

RenameWrites ==
    /\ Alive /\ rename # {}
    /\ rename' = {}
    /\ UNCHANGED <<run, queue, observer, lock, socket, app, record, session, messages, follower,
                   spent>>

-----------------------------------------------------------------------------
(* The lifespan's shutdown: new requests are refused, and the process      *)
(* waits until nothing is counted, or 30 seconds.  Closing the streams     *)
(* does nothing: the set holds identifiers, and their AttributeError is    *)
(* swallowed.  Runs and records in progress are tasks nobody waits for.    *)
Shutdown ==
    /\ Alive /\ ~app.draining
    /\ app' = [app EXCEPT !.draining = TRUE]
    /\ UNCHANGED <<run, queue, observer, lock, socket, record, stored, spent>>

Dead ==
    /\ app' = [app EXCEPT !.up = FALSE]
    /\ run' = [r \in Request |-> IF run[r].at = "no" THEN run[r] ELSE [run[r] EXCEPT !.at = "over"]]
    /\ queue' = [r \in Request |-> <<>>]
    /\ observer' = [r \in Request |-> [observer[r] EXCEPT !.on = FALSE, !.orphan = FALSE]]
    /\ lock' = None
    /\ socket' = Closed
    /\ record' = [r \in Request |->
                    IF record[r].is \in {"due", "begun"} \/ (InProgress(r) /\ record[r].is = "no")
                    THEN [record[r] EXCEPT !.is = "dropped"] ELSE record[r]]
    /\ rename' = {}
    /\ UNCHANGED <<session, messages, follower>>

Exit ==
    /\ Alive /\ app.draining
    /\ app.active = 0
    /\ Dead
    /\ UNCHANGED spent

(* The 30 seconds are over, or the process dies at any other time.         *)
Die ==
    /\ Alive
    /\ \/ app.draining /\ app.active > 0 /\ UNCHANGED spent
       \/ spent < MaxExtras /\ spent' = spent + 1
    /\ Dead

(* The next process starts with the database and an expired lock.          *)
Restart ==
    /\ ~Alive
    /\ app' = [up |-> TRUE, draining |-> FALSE, active |-> 0]
    /\ UNCHANGED <<run, queue, observer, lock, socket, record, stored, spent>>

-----------------------------------------------------------------------------
Init ==
    /\ run = [r \in Request |-> [via |-> None, sent |-> 0, text |-> FALSE, at |-> "no"]]
    /\ queue = [r \in Request |-> <<>>]
    /\ observer = [r \in Request |-> [on |-> FALSE, got |-> 0, answered |-> FALSE,
                                      done |-> FALSE, orphan |-> FALSE]]
    /\ lock = None /\ socket = Closed
    /\ app = [up |-> TRUE, draining |-> FALSE, active |-> 0]
    /\ record = [r \in Request |-> [is |-> "no", t |-> 0]]
    /\ session = FALSE
    /\ messages = {}
    /\ follower = [seen |-> {}, t |-> 0]
    /\ rename = {}
    /\ spent = 0

(* The handler, its run and its record go on by themselves.                *)
RunStep(r) ==
    \/ Ensure(r) \/ Handle(r) \/ Acquire(r) \/ Refuse(r) \/ RunEnds(r) \/ PutError(r) \/ PutEnd(r)
    \/ Begin(r) \/ Commit(r)
    \/ \E e \in {"step", "answer"} : Emit(r, e)

Client(r) ==
    \/ \E via \in Way : Post(r, via)
    \/ Turned(r) \/ Start(r) \/ LeaveUnstarted(r) \/ Observe(r) \/ Disconnect(r) \/ OrphanGets(r)
    \/ Send(r)

Next ==
    \/ \E r \in Request : RunStep(r) \/ Client(r) \/ RunFails(r) \/ PersistFails(r)
    \/ Connect \/ CancelMessage \/ Close
    \/ Create \/ AddMessage \/ Poll \/ RenameReads \/ RenameWrites
    \/ Shutdown \/ Exit \/ Die \/ Restart

(* Tasks of a live event loop make progress; no client is obliged to read, *)
(* to stay or to leave.                                                    *)
Fairness == \A r \in Request : WF_vars(RunStep(r))

Spec == Init /\ [][Next]_vars /\ Fairness

-----------------------------------------------------------------------------
(* The types of the state.                                                 *)
TypeOK ==
    /\ run \in [Request -> Run]
    /\ queue \in [Request -> Seq(Event \cup {"end"})]
    /\ \A r \in Request : Len(queue[r]) <= Cap
    /\ observer \in [Request -> Observer]
    /\ lock \in Request \cup {None} /\ socket \in Request \cup {None, Closed}
    /\ app \in [up : BOOLEAN, draining : BOOLEAN, active : Nat]
    /\ record \in [Request -> Record]
    /\ session \in BOOLEAN
    /\ messages \subseteq Message /\ follower.seen \subseteq Message /\ follower.t \in Nat
    /\ rename \subseteq messages
    /\ spent \in 0..MaxExtras

(* A client that is told "done" was given every event its run emitted, and *)
(* the run is over: nothing is dropped between a detached run and a slow   *)
(* observer (chat.py, _drain_invoke and _generate).                        *)
DoneIsLast ==
    \A r \in Request :
        run[r].via = "sse" /\ observer[r].done => run[r].at = "over" /\ observer[r].got = run[r].sent

(* A turn that is recorded has the user's message, and it has an answer    *)
(* exactly when the run gave a final text, whether the client that asked   *)
(* for it was shown it, was late or had left: "message persistence happens *)
(* when the RUN finishes, not when the observer disconnects"               *)
(* (_drain_invoke).  Its rows carry one time, an answer that was shown is  *)
(* one the run gave, and a turn that is not recorded has no rows.          *)
WholeTurns ==
    \A r \in Request :
        LET rows == {m \in messages : m.req = r}
            has(role) == \E m \in rows : m.role = role
        IN  /\ record[r].is = "recorded" => has("user")
            /\ record[r].is = "recorded" => (has("assistant") <=> run[r].text)
            /\ record[r].is # "recorded" => rows = {}
            /\ observer[r].answered => run[r].text
            /\ \A m, k \in rows : m.t = k.t

(* A stream or JSON answer whose handler has its runner (chat.py 208, 319) *)
(* is counted for as long as its client waits, through any disconnections, *)
(* late readers and failures of other requests: a shutdown does not leave  *)
(* before it is served or 30 seconds have passed (main.py 305-313).  Not   *)
(* counted, and left by a shutdown: a request that awaits its session's    *)
(* row or its runner (chat.py 140-142), and every run of the websocket.    *)
Watched(r) == observer[r].on /\ run[r].via \in {"sse", "json"} /\ run[r].at \notin {"posted", "known"}

WatchersAreCounted ==
    Alive => app.active >= Cardinality({r \in Request : Watched(r)})

(* A streamed run that has started ends, and its turn reaches the record   *)
(* or fails to, whether its observer reads, stays or leaves; only the end  *)
(* of the process drops it (chat.py 193-199).  For queues that hold a run. *)
RunsOutliveObservers ==
    \A r \in Request :
        (run[r].via = "sse" /\ run[r].at \notin {"posted", "known", "open", "over"})
            ~> (run[r].at = "over" /\ record[r].is \in {"recorded", "failed", "dropped"})

-----------------------------------------------------------------------------
(* What comments and documents say and the code does not do.               *)

(* "the run itself never blocks on a dead observer" (chat.py 211-212).     *)
RunsNeverBlock ==
    \A r \in Request :
        run[r].via = "sse" /\ ~observer[r].on => ~(run[r].at \in {"locked", "failing"} /\ ~Room(r))

(* "Wait for in-flight agent runs up to 30 seconds" (main.py 305).         *)
WaitsForRuns ==
    [][Exit => \A r \in Request : run[r].at \in {"no", "over"}]_vars

(* "live run continues server-side (SSE/WS dropped only disconnects the    *)
(* observer)" (docs/frontend-e2e-plan.md 81).                              *)
DropsOnlyDisconnect == [][Close => UNCHANGED run]_vars

(* "Get messages after this ID" (sessions/api.py, get_messages).           *)
FollowersMissNothing ==
    \A m \in messages : m.t <= follower.t => m \in follower.seen

(* "a conversation that starts with the following exchange" (service.py    *)
(* 29-30): what a rename hands to the model are the first two messages.    *)
NamedAfterTheStart == rename # {} => rename \in First(messages, 2, LAMBDA a, b : a.t < b.t)

(* The count comes back to the clients that are there.                     *)
CountSettles ==
    Alive => app.active = Cardinality({r \in Request : Watched(r)})
=============================================================================
