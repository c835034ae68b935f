----------------------------- MODULE LongTermMemory -----------------------------
(***************************************************************************)
(* The long-term memory table: what the sessions' turns put into it        *)
(* (memory/manager.py over memory/store.py, and the executor's artifact    *)
(* cache), what they read back (memory/scout.py), and what the maintenance *)
(* loop of utils/scheduler.py makes of it (memory/consolidator.py and      *)
(* MemoryManager.decay).                                                   *)
(*                                                                         *)
(* A text is the fact it states; an artifact's is the operation, with its  *)
(* inputs, that it is the result of.  Two texts are near-identical (cosine     *)
(* 0.92 and more) when they state the same fact, and near enough to be     *)
(* clustered (0.87) when their facts have one topic.  Importance has two   *)
(* levels, the upper one what promotion asks for (0.7): nothing reads the  *)
(* mark that archives below 0.3.  How a value of the database travels through raw   *)
(* SQL is not modelled: a stage that chokes on one fails.                  *)
(***************************************************************************)
EXTENDS Naturals, Sequences, FiniteSets

CONSTANTS
    Session,
    Fact,
    Topic,       \* [Fact -> its topic]
    Operation,   \* cacheable reads with their inputs: execution keys
    Public,      \* those whose capability declares cache_scope "public"
    Blank,       \* the text of a summary that failed
    None,
    Job,         \* the maintenance loop, as a writer of rows
    MinCluster,  \* consolidation_min_cluster
    MinActive,   \* active rows that justify the cost: five times MinCluster
    MaxTurns,    \* bound: turns that extract memories and results kept
    MaxRows,     \* bound: rows
    MaxCycles,   \* bound: cycles of the loop
    MaxFaults    \* bound: failures, deletions and restarts

ASSUME MemoryAssumption ==
    /\ Blank \notin Fact /\ None \notin Session /\ Job \notin Session
    /\ Blank \notin Operation /\ Public \subseteq Operation
    /\ DOMAIN Topic = Fact
    /\ {MinCluster, MinActive, MaxTurns, MaxRows, MaxCycles, MaxFaults} \subseteq Nat
    /\ MinCluster >= 2

VARIABLES
    rows,       \* the table, by id
    writer,     \* by writer: the _dedup_and_store call it is in
    turn,       \* by session: the part of extract_and_store that runs next
    job,        \* the maintenance loop
    spent       \* turns, cycles and faults so far

vars == <<rows, writer, turn, job, spent>>

Kind == {"semantic", "episodic", "artifact"}
Writer == Session \cup {Job}
Id == 1..MaxRows
Importance == 1..2

(* owner is the session_id column and scope the session_id of the          *)
(* metadata; into is metadata's consolidated_into (0: none).  from is a    *)
(* history: the sessions whose words the content is made of.               *)
Row == [kind : Kind, fact : Fact \cup Operation \cup {Blank}, owner : Session \cup {None},
        scope : Session \cup {None}, emb : BOOLEAN, imp : Importance,
        status : {"active", "deprecated"}, into : 0..MaxRows, gone : BOOLEAN,
        from : SUBSET Session]

Gone == [kind |-> "semantic", fact |-> Blank, owner |-> None, scope |-> None, emb |-> FALSE,
         imp |-> 1, status |-> "active", into |-> 0, gone |-> TRUE, from |-> {}]

Item == [kind : {"semantic", "episodic"}, fact : Fact \cup {Blank},
         session : Session \cup {None}, imp : Importance, from : SUBSET Session]
NoItem == [kind |-> "semantic", fact |-> Blank, session |-> None, imp |-> 1, from |-> {}]
Memory(k, f, s, i, from) ==
    [kind |-> k, fact |-> f, session |-> s, imp |-> i, from |-> from]

Idle == [at |-> "off", item |-> NoItem, emb |-> FALSE, goal |-> 0]
Asleep(cycle) ==
    [at |-> "sleep", cycle |-> cycle, clusters |-> {}, sources |-> {}, heir |-> 0, victims |-> {}, snap |-> {}]

Live == {i \in DOMAIN rows : ~rows[i].gone}
Active == {i \in Live : rows[i].status = "active"}
Embedded(S) == {i \in S : rows[i].emb}

----------------------------------------------------------------------------
(* Reading.                                                                *)

(* MemoryStore.search, as _dedup_and_store asks it: the nearest row of the *)
(* kind, of any session and any status.                                    *)
Twins(item) == {i \in Embedded(Live) : rows[i].kind = item.kind /\ rows[i].fact = item.fact}

(* The scout's candidates when a session plans: whatever the status.       *)
Recalled(s) == {i \in Embedded(Live) : rows[i].scope = s}

(* Slip: the lookup is not restricted to the session. *)
SlipHits(s, o) == {i \in Live : rows[i].kind = "artifact" /\ rows[i].fact = o}
(* find_by_metadata for the artifact cache: the rows of this execution key *)
(* that the session's own column names, or of any session when the         *)
(* capability declares its results public.                                 *)
Hits(s, o) ==
    {i \in Live : rows[i].kind = "artifact" /\ rows[i].fact = o /\ (o \in Public \/ rows[i].owner = s)}

(* GET /memory for the user of session s.                                  *)
Listed(s) == {i \in Live : rows[i].owner \in {s, None}}

----------------------------------------------------------------------------
(* Writing: _dedup_and_store, called by the turns and by the loop.         *)

(* There is room, under the bound, for a row of each call.                 *)
Room == Len(rows) + Cardinality({p \in Writer : writer[p].at # "off"}) < MaxRows

Store(p, item) ==
    /\ Room
    /\ writer' = [writer EXCEPT ![p] = [Idle EXCEPT !.at = "search", !.item = item]]

(* The embedding may fail: the row is then stored without one, and blank   *)
(* text has none.                                                          *)
Search(p) ==
    /\ writer[p].at = "search"
    /\ \E ok \in BOOLEAN, goal \in Twins(writer[p].item) \cup {0} :
        /\ writer[p].item.fact = Blank => ~ok
        /\ goal = 0 <=> (~ok \/ Twins(writer[p].item) = {})
        /\ writer' = [writer EXCEPT ![p].at = "put", ![p].emb = ok, ![p].goal = goal]
    /\ UNCHANGED <<rows, turn, job, spent>>

NewRow(w) ==
    [kind |-> w.item.kind, fact |-> w.item.fact, owner |-> w.item.session,
     scope |-> w.item.session, emb |-> w.emb, imp |-> w.item.imp,
     status |-> "active", into |-> 0, gone |-> FALSE, from |-> w.item.from]

(* Slip: the metadata of the row that is overwritten wins.                 *)
SlipOverwritten(row, w) ==
    [row EXCEPT !.fact = w.item.fact, !.imp = w.item.imp, !.from = w.item.from]
(* put over an existing row: its content, importance and metadata; the     *)
(* column, the kind and the status stay.                                   *)
Overwritten(row, w) ==
    [row EXCEPT !.fact = w.item.fact, !.imp = w.item.imp, !.from = w.item.from,
                !.scope = w.item.session]

(* MemoryStore.put: one transaction.  A target deleted since the search is *)
(* created anew under its id.                                              *)
Put(p) ==
    /\ writer[p].at = "put"
    /\ LET w == writer[p]
           id == IF w.goal = 0 THEN Len(rows) + 1 ELSE w.goal
       IN  /\ rows' = IF w.goal = 0 THEN Append(rows, NewRow(w))
                      ELSE [rows EXCEPT ![id] = IF @.gone THEN NewRow(w) ELSE Overwritten(@, w)]
           /\ job' = IF p = Job /\ job.at = "store" THEN [job EXCEPT !.at = "deprecate", !.heir = id]
                     ELSE job
    /\ writer' = [writer EXCEPT ![p] = Idle]
    /\ UNCHANGED <<turn, spent>>

----------------------------------------------------------------------------
(* The turns.                                                              *)

(* extract_and_store: the model finds nothing or fails, or a fact that is  *)
(* worth keeping.                                                          *)
Extract(s) ==
    /\ turn[s] = "facts" /\ writer[s].at = "off" /\ spent.turns < MaxTurns
    /\ \/ UNCHANGED writer
       \/ \E k \in {"semantic", "episodic"}, f \in Fact, i \in {1, 2} :
            Store(s, Memory(k, f, s, i, {s}))
    /\ turn' = [turn EXCEPT ![s] = "summary"]
    /\ spent' = [spent EXCEPT !.turns = @ + 1]
    /\ UNCHANGED <<rows, job>>

(* The summary of the turn is stored even when it failed and is empty.     *)
Summarize(s) ==
    /\ turn[s] = "summary" /\ writer[s].at = "off"
    /\ \E f \in Fact \cup {Blank} : Store(s, Memory("episodic", f, s, 1, {s}))
    /\ turn' = [turn EXCEPT ![s] = "facts"]
    /\ UNCHANGED <<rows, job, spent>>

(* The executor keeps the result of a cacheable read under its session,    *)
(* whatever the scope.  Its lookup found nothing, failed or was skipped,   *)
(* and the table may have changed while the tool was called.               *)
StoreArtifact(s, o) ==
    /\ Room /\ spent.turns < MaxTurns
    /\ rows' = Append(rows, [kind |-> "artifact", fact |-> o, owner |-> s, scope |-> None,
                             emb |-> FALSE, imp |-> 1, status |-> "active", into |-> 0,
                             gone |-> FALSE, from |-> {s}])
    /\ spent' = [spent EXCEPT !.turns = @ + 1]
    /\ UNCHANGED <<writer, turn, job>>

Fault == spent.faults < MaxFaults /\ spent' = [spent EXCEPT !.faults = @ + 1]

(* A call on the database fails: memory_helper_node drops the rest of the  *)
(* turn's memories.                                                        *)
TurnFails(s) ==
    /\ writer[s].at # "off" /\ Fault
    /\ writer' = [writer EXCEPT ![s] = Idle]
    /\ turn' = [turn EXCEPT ![s] = "facts"]
    /\ UNCHANGED <<rows, job>>

(* DELETE /memory/{id}.                                                    *)
Delete(i) ==
    /\ i \in Live /\ Fault
    /\ rows' = [rows EXCEPT ![i] = Gone]
    /\ UNCHANGED <<writer, turn, job>>

----------------------------------------------------------------------------
(* The maintenance loop.                                                   *)

(* cycle counts modulo 2: every other cycle ends in a decay.               *)
CycleEnd(j) == IF j.cycle = 0 THEN [Asleep(j.cycle) EXCEPT !.at = "decay"] ELSE Asleep(j.cycle)

Wake ==
    /\ job.at = "sleep" /\ spent.cycles < MaxCycles
    /\ LET j == Asleep(1 - job.cycle)
       IN  job' = IF Cardinality(Active) < MinActive THEN CycleEnd(j) ELSE [j EXCEPT !.at = "cluster"]
    /\ spent' = [spent EXCEPT !.cycles = @ + 1]
    /\ UNCHANGED <<rows, writer, turn>>

(* What the rows of a set looked like when they were read, with the        *)
(* highest importance among them.                                          *)
Read(S) ==
    [ids |-> S, imp |-> IF \E i \in S : rows[i].imp = 2 THEN 2 ELSE 1,
     from |-> UNION {rows[i].from : i \in S}]

(* _find_embedding_clusters: the rows of a topic, when they are enough.    *)
Cluster ==
    /\ job.at = "cluster"
    /\ LET of(t) == {i \in Embedded(Active) : Topic[rows[i].fact] = t}
       IN  job' = [job EXCEPT !.at = "merge",
                       !.clusters = {Read(of(t)) : t \in {x \in {Topic[f] : f \in Fact} :
                                                            Cardinality(of(x)) >= MinCluster}}]
    /\ UNCHANGED <<rows, writer, turn, spent>>

Next1(c) == [job EXCEPT !.clusters = @ \ {c}]

(* Slip: the answer of the model is not looked at before it is stored.     *)
SlipMerge ==
    /\ job.at = "merge"
    /\ \E c \in job.clusters, f \in Fact \cup {Blank} :
        /\ Store(Job, Memory("semantic", f, None, c.imp, c.from))
        /\ job' = [Next1(c) EXCEPT !.at = "store", !.sources = c.ids]
    /\ UNCHANGED <<rows, turn, spent>>
(* _merge_cluster, the clusters of important rows first: the model writes  *)
(* one fact of all, or nothing and the cluster stays as it is.  The rows   *)
(* read have no session_id, so the fact is stored without a session.       *)
Merge ==
    /\ job.at = "merge"
    /\ \E c \in job.clusters :
        /\ \A d \in job.clusters : d.imp <= c.imp
        /\ \/ job' = Next1(c) /\ UNCHANGED writer
           \/ \E f \in Fact, i \in c.imp..2 :
                /\ Store(Job, Memory("semantic", f, None, i, c.from))
                /\ job' = [Next1(c) EXCEPT !.at = "store", !.sources = c.ids]
    /\ UNCHANGED <<rows, turn, spent>>

(* Then its sources are deprecated, in one transaction: the fact may have  *)
(* been stored over one of them.                                           *)
Deprecate ==
    /\ job.at = "deprecate"
    /\ rows' = [i \in DOMAIN rows |->
                    IF i \notin job.sources \/ rows[i].gone THEN rows[i]
                    ELSE [rows[i] EXCEPT !.status = "deprecated", !.into = job.heir]]
    /\ job' = [job EXCEPT !.at = "merge", !.sources = {}, !.heir = 0]
    /\ UNCHANGED <<writer, turn, spent>>

(* _promote_to_semantic: the important episodes of all sessions make facts *)
(* of the session most of them belong to.                                  *)
Episodes == {i \in Active : rows[i].kind = "episodic" /\ rows[i].imp = 2}
Dominant(S) ==
    LET owned(s) == Cardinality({i \in S : rows[i].owner = s})
    IN  IF \A s \in Session : owned(s) = 0 THEN {None}
        ELSE {s \in Session : \A r \in Session : owned(r) <= owned(s)}
Promote ==
    /\ job.at = "merge" /\ job.clusters = {}
    /\ \/ UNCHANGED writer
       \/ /\ Cardinality(Episodes) >= 2
          /\ \E f \in Fact, s \in Dominant(Episodes) :
                Store(Job, Memory("semantic", f, s, 1, Read(Episodes).from))
    /\ job' = [job EXCEPT !.at = "dedupe"]
    /\ UNCHANGED <<rows, turn, spent>>

(* _deduplicate reads the active rows once and keeps of every fact one of  *)
(* the most important, whatever its kind and session; the others are       *)
(* deprecated row by row.                                                  *)
Dedupe ==
    /\ job.at = "dedupe" /\ writer[Job].at = "off"
    /\ LET S == Embedded(Active)
           same(i) == {k \in S : rows[k].fact = rows[i].fact}
       IN  \E keep \in SUBSET S :
            /\ \A i \in S : Cardinality(keep \cap same(i)) = 1
            /\ \A i \in keep : \A k \in same(i) : rows[k].imp <= rows[i].imp
            /\ job' = [job EXCEPT !.at = "duplicates", !.victims = S \ keep]
    /\ UNCHANGED <<rows, writer, turn, spent>>
DedupeRow(i) ==
    /\ job.at = "duplicates" /\ i \in job.victims
    /\ rows' = IF rows[i].gone THEN rows ELSE [rows EXCEPT ![i].status = "deprecated"]
    /\ job' = [job EXCEPT !.victims = @ \ {i}]
    /\ UNCHANGED <<writer, turn, spent>>

(* A row as a decay reads it: importance and metadata are written back.    *)
Snap(i) == [id |-> i, imp |-> rows[i].imp, scope |-> rows[i].scope, into |-> rows[i].into]
Written(row, x, imp) ==
    IF row.gone THEN row ELSE [row EXCEPT !.imp = imp, !.scope = x.scope, !.into = x.into]

(* _adaptive_decay reads the active rows and writes them one by one.       *)
Adapt ==
    /\ job.at = "duplicates" /\ job.victims = {}
    /\ job' = [job EXCEPT !.at = "adapt", !.snap = {Snap(i) : i \in Active}]
    /\ UNCHANGED <<rows, writer, turn, spent>>
AdaptRow(i) ==
    /\ job.at = "adapt"
    /\ \E x \in job.snap, imp \in Importance :
        /\ x.id = i /\ imp <= x.imp
        /\ rows' = [rows EXCEPT ![i] = Written(@, x, imp)]
        /\ job' = [job EXCEPT !.snap = @ \ {x}]
    /\ UNCHANGED <<writer, turn, spent>>
Consolidated ==
    /\ job.at = "adapt" /\ job.snap = {}
    /\ job' = CycleEnd(job)
    /\ UNCHANGED <<rows, writer, turn, spent>>

(* MemoryManager.decay reads all rows, of any kind and status, halves the  *)
(* stale ones and commits them together.                                   *)
Decay ==
    /\ job.at = "decay"
    /\ job' = [job EXCEPT !.at = "decayed", !.snap = {Snap(i) : i \in Live}]
    /\ UNCHANGED <<rows, writer, turn, spent>>
DecayCommits ==
    /\ job.at = "decayed"
    /\ \E stale \in SUBSET job.snap :
        rows' = [i \in DOMAIN rows |->
                    IF \E x \in stale : x.id = i
                    THEN Written(rows[i], CHOOSE x \in stale : x.id = i, 1) ELSE rows[i]]
    /\ job' = Asleep(job.cycle)
    /\ UNCHANGED <<writer, turn, spent>>

(* Slip: a failure ends the loop.                                          *)
SlipJobFails ==
    /\ job.at \notin {"sleep", "dead"} /\ Fault
    /\ job' = [job EXCEPT !.at = "dead"]
    /\ writer' = [writer EXCEPT ![Job] = Idle]
    /\ UNCHANGED <<rows, turn>>
(* A stage fails: a merge is given up for the next cluster, any other      *)
(* stage ends the consolidation, and the loop goes on.                     *)
JobFails ==
    /\ job.at # "sleep" /\ Fault
    /\ job' = IF job.at \in {"store", "deprecate"}
                THEN [job EXCEPT !.at = "merge", !.sources = {}, !.heir = 0]
              ELSE IF job.at \in {"decay", "decayed"} THEN Asleep(job.cycle)
              ELSE CycleEnd(job)
    /\ writer' = [writer EXCEPT ![Job] = Idle]
    /\ UNCHANGED <<rows, turn>>

(* The process dies and starts again, its loop at the first cycle.         *)
Restart ==
    /\ Fault
    /\ writer' = [p \in Writer |-> Idle] /\ turn' = [s \in Session |-> "facts"]
    /\ job' = Asleep(0)
    /\ UNCHANGED <<rows>>

----------------------------------------------------------------------------
(* The table is empty: the loop may have slept any number of cycles.       *)
Init ==
    /\ rows = <<>> /\ writer = [p \in Writer |-> Idle] /\ turn = [s \in Session |-> "facts"]
    /\ job \in {Asleep(0), Asleep(1)} /\ spent = [turns |-> 0, cycles |-> 0, faults |-> 0]

JobStep ==
    \/ Search(Job) \/ Put(Job) \/ Cluster \/ Merge \/ Deprecate \/ Promote
    \/ Dedupe \/ (\E i \in Id : DedupeRow(i)) \/ Adapt \/ (\E i \in Id : AdaptRow(i))
    \/ Consolidated \/ Decay \/ DecayCommits

Next ==
    \/ \E s \in Session : \/ Search(s) \/ Put(s) \/ Extract(s) \/ Summarize(s) \/ TurnFails(s)
                          \/ \E o \in Operation : StoreArtifact(s, o)
    \/ \E i \in Id : Delete(i)
    \/ Wake \/ JobStep \/ JobFails \/ Restart

(* The loop is a task of the event loop that runs as long as the process.  *)
Spec == Init /\ [][Next]_vars /\ WF_vars(JobStep)

----------------------------------------------------------------------------
TypeOK ==
    /\ rows \in Seq(Row) /\ Len(rows) <= MaxRows
    /\ writer \in [Writer -> [at : {"off", "search", "put"}, item : Item, emb : BOOLEAN,
                              goal : 0..MaxRows]]
    /\ turn \in [Session -> {"facts", "summary"}]
    /\ job.at \in {"sleep", "cluster", "merge", "store", "deprecate", "dedupe", "duplicates",
                   "adapt", "decay", "decayed"}
    /\ job.sources \cup job.victims \cup {x.id : x \in job.snap} \subseteq DOMAIN rows
    /\ job.cycle \in 0..1 /\ spent.cycles <= MaxCycles /\ spent.turns <= MaxTurns /\ spent.faults <= MaxFaults

(* The artifact cache gives a session the result of an operation that is   *)
(* not declared public only if it produced it itself (I7, docs/invariants  *)
(* and store.py 135-139), and of a public one what a single session        *)
(* produced: no deduplication, merge, decay or late write puts another     *)
(* session's words into a row that a lookup finds, nor takes it away.      *)
CacheIsolated ==
    \A s \in Session, o \in Operation : \A i \in Hits(s, o) :
        /\ \E r \in Session : rows[i].from = {r} /\ (o \notin Public => r = s)
        /\ rows[i].status = "active"

(* A memory merged into another has not been lost: the other was stored,   *)
(* with a text, before (or as) this one was given up.                      *)
HeirsExist ==
    \A i \in DOMAIN rows :
        rows[i].into # 0 =>
            /\ rows[i].into \in DOMAIN rows
            /\ rows[rows[i].into].gone \/ rows[rows[i].into].fact # Blank

(* As long as only turns write, a session recalls nothing but its own      *)
(* words, although deduplication writes into the rows of other sessions    *)
(* (scout.py 156-158).                                                     *)
TurnsAloneIsolate ==
    spent.cycles = 0 => \A s \in Session : \A i \in Recalled(s) : rows[i].from = {s}

(* A cycle of the maintenance comes to its end whatever fails in it, so    *)
(* the loop sleeps again.                                                  *)
MaintenanceEnds == job.at # "sleep" ~> job.at = "sleep"

----------------------------------------------------------------------------
(* What the documentation says and the code does not do.                   *)

(* scout.py 147: "prevents cross-session data leakage"; consolidator.py    *)
(* 197 and 269: "consolidation stays SESSION-SCOPED".                      *)
RecallIsolates == \A s \in Session : \A i \in Recalled(s) : rows[i].from \subseteq {s}

(* api/memory.py 44: "only memories of the caller's sessions (plus legacy  *)
(* NULL-session/system rows) are visible".                                 *)
ListsOwnMemories == \A s \in Session : \A i \in Listed(s) : rows[i].from \subseteq {s}

(* consolidator.py 199: "global (session-less) facts are never written".   *)
NoGlobalFacts == \A i \in Live : rows[i].kind # "artifact" => rows[i].scope # None

(* store.py 81: overwriting "destroys the original attribution": the row   *)
(* of a session goes on saying so.                                         *)
AttributionStays ==
    [][\A i \in DOMAIN rows : ~rows[i].gone /\ ~rows'[i].gone /\ rows[i].scope # None
            => rows'[i].scope = rows[i].scope]_vars

(* manager.py 151, "Deduplicate against existing memories": of one fact    *)
(* and kind the turns keep one row.                                        *)
OneRowPerFact ==
    spent.cycles = 0 => \A i, k \in Embedded(Live) :
        rows[i].kind = rows[k].kind /\ rows[i].fact = rows[k].fact => i = k

(* consolidator.py 175, "into a single consolidated entry": the entry a    *)
(* merge leaves is not given up with its sources.                          *)
HeirsSurvive ==
    \A i \in Live : rows[i].into # 0 => rows[i].into # i

(* db/models/memory.py 57, "active | deprecated | archived": what is       *)
(* deprecated is not recalled.                                             *)
DeprecatedAreForgotten ==
    \A s \in Session : \A i \in Recalled(s) : rows[i].status = "active"

(* manager.py 28, "salient information": an empty text is no memory.       *)
MemoriesHaveText == \A i \in Live : rows[i].fact # Blank
================================================================================
