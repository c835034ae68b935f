--------------------------- MODULE LongTermMemory_proofs ---------------------------
(***************************************************************************)
(* Proofs about the memory table: whatever the sessions' turns, the        *)
(* maintenance loop, deletions, failures and restarts interleave.          *)
(***************************************************************************)
EXTENDS LongTermMemory, SequenceTheorems, TLAPS

RowT == [kind : Kind, fact : Fact \cup Operation \cup {Blank}, owner : Session \cup {None},
         scope : Session \cup {None}, emb : BOOLEAN, imp : Importance,
         status : {"active", "deprecated"}, into : Nat, gone : BOOLEAN, from : SUBSET Session]
WriterT == [at : {"off", "search", "put"}, item : Item, emb : BOOLEAN, goal : Nat]
ClusterT == [ids : SUBSET Nat, imp : Importance, from : SUBSET Session]
SnapT == [id : Nat, imp : Importance, scope : Session \cup {None}, into : Nat]
JobT == [at : {"sleep", "cluster", "merge", "store", "deprecate", "dedupe", "duplicates", "adapt",
               "decay", "decayed"},
         cycle : 0..1, clusters : SUBSET ClusterT, sources : SUBSET Nat, heir : Nat,
         victims : SUBSET Nat, snap : SUBSET SnapT]

(* The types, without the bounds of the model.                             *)
Typed ==
    /\ rows \in Seq(RowT)
    /\ writer \in [Writer -> WriterT]
    /\ job \in JobT
    /\ spent \in [turns : Nat, cycles : Nat, faults : Nat]

Kept(k) == k \in DOMAIN rows /\ rows[k].kind # "artifact"

(* A row that others may name as their heir.                               *)
Heir(k) == k \in DOMAIN rows /\ (rows[k].gone \/ rows[k].fact # Blank)

(* What is about to be written is no artifact, and has a text when it goes *)
(* over a row or is the loop's.                                            *)
Aimed ==
    /\ \A p \in Writer : writer[p].at = "put" /\ writer[p].goal # 0 =>
            Kept(writer[p].goal) /\ writer[p].item.fact # Blank
    /\ writer[Job].at # "off" => writer[Job].item.fact # Blank
    /\ \A c \in job.clusters : \A i \in c.ids : Kept(i)
    /\ \A i \in job.sources \cup job.victims : Kept(i)

(* The rows of the artifact cache are as their session stored them.        *)
Cached ==
    \A i \in DOMAIN rows : rows[i].kind = "artifact" =>
        /\ ~rows[i].emb /\ rows[i].status = "active"
        /\ rows[i].owner \in Session /\ rows[i].from = {rows[i].owner}

Inherited ==
    /\ \A i \in DOMAIN rows : rows[i].into # 0 => Heir(rows[i].into)
    /\ \A x \in job.snap : x.into # 0 => Heir(x.into)
    /\ job.at = "deprecate" => Heir(job.heir)

(* Before the first cycle the loop has done nothing.                       *)
Alone ==
    spent.cycles = 0 =>
        /\ job.at = "sleep" /\ writer[Job].at = "off"
        /\ \A p \in Session : writer[p].at # "off" =>
                writer[p].item.session = p /\ writer[p].item.from = {p}
        /\ \A i \in Live : rows[i].kind # "artifact" => rows[i].from = {rows[i].scope}

MemInv == Typed /\ Aimed /\ Cached /\ Inherited /\ Alone

-----------------------------------------------------------------------------
(* What a step does to one row, and to the end of the table.               *)
Artifact(s, o) ==
    [kind |-> "artifact", fact |-> o, owner |-> s, scope |-> None, emb |-> FALSE, imp |-> 1,
     status |-> "active", into |-> 0, gone |-> FALSE, from |-> {s}]

Edited(i) ==
    \/ rows'[i] = rows[i]
    \/ rows'[i] = Gone
    \/ \E p \in Writer :
          /\ writer[p].at = "put" /\ writer[p].goal = i
          /\ rows'[i] = IF rows[i].gone THEN NewRow(writer[p]) ELSE Overwritten(rows[i], writer[p])
    \/ /\ job.at = "deprecate" /\ i \in job.sources
       /\ rows'[i] = [rows[i] EXCEPT !.status = "deprecated", !.into = job.heir]
    \/ i \in job.victims /\ rows'[i] = [rows[i] EXCEPT !.status = "deprecated"]
    \/ /\ job.at # "sleep"
       /\ \E x \in job.snap, imp \in Importance : rows'[i] = Written(rows[i], x, imp)

Added(row) ==
    \/ \E p \in Writer : writer[p].at = "put" /\ writer[p].goal = 0 /\ row = NewRow(writer[p])
    \/ \E s \in Session, o \in Operation : row = Artifact(s, o)

Table ==
    \/ rows' = rows
    \/ DOMAIN rows' = DOMAIN rows /\ rows' \in Seq(RowT) /\ \A i \in DOMAIN rows : Edited(i)
    \/ \E row \in RowT : Added(row) /\ rows' = Append(rows, row)

LEMMA GoneTyped == Gone \in RowT
BY MemoryAssumption DEF Gone, RowT, Kind, Importance

LEMMA NewTyped == ASSUME Typed, NEW p \in Writer PROVE NewRow(writer[p]) \in RowT
<1>1. writer[p] \in WriterT /\ writer[p].item \in Item
  BY DEF Typed, WriterT
<1> QED BY <1>1 DEF NewRow, RowT, WriterT, Item, Kind

LEMMA OverTyped ==
    ASSUME Typed, NEW p \in Writer, NEW row \in RowT
    PROVE  Overwritten(row, writer[p]) \in RowT
<1>1. writer[p] \in WriterT /\ writer[p].item \in Item
  BY DEF Typed, WriterT
<1> QED BY <1>1 DEF Overwritten, RowT, WriterT, Item

LEMMA WrittenTyped ==
    ASSUME NEW row \in RowT, NEW x \in SnapT, NEW imp \in Importance
    PROVE  Written(row, x, imp) \in RowT
BY DEF Written, RowT, SnapT

LEMMA EditTyped ==
    ASSUME Typed, NEW i \in DOMAIN rows, NEW row,
           \/ row = rows[i]
           \/ row = Gone
           \/ \E p \in Writer : row = IF rows[i].gone THEN NewRow(writer[p])
                                      ELSE Overwritten(rows[i], writer[p])
           \/ row = [rows[i] EXCEPT !.status = "deprecated", !.into = job.heir]
           \/ row = [rows[i] EXCEPT !.status = "deprecated"]
           \/ \E x \in job.snap, imp \in Importance : row = Written(rows[i], x, imp)
    PROVE  row \in RowT
<1>1. rows[i] \in RowT
  BY DEF Typed
<1>2. job.heir \in Nat /\ job.snap \subseteq SnapT
  BY DEF Typed, JobT
<1>3. [rows[i] EXCEPT !.status = "deprecated", !.into = job.heir] \in RowT
  BY <1>1, <1>2 DEF RowT
<1>4. [rows[i] EXCEPT !.status = "deprecated"] \in RowT
  BY <1>1 DEF RowT
<1> QED BY <1>1, <1>2, <1>3, <1>4, GoneTyped, NewTyped, OverTyped, WrittenTyped

LEMMA TableEdited ==
    ASSUME Typed, rows' = [i \in DOMAIN rows |-> rows'[i]], \A i \in DOMAIN rows : Edited(i)
    PROVE  Table
<1>1. \A i \in DOMAIN rows : rows'[i] \in RowT
  BY EditTyped DEF Edited
<1>2. DOMAIN rows = 1..Len(rows) /\ Len(rows) \in Nat
  BY DEF Typed
<1>3. rows' \in Seq(RowT)
  BY <1>1, <1>2, SeqDef
<1> QED BY <1>3 DEF Table

LEMMA EditOne ==
    ASSUME Typed, NEW k \in DOMAIN rows, NEW row, rows' = [rows EXCEPT ![k] = row], Edited(k)
    PROVE  Table
<1>1. \A i \in DOMAIN rows : Edited(i)
  BY DEF Edited
<1>2. rows' = [i \in DOMAIN rows |-> rows'[i]]
  OBVIOUS
<1> QED BY <1>1, <1>2, TableEdited

LEMMA TableNext == ASSUME Typed, [Next]_vars PROVE Table
<1>1. ASSUME NEW p \in Writer, Put(p) PROVE Table
  <2>1. CASE writer[p].goal = 0
    BY <1>1, <2>1, NewTyped DEF Put, Table, Added
  <2>2. CASE writer[p].goal # 0 /\ writer[p].goal \in DOMAIN rows
    <3> DEFINE k == writer[p].goal
    <3> DEFINE row == IF rows[k].gone THEN NewRow(writer[p]) ELSE Overwritten(rows[k], writer[p])
    <3>1. rows' = [rows EXCEPT ![k] = row] /\ writer[p].at = "put"
      BY <1>1, <2>2 DEF Put
    <3>2. Edited(k)
      BY <3>1, <2>2 DEF Edited
    <3> QED BY <3>1, <3>2, <2>2, EditOne
  <2>3. CASE writer[p].goal # 0 /\ writer[p].goal \notin DOMAIN rows
    <3>1. rows' = rows
      BY <1>1, <2>3 DEF Put, Typed
    <3> QED BY <3>1 DEF Table
  <2> QED BY <2>1, <2>2, <2>3
<1>2. ASSUME NEW s \in Session, NEW o \in Operation, StoreArtifact(s, o) PROVE Table
  <2>1. Artifact(s, o) \in RowT
    BY DEF Artifact, RowT, Kind, Importance
  <2> QED BY <1>2, <2>1 DEF StoreArtifact, Artifact, Table, Added
<1>3. ASSUME NEW i \in Id, Delete(i) PROVE Table
  BY <1>3, EditOne DEF Delete, Live, Edited
<1>4. CASE Deprecate
  <2>1. \A i \in DOMAIN rows : Edited(i)
    BY <1>4 DEF Deprecate, Edited
  <2>2. rows' = [i \in DOMAIN rows |-> rows'[i]]
    BY <1>4 DEF Deprecate
  <2> QED BY <2>1, <2>2, TableEdited
<1>5. ASSUME NEW i \in Id, DedupeRow(i) PROVE Table
  <2>1. CASE i \in DOMAIN rows /\ ~rows[i].gone
    <3>1. rows' = [rows EXCEPT ![i] = [rows[i] EXCEPT !.status = "deprecated"]] /\ i \in job.victims
      BY <1>5, <2>1 DEF DedupeRow
    <3>2. Edited(i)
      BY <2>1, <3>1 DEF Edited
    <3> QED BY <2>1, <3>1, <3>2, EditOne
  <2>2. CASE ~(i \in DOMAIN rows /\ ~rows[i].gone)
    <3>1. rows' = rows
      BY <1>5, <2>2 DEF DedupeRow, Typed
    <3> QED BY <3>1 DEF Table
  <2> QED BY <2>1, <2>2
<1>6. ASSUME NEW i \in Id, AdaptRow(i) PROVE Table
  <2>1. PICK x \in job.snap, imp \in Importance : rows' = [rows EXCEPT ![i] = Written(rows[i], x, imp)]
    BY <1>6 DEF AdaptRow
  <2>2. CASE i \in DOMAIN rows
    <3>1. Edited(i)
      BY <1>6, <2>1, <2>2 DEF Edited, AdaptRow
    <3> QED BY <2>1, <2>2, <3>1, EditOne
  <2>3. CASE i \notin DOMAIN rows
    <3>1. rows' = rows
      BY <2>1, <2>3 DEF Typed
    <3> QED BY <3>1 DEF Table
  <2> QED BY <2>2, <2>3
<1>7. CASE DecayCommits
  <2>1. PICK stale \in SUBSET job.snap :
            rows' = [i \in DOMAIN rows |->
                       IF \E x \in stale : x.id = i
                       THEN Written(rows[i], CHOOSE x \in stale : x.id = i, 1) ELSE rows[i]]
    BY <1>7 DEF DecayCommits
  <2>2. ASSUME NEW i \in DOMAIN rows PROVE Edited(i)
    <3> DEFINE x == CHOOSE x \in stale : x.id = i
    <3>1. CASE \E y \in stale : y.id = i
      <4>1. x \in job.snap
        BY <3>1
      <4>2. rows'[i] = Written(rows[i], x, 1) /\ 1 \in Importance
        BY <2>1, <3>1 DEF Importance
      <4> HIDE DEF x
      <4> QED BY <1>7, <4>1, <4>2 DEF Edited, DecayCommits
    <3>2. CASE ~\E y \in stale : y.id = i
      BY <2>1, <3>2 DEF Edited
    <3> QED BY <3>1, <3>2
  <2>3. rows' = [i \in DOMAIN rows |-> rows'[i]]
    BY <2>1
  <2> QED BY <2>2, <2>3, TableEdited
<1>8. ASSUME NEW s \in Session, Extract(s) \/ Summarize(s) \/ TurnFails(s) PROVE Table
  BY <1>8 DEF Extract, Summarize, TurnFails, Table
<1>9. ASSUME NEW p \in Writer, Search(p) PROVE Table
  BY <1>9 DEF Search, Table
<1>10. CASE Wake \/ Cluster \/ Merge \/ Promote \/ Dedupe \/ Adapt \/ Consolidated \/ Decay \/ JobFails
            \/ Restart \/ UNCHANGED vars
  BY <1>10 DEF Wake, Cluster, Merge, Promote, Dedupe, Adapt, Consolidated, Decay, JobFails, Restart,
     vars, Table
<1> QED BY <1>1, <1>2, <1>3, <1>4, <1>5, <1>6, <1>7, <1>8, <1>9, <1>10 DEF Next, JobStep, Writer

-----------------------------------------------------------------------------
(* What a step does to a writer.                                           *)
Took(p) ==
    \E item \in Item :
        /\ writer'[p] = [Idle EXCEPT !.at = "search", !.item = item]
        /\ p \in Session => item.session = p /\ item.from = {p}
        /\ p = Job => item.fact # Blank /\ job.at = "merge"

Looked(p) ==
    \E ok \in BOOLEAN, goal \in Twins(writer[p].item) \cup {0} :
        /\ writer[p].at = "search" /\ (goal # 0 => writer[p].item.fact # Blank)
        /\ writer'[p] = [writer[p] EXCEPT !.at = "put", !.emb = ok, !.goal = goal]

Wrote(p) == writer'[p] = writer[p] \/ writer'[p] = Idle \/ Took(p) \/ Looked(p)

LEMMA IdleTyped == Idle \in WriterT
<1>1. NoItem \in Item
  BY MemoryAssumption DEF NoItem, Item, Importance
<1> QED BY <1>1 DEF Idle, WriterT

LEMMA TookFacts ==
    ASSUME NEW p, Took(p)
    PROVE  /\ writer'[p].at = "search"
           /\ p \in Session => writer'[p].item.session = p /\ writer'[p].item.from = {p}
           /\ p = Job => writer'[p].item.fact # Blank /\ job.at = "merge"
<1>1. PICK item \in Item :
          /\ writer'[p] = [Idle EXCEPT !.at = "search", !.item = item]
          /\ p \in Session => item.session = p /\ item.from = {p}
          /\ p = Job => item.fact # Blank /\ job.at = "merge"
  BY DEF Took
<1>2. writer'[p].at = "search" /\ writer'[p].item = item
  BY <1>1 DEF Idle
<1> QED BY <1>1, <1>2

LEMMA StoreWrites ==
    ASSUME Typed, NEW p \in Writer, NEW item \in Item, Store(p, item),
           p \in Session => item.session = p /\ item.from = {p},
           p = Job => item.fact # Blank /\ job.at = "merge"
    PROVE  writer' = [writer EXCEPT ![p] = writer'[p]] /\ \A q \in Writer : Wrote(q)
<1>1. writer' = [writer EXCEPT ![p] = [Idle EXCEPT !.at = "search", !.item = item]]
  BY DEF Store
<1> QED BY <1>1 DEF Wrote, Took, Typed

LEMMA WritersNext ==
    ASSUME Typed, [Next]_vars
    PROVE  writer' = [p \in Writer |-> writer'[p]] /\ \A p \in Writer : Wrote(p)
<1> DEFINE Goal == writer' = [p \in Writer |-> writer'[p]] /\ \A p \in Writer : Wrote(p)
<1> SUFFICES Goal
  OBVIOUS
<1> HIDE DEF Goal
<1>0. writer = [p \in Writer |-> writer[p]]
  BY DEF Typed
<1>1. ASSUME writer' = writer PROVE Goal
  BY <1>0, <1>1 DEF Goal, Wrote
<1>2. ASSUME NEW p \in Writer, writer' = [writer EXCEPT ![p] = Idle] PROVE Goal
  BY <1>0, <1>2 DEF Goal, Wrote
<1>3. ASSUME NEW p \in Writer, NEW item \in Item, Store(p, item),
             p \in Session => item.session = p /\ item.from = {p},
             p = Job => item.fact # Blank /\ job.at = "merge"
      PROVE  Goal
  <2>1. writer' = [writer EXCEPT ![p] = [Idle EXCEPT !.at = "search", !.item = item]]
    BY <1>3 DEF Store
  <2> QED BY <1>0, <1>3, <2>1, StoreWrites DEF Goal
<1>4. ASSUME NEW p \in Writer, Search(p) PROVE Goal
  <2>1. PICK ok \in BOOLEAN, goal \in Twins(writer[p].item) \cup {0} :
            /\ writer[p].item.fact = Blank => ~ok
            /\ goal = 0 <=> (~ok \/ Twins(writer[p].item) = {})
            /\ writer' = [writer EXCEPT ![p].at = "put", ![p].emb = ok, ![p].goal = goal]
    BY <1>4 DEF Search
  <2>2. writer'[p] = [writer[p] EXCEPT !.at = "put", !.emb = ok, !.goal = goal]
    BY <2>1 DEF Typed, WriterT
  <2>3. Looked(p)
    BY <1>4, <2>1, <2>2 DEF Looked, Search
  <2>4. \A q \in Writer \ {p} : writer'[q] = writer[q]
    BY <2>1 DEF Typed
  <2>5. writer' = [q \in Writer |-> writer'[q]]
    BY <2>1 DEF Typed
  <2> QED BY <2>3, <2>4, <2>5 DEF Goal, Wrote
<1>5. ASSUME NEW s \in Session, Extract(s) \/ Summarize(s) PROVE Goal
  <2>1. s \in Writer /\ s # Job
    BY MemoryAssumption DEF Writer
  <2>2. ASSUME NEW k \in {"semantic", "episodic"}, NEW f \in Fact \cup {Blank}, NEW i \in {1, 2},
               Store(s, Memory(k, f, s, i, {s}))
        PROVE  Goal
    <3>1. Memory(k, f, s, i, {s}) \in Item
      BY DEF Memory, Item, Importance
    <3>2. Memory(k, f, s, i, {s}).session = s /\ Memory(k, f, s, i, {s}).from = {s}
      BY DEF Memory
    <3> QED BY <2>1, <2>2, <3>1, <3>2, <1>3
  <2>3. CASE Extract(s)
    BY <2>2, <2>3, <1>1 DEF Extract
  <2>4. CASE Summarize(s)
    BY <2>2, <2>4 DEF Summarize
  <2> QED BY <1>5, <2>3, <2>4
<1>6. CASE Merge
  <2>1. CASE UNCHANGED writer
    BY <2>1, <1>1
  <2>2. CASE ~UNCHANGED writer
    <3>0. PICK c \in job.clusters :
              \E f \in Fact, i \in c.imp..2 : Store(Job, Memory("semantic", f, None, i, c.from))
      BY <1>6, <2>2 DEF Merge
    <3>1. PICK f \in Fact, i \in c.imp..2 : Store(Job, Memory("semantic", f, None, i, c.from))
      BY <3>0
    <3>2. c \in ClusterT
      BY DEF Typed, JobT
    <3>3. i \in Importance
      BY <3>2 DEF ClusterT, Importance
    <3>4. Memory("semantic", f, None, i, c.from) \in Item
      BY <3>2, <3>3 DEF Memory, Item, ClusterT
    <3>5. Memory("semantic", f, None, i, c.from).fact # Blank
      BY MemoryAssumption DEF Memory
    <3> QED BY <1>6, <3>1, <3>4, <3>5, <1>3, MemoryAssumption DEF Merge, Writer
  <2> QED BY <2>1, <2>2
<1>7. CASE Promote
  <2>1. CASE UNCHANGED writer
    BY <2>1, <1>1
  <2>2. CASE ~UNCHANGED writer
    <3>1. PICK f \in Fact, s \in Dominant(Episodes) :
              Store(Job, Memory("semantic", f, s, 1, Read(Episodes).from))
      BY <1>7, <2>2 DEF Promote
    <3>2. s \in Session \cup {None}
      BY DEF Dominant
    <3>3. Read(Episodes).from \in SUBSET Session
      <4>1. \A i \in Episodes : rows[i].from \in SUBSET Session
        <5>1. \A i \in DOMAIN rows : rows[i] \in RowT
          BY DEF Typed
        <5> QED BY <5>1 DEF Episodes, Active, Live, RowT
      <4> QED BY <4>1 DEF Read
    <3>4. Memory("semantic", f, s, 1, Read(Episodes).from) \in Item
      BY <3>2, <3>3 DEF Memory, Item, Importance
    <3>5. Memory("semantic", f, s, 1, Read(Episodes).from).fact # Blank
      BY MemoryAssumption DEF Memory
    <3> QED BY <1>7, <3>1, <3>4, <3>5, <1>3, MemoryAssumption DEF Promote, Writer
  <2> QED BY <2>1, <2>2
<1>8. ASSUME NEW p \in Writer, Put(p) PROVE Goal
  BY <1>8, <1>2 DEF Put
<1>9. ASSUME NEW s \in Session, TurnFails(s) PROVE Goal
  BY <1>9, <1>2 DEF TurnFails, Writer
<1>10. CASE JobFails
  BY <1>10, <1>2 DEF JobFails, Writer
<1>11. CASE Restart
  BY <1>11 DEF Restart, Goal, Wrote
<1>12. ASSUME NEW s \in Session, NEW o \in Operation, StoreArtifact(s, o) PROVE Goal
  BY <1>12, <1>1 DEF StoreArtifact
<1>13. ASSUME NEW i \in Id, Delete(i) \/ DedupeRow(i) \/ AdaptRow(i) PROVE Goal
  BY <1>13, <1>1 DEF Delete, DedupeRow, AdaptRow
<1>14. CASE Wake \/ Cluster \/ Deprecate \/ Dedupe \/ Adapt \/ Consolidated \/ Decay \/ DecayCommits
            \/ UNCHANGED vars
  BY <1>14, <1>1 DEF Wake, Cluster, Deprecate, Dedupe, Adapt, Consolidated, Decay, DecayCommits, vars
<1> QED BY <1>4, <1>5, <1>6, <1>7, <1>8, <1>9, <1>10, <1>11, <1>12, <1>13, <1>14
        DEF Next, JobStep, Writer

-----------------------------------------------------------------------------
(* Types.                                                                  *)
LEMMA RowsFacts ==
    ASSUME Typed
    PROVE  /\ Len(rows) \in Nat /\ DOMAIN rows = 1..Len(rows) /\ DOMAIN rows \subseteq Nat
           /\ \A i \in DOMAIN rows : rows[i] \in RowT
BY DEF Typed

LEMMA WritersTyped == ASSUME Typed, [Next]_vars PROVE writer' \in [Writer -> WriterT]
<1>1. ASSUME NEW p \in Writer PROVE writer'[p] \in WriterT
  <2>1. writer[p] \in WriterT
    BY DEF Typed
  <2>2. CASE Took(p)
    BY <2>2, IdleTyped DEF Took, WriterT
  <2>3. CASE Looked(p)
    <3>1. PICK ok \in BOOLEAN, goal \in Twins(writer[p].item) \cup {0} :
              writer'[p] = [writer[p] EXCEPT !.at = "put", !.emb = ok, !.goal = goal]
      BY <2>3 DEF Looked
    <3>2. goal \in Nat
      BY RowsFacts DEF Twins, Embedded, Live
    <3> QED BY <2>1, <3>1, <3>2 DEF WriterT
  <2> QED BY <2>1, <2>2, <2>3, IdleTyped, WritersNext DEF Wrote
<1> QED BY <1>1, WritersNext

LEMMA AsleepTyped == \A c \in 0..1 : Asleep(c) \in JobT
BY DEF Asleep, JobT

LEMMA EndTyped == \A j \in JobT : CycleEnd(j) \in JobT
<1> SUFFICES ASSUME NEW j \in JobT PROVE CycleEnd(j) \in JobT
  OBVIOUS
<1>1. j.cycle \in 0..1
  BY DEF JobT
<1>2. Asleep(j.cycle) \in JobT
  BY <1>1, AsleepTyped
<1> QED BY <1>2 DEF CycleEnd, JobT

LEMMA ReadTyped == ASSUME Typed, NEW S \in SUBSET DOMAIN rows PROVE Read(S) \in ClusterT
<1>1. \A i \in S : rows[i].from \in SUBSET Session
  BY RowsFacts DEF RowT
<1>2. S \subseteq Nat
  BY RowsFacts
<1>3. UNION {rows[i].from : i \in S} \in SUBSET Session
  BY <1>1
<1> QED BY <1>2, <1>3 DEF Read, ClusterT, Importance

LEMMA SnapTyped == ASSUME Typed, NEW i \in DOMAIN rows PROVE Snap(i) \in SnapT
<1>1. rows[i] \in RowT /\ i \in Nat
  BY RowsFacts
<1> QED BY <1>1 DEF Snap, SnapT, RowT

LEMMA JobTyped == ASSUME Typed, [Next]_vars PROVE job' \in JobT
<1>0. job \in JobT /\ job.cycle \in 0..1
  BY DEF Typed, JobT
<1>1. ASSUME NEW p \in Writer, Put(p) PROVE job' \in JobT
  <2>1. writer[p].goal \in Nat /\ Len(rows) + 1 \in Nat
    BY RowsFacts DEF Typed, WriterT
  <2>2. \A id \in Nat : [job EXCEPT !.at = "deprecate", !.heir = id] \in JobT
    BY <1>0 DEF JobT
  <2>3. \/ job' = job
        \/ job' = [job EXCEPT !.at = "deprecate", !.heir = Len(rows) + 1]
        \/ job' = [job EXCEPT !.at = "deprecate", !.heir = writer[p].goal]
    BY <1>1 DEF Put
  <2> QED BY <1>0, <2>1, <2>2, <2>3
<1>2. CASE Wake
  <2> DEFINE j == Asleep(1 - job.cycle)
  <2>1. j \in JobT
    BY <1>0, AsleepTyped
  <2>2. job' = CycleEnd(j) \/ job' = [j EXCEPT !.at = "cluster"]
    BY <1>2 DEF Wake
  <2> HIDE DEF j
  <2>3. [j EXCEPT !.at = "cluster"] \in JobT
    BY <2>1 DEF JobT
  <2> QED BY <2>1, <2>2, <2>3, EndTyped
<1>3. CASE Cluster
  <2> DEFINE of(t) == {i \in Embedded(Active) : Topic[rows[i].fact] = t}
  <2> DEFINE found == {Read(of(t)) : t \in {x \in {Topic[f] : f \in Fact} :
                                                Cardinality(of(x)) >= MinCluster}}
  <2>1. job' = [job EXCEPT !.at = "merge", !.clusters = found]
    BY <1>3 DEF Cluster
  <2>2. \A t : of(t) \in SUBSET DOMAIN rows
    BY DEF Embedded, Active, Live
  <2>3. \A t : Read(of(t)) \in ClusterT
    BY <2>2, ReadTyped
  <2>4. found \subseteq ClusterT
    BY <2>3
  <2> HIDE DEF found
  <2> QED BY <1>0, <2>1, <2>4 DEF JobT
<1>4. CASE Merge
  <2>1. PICK c \in job.clusters : job' = Next1(c) \/ job' = [Next1(c) EXCEPT !.at = "store", !.sources = c.ids]
    BY <1>4 DEF Merge
  <2>2. c.ids \subseteq Nat /\ job.clusters \ {c} \subseteq ClusterT
    BY <1>0 DEF JobT, ClusterT
  <2>3. Next1(c) \in JobT
    BY <1>0, <2>2 DEF Next1, JobT
  <2> QED BY <2>1, <2>2, <2>3 DEF JobT
<1>5. CASE Deprecate \/ Promote
  <2>1. \/ job' = [job EXCEPT !.at = "merge", !.sources = {}, !.heir = 0]
        \/ job' = [job EXCEPT !.at = "dedupe"]
    BY <1>5 DEF Deprecate, Promote
  <2>2. [job EXCEPT !.at = "merge", !.sources = {}, !.heir = 0] \in JobT
    BY <1>0 DEF JobT
  <2>3. [job EXCEPT !.at = "dedupe"] \in JobT
    BY <1>0 DEF JobT
  <2> QED BY <2>1, <2>2, <2>3
<1>6. CASE Dedupe
  <2>1. PICK keep : job' = [job EXCEPT !.at = "duplicates", !.victims = Embedded(Active) \ keep]
    BY <1>6 DEF Dedupe
  <2>2. Embedded(Active) \ keep \subseteq Nat
    BY RowsFacts DEF Embedded, Active, Live
  <2> QED BY <1>0, <2>1, <2>2 DEF JobT
<1>7. ASSUME NEW i \in Id, DedupeRow(i) PROVE job' \in JobT
  BY <1>0, <1>7 DEF DedupeRow, JobT
<1>8. ASSUME NEW i \in Id, AdaptRow(i) PROVE job' \in JobT
  <2>1. PICK x : job' = [job EXCEPT !.snap = @ \ {x}]
    BY <1>8 DEF AdaptRow
  <2> QED BY <1>0, <2>1 DEF JobT
<1>9. CASE Adapt \/ Decay
  <2> DEFINE seen(S) == {Snap(i) : i \in S}
  <2>1. \A S \in SUBSET DOMAIN rows : seen(S) \subseteq SnapT
    BY SnapTyped
  <2>2. seen(Active) \subseteq SnapT /\ seen(Live) \subseteq SnapT
    BY <2>1 DEF Active, Live
  <2>3. \/ job' = [job EXCEPT !.at = "adapt", !.snap = seen(Active)]
        \/ job' = [job EXCEPT !.at = "decayed", !.snap = seen(Live)]
    BY <1>9 DEF Adapt, Decay
  <2> HIDE DEF seen
  <2> QED BY <1>0, <2>2, <2>3 DEF JobT
<1>10. CASE Consolidated \/ DecayCommits
  BY <1>0, <1>10, EndTyped, AsleepTyped DEF Consolidated, DecayCommits
<1>11. CASE JobFails
  <2>1. [job EXCEPT !.at = "merge", !.sources = {}, !.heir = 0] \in JobT
    BY <1>0 DEF JobT
  <2> QED BY <1>0, <1>11, <2>1, EndTyped, AsleepTyped DEF JobFails
<1>12. CASE Restart
  BY <1>12, AsleepTyped DEF Restart
<1>13. ASSUME NEW p \in Writer, Search(p) PROVE job' \in JobT
  BY <1>0, <1>13 DEF Search
<1>14. ASSUME NEW s \in Session, Extract(s) \/ Summarize(s) \/ TurnFails(s) PROVE job' \in JobT
  BY <1>0, <1>14 DEF Extract, Summarize, TurnFails
<1>15. ASSUME NEW s \in Session, NEW o \in Operation, StoreArtifact(s, o) PROVE job' \in JobT
  BY <1>0, <1>15 DEF StoreArtifact
<1>16. ASSUME NEW i \in Id, Delete(i) PROVE job' \in JobT
  BY <1>0, <1>16 DEF Delete
<1>17. CASE UNCHANGED vars
  BY <1>0, <1>17 DEF vars
<1> QED BY <1>1, <1>2, <1>3, <1>4, <1>5, <1>6, <1>7, <1>8, <1>9, <1>10, <1>11, <1>12, <1>13, <1>14,
           <1>15, <1>16, <1>17 DEF Next, JobStep, Writer

LEMMA SpentTyped ==
    ASSUME Typed, [Next]_vars
    PROVE  /\ spent' \in [turns : Nat, cycles : Nat, faults : Nat]
           /\ spent'.cycles = spent.cycles \/ (Wake /\ spent'.cycles = spent.cycles + 1)
<1> USE DEF Typed
<1>1. CASE UNCHANGED spent
  BY <1>1
<1>2. CASE Fault
  BY <1>2 DEF Fault
<1>3. CASE Wake
  BY <1>3 DEF Wake
<1>4. ASSUME NEW s \in Session, Extract(s) PROVE spent' = [spent EXCEPT !.turns = @ + 1]
  BY <1>4 DEF Extract
<1>5. ASSUME NEW s \in Session, NEW o \in Operation, StoreArtifact(s, o)
      PROVE  spent' = [spent EXCEPT !.turns = @ + 1]
  BY <1>5 DEF StoreArtifact
<1>6. CASE spent' = [spent EXCEPT !.turns = @ + 1]
  BY <1>6
<1>7. ASSUME NEW p \in Writer, Search(p) \/ Put(p) PROVE UNCHANGED spent
  BY <1>7 DEF Search, Put
<1>8. ASSUME NEW s \in Session, Summarize(s) \/ TurnFails(s) PROVE UNCHANGED spent \/ Fault
  BY <1>8 DEF Summarize, TurnFails
<1>9. ASSUME NEW i \in Id, Delete(i) \/ DedupeRow(i) \/ AdaptRow(i) PROVE UNCHANGED spent \/ Fault
  BY <1>9 DEF Delete, DedupeRow, AdaptRow
<1>10. CASE Cluster \/ Merge \/ Deprecate \/ Promote \/ Dedupe \/ Adapt \/ Consolidated \/ Decay
            \/ DecayCommits \/ UNCHANGED vars
  BY <1>10, <1>1 DEF Cluster, Merge, Deprecate, Promote, Dedupe, Adapt, Consolidated, Decay,
     DecayCommits, vars
<1>11. CASE JobFails \/ Restart
  BY <1>11, <1>2 DEF JobFails, Restart
<1> QED BY <1>1, <1>2, <1>3, <1>4, <1>5, <1>6, <1>7, <1>8, <1>9, <1>10, <1>11
        DEF Next, JobStep, Writer

LEMMA TypedNext == ASSUME Typed, [Next]_vars PROVE Typed'
<1>1. rows' \in Seq(RowT)
  BY SMTT(20), TableNext DEF Table, Typed
<1> QED BY <1>1, WritersTyped, JobTyped, SpentTyped DEF Typed

-----------------------------------------------------------------------------
(* The same of the table after a step.                                     *)
KeptThen(k) == k \in DOMAIN rows' /\ rows'[k].kind # "artifact"
HeirThen(k) == k \in DOMAIN rows' /\ (rows'[k].gone \/ rows'[k].fact # Blank)

(* What a step keeps of every row: an artifact it was or it was not, and   *)
(* the text of a row that others name.                                     *)
LEMMA RowsStand ==
    ASSUME Typed, Aimed, [Next]_vars
    PROVE  /\ DOMAIN rows \subseteq DOMAIN rows'
           /\ \A k : Kept(k) => KeptThen(k)
           /\ \A k : Heir(k) => HeirThen(k)
<1>1. CASE rows' = rows
  BY <1>1 DEF Kept, Heir, KeptThen, HeirThen
<1>2. ASSUME NEW row \in RowT, rows' = Append(rows, row)
      PROVE  DOMAIN rows \subseteq DOMAIN rows' /\ \A i \in DOMAIN rows : rows'[i] = rows[i]
  BY <1>2, RowsFacts
<1>3. CASE \E row \in RowT : rows' = Append(rows, row)
  BY <1>2, <1>3 DEF Kept, Heir, KeptThen, HeirThen
<1>4. CASE DOMAIN rows' = DOMAIN rows /\ \A i \in DOMAIN rows : Edited(i)
  <2> SUFFICES ASSUME NEW k \in DOMAIN rows
               PROVE  (Kept(k) => KeptThen(k)) /\ (Heir(k) => HeirThen(k))
    BY <1>4 DEF Kept, Heir, KeptThen, HeirThen
  <2>0. Edited(k) /\ k \in DOMAIN rows' /\ rows[k] \in RowT
    BY <1>4, RowsFacts
  <2>1. CASE rows'[k] = rows[k] \/ rows'[k] = Gone
    BY <2>0, <2>1 DEF Kept, Heir, KeptThen, HeirThen, Gone
  <2>2. ASSUME NEW p \in Writer, writer[p].at = "put", writer[p].goal = k,
               rows'[k] = IF rows[k].gone THEN NewRow(writer[p]) ELSE Overwritten(rows[k], writer[p])
        PROVE  (Kept(k) => KeptThen(k)) /\ (Heir(k) => HeirThen(k))
    <3>1. k # 0 /\ Kept(k) /\ writer[p].item.fact # Blank
      <4>1. k # 0
        BY RowsFacts
      <4> QED BY <4>1, <2>2 DEF Aimed
    <3>2. writer[p].item \in Item
      BY DEF Typed, WriterT
    <3>3. rows'[k].kind # "artifact" /\ rows'[k].fact = writer[p].item.fact
      BY <2>0, <2>2, <3>1, <3>2 DEF NewRow, Overwritten, Kept, RowT, Item
    <3> QED BY <2>0, <3>1, <3>3 DEF Kept, Heir, KeptThen, HeirThen
  <2>3. CASE \/ rows'[k] = [rows[k] EXCEPT !.status = "deprecated", !.into = job.heir]
             \/ rows'[k] = [rows[k] EXCEPT !.status = "deprecated"]
             \/ \E x \in job.snap, imp \in Importance : rows'[k] = Written(rows[k], x, imp)
    <3>1. rows'[k].kind = rows[k].kind /\ rows'[k].fact = rows[k].fact /\ rows'[k].gone = rows[k].gone
      BY <2>0, <2>3 DEF Written, RowT
    <3> QED BY <2>0, <3>1 DEF Kept, Heir, KeptThen, HeirThen
  <2> QED BY <2>0, <2>1, <2>2, <2>3 DEF Edited
<1> QED BY <1>1, <1>3, <1>4, TableNext DEF Table

-----------------------------------------------------------------------------
(* What the loop's variable can become.                                    *)
Moved ==
    /\ \A c \in job'.clusters : c \in job.clusters \/ c.ids \subseteq Embedded(Active)
    /\ \A i \in job'.sources \cup job'.victims :
            i \in job.sources \cup job.victims \cup Embedded(Active) \/ \E c \in job.clusters : i \in c.ids
    /\ \A x \in job'.snap : x \in job.snap \/ \E i \in Live : x = Snap(i)
    /\ job'.at = "deprecate" =>
            \/ job.at = "deprecate" /\ job'.heir = job.heir
            \/ Put(Job) /\ job'.heir = IF writer[Job].goal = 0 THEN Len(rows) + 1 ELSE writer[Job].goal
    /\ job'.at # "sleep" => job.at # "sleep" \/ Wake

LEMMA Rested == ASSUME job'.clusters = {}, job'.sources = {}, job'.victims = {}, job'.snap = {},
                       job'.at # "deprecate", job'.at = "sleep" \/ job.at # "sleep" \/ Wake
                PROVE  Moved
BY DEF Moved

LEMMA Ended == ASSUME NEW j \in JobT
               PROVE  /\ CycleEnd(j).clusters = {} /\ CycleEnd(j).sources = {}
                      /\ CycleEnd(j).victims = {} /\ CycleEnd(j).snap = {}
                      /\ CycleEnd(j).at \in {"sleep", "decay"}
BY DEF CycleEnd, Asleep

LEMMA JobMoves == ASSUME Typed, [Next]_vars PROVE Moved
<1>0. job \in JobT
  BY DEF Typed
<1>a. ASSUME UNCHANGED job PROVE Moved
  BY <1>a DEF Moved
<1>1. ASSUME NEW p \in Writer, Put(p) PROVE Moved
  <2>1. CASE ~(p = Job /\ job.at = "store")
    BY <1>1, <1>a, <2>1 DEF Put
  <2>2. CASE p = Job /\ job.at = "store"
    <3> DEFINE k == IF writer[Job].goal = 0 THEN Len(rows) + 1 ELSE writer[Job].goal
    <3>1. job' = [job EXCEPT !.at = "deprecate", !.heir = k]
      BY <1>1, <2>2 DEF Put
    <3>2. job'.heir = k /\ job'.clusters = job.clusters /\ job'.sources = job.sources
          /\ job'.victims = job.victims /\ job'.snap = job.snap
      BY <1>0, <3>1 DEF JobT
    <3> HIDE DEF k
    <3>3. job'.heir = k /\ Put(Job)
      BY <1>1, <2>2, <3>2
    <3> QED BY <2>2, <3>2, <3>3 DEF Moved, k
  <2> QED BY <2>1, <2>2
<1>2. CASE Wake
  <2> DEFINE j == Asleep(1 - job.cycle)
  <2>1. j \in JobT /\ j.clusters = {} /\ j.sources = {} /\ j.victims = {} /\ j.snap = {}
    <3>1. 1 - job.cycle \in 0..1
      BY <1>0 DEF JobT
    <3> QED BY <3>1, AsleepTyped DEF Asleep
  <2>2. job' = CycleEnd(j) \/ job' = [j EXCEPT !.at = "cluster"]
    BY <1>2 DEF Wake
  <2> HIDE DEF j
  <2>3. /\ job'.clusters = {} /\ job'.sources = {} /\ job'.victims = {} /\ job'.snap = {}
        /\ job'.at # "deprecate"
    BY <2>1, <2>2, Ended DEF JobT
  <2> QED BY <1>2, <2>3, Rested
<1>3. CASE Cluster
  <2> DEFINE of(t) == {i \in Embedded(Active) : Topic[rows[i].fact] = t}
  <2> DEFINE found == {Read(of(t)) : t \in {x \in {Topic[f] : f \in Fact} :
                                                Cardinality(of(x)) >= MinCluster}}
  <2>1. job' = [job EXCEPT !.at = "merge", !.clusters = found] /\ job.at = "cluster"
    BY <1>3 DEF Cluster
  <2>2. \A t : Read(of(t)).ids \subseteq Embedded(Active)
    BY DEF Read
  <2>3. \A c \in found : c.ids \subseteq Embedded(Active)
    BY <2>2
  <2> HIDE DEF found
  <2> QED BY <1>0, <2>1, <2>3 DEF JobT, Moved
<1>4. CASE Merge
  <2>1. PICK c \in job.clusters : job' = Next1(c) \/ job' = [Next1(c) EXCEPT !.at = "store", !.sources = c.ids]
    BY <1>4 DEF Merge
  <2>2. job.at = "merge"
    BY <1>4 DEF Merge
  <2>3. /\ job'.clusters = job.clusters \ {c} /\ job'.victims = job.victims /\ job'.snap = job.snap
        /\ job'.sources = job.sources \/ job'.sources = c.ids
        /\ job'.at \in {"merge", "store"}
    BY <1>0, <2>1, <2>2 DEF Next1, JobT
  <2> QED BY <2>2, <2>3 DEF Moved
<1>5. CASE Deprecate \/ Promote
  <2>1. \/ job' = [job EXCEPT !.at = "merge", !.sources = {}, !.heir = 0] /\ job.at # "sleep"
        \/ job' = [job EXCEPT !.at = "dedupe"] /\ job.at # "sleep"
    BY <1>5 DEF Deprecate, Promote
  <2> QED BY <1>0, <2>1 DEF JobT, Moved
<1>6. CASE Dedupe
  <2>1. PICK keep : job' = [job EXCEPT !.at = "duplicates", !.victims = Embedded(Active) \ keep]
    BY <1>6 DEF Dedupe
  <2>2. job.at # "sleep"
    BY <1>6 DEF Dedupe
  <2> QED BY <1>0, <2>1, <2>2 DEF JobT, Moved
<1>7. ASSUME NEW i \in Id, DedupeRow(i) PROVE Moved
  <2>1. job' = [job EXCEPT !.victims = @ \ {i}] /\ job.at = "duplicates"
    BY <1>7 DEF DedupeRow
  <2> QED BY <1>0, <2>1 DEF JobT, Moved
<1>8. ASSUME NEW i \in Id, AdaptRow(i) PROVE Moved
  <2>1. PICK x : job' = [job EXCEPT !.snap = @ \ {x}]
    BY <1>8 DEF AdaptRow
  <2>2. job.at = "adapt"
    BY <1>8 DEF AdaptRow
  <2> QED BY <1>0, <2>1, <2>2 DEF JobT, Moved
<1>9. CASE Adapt \/ Decay
  <2> DEFINE seen(S) == {Snap(i) : i \in S}
  <2>1. /\ job.at # "sleep"
        /\ \/ job' = [job EXCEPT !.at = "adapt", !.snap = seen(Active)]
           \/ job' = [job EXCEPT !.at = "decayed", !.snap = seen(Live)]
    BY <1>9 DEF Adapt, Decay
  <2>2. /\ job'.clusters = job.clusters /\ job'.sources = job.sources /\ job'.victims = job.victims
        /\ job'.at # "deprecate" /\ (job'.snap = seen(Active) \/ job'.snap = seen(Live))
    BY <1>0, <2>1 DEF JobT
  <2>3. \A x \in seen(Active) \cup seen(Live) : \E i \in Live : x = Snap(i)
    BY DEF Active
  <2> HIDE DEF seen
  <2> QED BY <2>1, <2>2, <2>3 DEF Moved
<1>10. CASE Consolidated
  <2>1. job' = CycleEnd(job) /\ job.at # "sleep"
    BY <1>10 DEF Consolidated
  <2> QED BY <1>0, <2>1, Ended, Rested
<1>11. CASE DecayCommits
  BY <1>11, Rested DEF DecayCommits, Asleep
<1>12. CASE JobFails
  <2>1. CASE job' = [job EXCEPT !.at = "merge", !.sources = {}, !.heir = 0]
    BY <1>0, <1>12, <2>1 DEF JobFails, JobT, Moved
  <2>2. CASE job' = Asleep(job.cycle)
    BY <2>2, Rested DEF Asleep
  <2>3. CASE job' = CycleEnd(job)
    BY <1>0, <1>12, <2>3, Ended, Rested DEF JobFails
  <2> QED BY <1>12, <2>1, <2>2, <2>3 DEF JobFails
<1>13. CASE Restart
  BY <1>13, Rested DEF Restart, Asleep
<1>14. ASSUME NEW p \in Writer, Search(p) PROVE Moved
  BY <1>a, <1>14 DEF Search
<1>15. ASSUME NEW s \in Session, Extract(s) \/ Summarize(s) \/ TurnFails(s) PROVE Moved
  BY <1>a, <1>15 DEF Extract, Summarize, TurnFails
<1>16. ASSUME NEW s \in Session, NEW o \in Operation, StoreArtifact(s, o) PROVE Moved
  BY <1>a, <1>16 DEF StoreArtifact
<1>17. ASSUME NEW i \in Id, Delete(i) PROVE Moved
  BY <1>a, <1>17 DEF Delete
<1>18. CASE UNCHANGED vars
  BY <1>a, <1>18 DEF vars
<1> QED BY <1>1, <1>2, <1>3, <1>4, <1>5, <1>6, <1>7, <1>8, <1>9, <1>10, <1>11, <1>12, <1>13, <1>14,
           <1>15, <1>16, <1>17, <1>18 DEF Next, JobStep, Writer

-----------------------------------------------------------------------------
LEMMA EmbeddedKept == ASSUME Typed, Cached, NEW i \in Embedded(Active) PROVE Kept(i)
<1>1. rows[i] \in RowT /\ i \in DOMAIN rows /\ rows[i].emb
  BY RowsFacts DEF Embedded, Active, Live
<1> QED BY <1>1 DEF Cached, Kept

LEMMA AimedNext == ASSUME Typed, Aimed, Cached, [Next]_vars PROVE Aimed'
<1>1. ASSUME NEW p \in Writer, writer'[p].at = "put", writer'[p].goal # 0
      PROVE  KeptThen(writer'[p].goal) /\ writer'[p].item.fact # Blank
  <2>1. CASE writer'[p] = writer[p]
    BY <1>1, <2>1, RowsStand DEF Aimed
  <2>2. CASE writer'[p] = Idle \/ Took(p)
    BY <1>1, <2>2, TookFacts DEF Idle
  <2>3. CASE Looked(p)
    <3>1. PICK ok \in BOOLEAN, goal \in Twins(writer[p].item) \cup {0} :
              /\ goal # 0 => writer[p].item.fact # Blank
              /\ writer'[p] = [writer[p] EXCEPT !.at = "put", !.emb = ok, !.goal = goal]
      BY <2>3 DEF Looked
    <3>2. writer[p] \in WriterT /\ writer[p].item \in Item
      BY DEF Typed, WriterT
    <3>3. writer'[p].goal = goal /\ writer'[p].item = writer[p].item
      BY <3>1, <3>2 DEF WriterT
    <3>4. Kept(goal)
      BY <1>1, <3>1, <3>2, <3>3 DEF Twins, Embedded, Live, Kept, Item
    <3> QED BY <1>1, <3>1, <3>3, <3>4, RowsStand
  <2> QED BY <2>1, <2>2, <2>3, WritersNext DEF Wrote
<1>2. ASSUME writer'[Job].at # "off" PROVE writer'[Job].item.fact # Blank
  <2>0. Job \in Writer /\ writer[Job] \in WriterT
    BY DEF Writer, Typed
  <2>1. CASE writer'[Job] = writer[Job]
    BY <1>2, <2>1 DEF Aimed
  <2>2. CASE writer'[Job] = Idle \/ Took(Job)
    BY <1>2, <2>2, TookFacts DEF Idle
  <2>3. CASE Looked(Job)
    <3>1. writer'[Job].item = writer[Job].item /\ writer[Job].at = "search"
      BY <2>0, <2>3 DEF Looked, WriterT
    <3> QED BY <3>1 DEF Aimed
  <2> QED BY <2>0, <2>1, <2>2, <2>3, WritersNext DEF Wrote
<1>3. ASSUME NEW c \in job'.clusters, NEW i \in c.ids PROVE KeptThen(i)
  <2>1. Kept(i)
    BY <1>3, JobMoves, EmbeddedKept DEF Moved, Aimed
  <2> QED BY <2>1, RowsStand
<1>4. ASSUME NEW i \in job'.sources \cup job'.victims PROVE KeptThen(i)
  <2>1. Kept(i)
    BY <1>4, JobMoves, EmbeddedKept DEF Moved, Aimed
  <2> QED BY <2>1, RowsStand
<1> QED BY <1>1, <1>2, <1>3, <1>4 DEF Aimed, Kept, KeptThen

LEMMA CachedNext == ASSUME Typed, Aimed, Cached, [Next]_vars PROVE Cached'
<1> DEFINE Fine(row) ==
        row.kind = "artifact" =>
            /\ ~row.emb /\ row.status = "active"
            /\ row.owner \in Session /\ row.from = {row.owner}
<1> SUFFICES ASSUME NEW i \in DOMAIN rows' PROVE Fine(rows'[i])
  BY DEF Cached
<1>0. \A k \in DOMAIN rows : Fine(rows[k])
  BY DEF Cached
<1>1. CASE rows' = rows
  BY <1>0, <1>1
<1>2. CASE \E row \in RowT : Added(row) /\ rows' = Append(rows, row)
  <2>1. PICK row \in RowT : Added(row) /\ rows' = Append(rows, row)
    BY <1>2
  <2>2. (i \in DOMAIN rows /\ rows'[i] = rows[i]) \/ rows'[i] = row
    BY <2>1, RowsFacts
  <2>3. Fine(row)
    <3>1. ASSUME NEW p \in Writer, row = NewRow(writer[p]) PROVE row.kind # "artifact"
      <4>1. writer[p].item \in Item
        BY DEF Typed, WriterT
      <4> QED BY <3>1, <4>1 DEF NewRow, Item
    <3>2. ASSUME NEW s \in Session, NEW o \in Operation, row = Artifact(s, o) PROVE Fine(row)
      BY <3>2 DEF Artifact
    <3> QED BY <2>1, <3>1, <3>2 DEF Added
  <2> QED BY <1>0, <2>2, <2>3
<1>3. CASE DOMAIN rows' = DOMAIN rows /\ \A k \in DOMAIN rows : Edited(k)
  <2>0. i \in DOMAIN rows /\ Edited(i) /\ rows[i] \in RowT /\ Fine(rows[i])
    BY <1>0, <1>3, RowsFacts
  <2>1. CASE rows'[i] = rows[i] \/ rows'[i] = Gone
    BY <2>0, <2>1 DEF Gone
  <2>2. CASE Kept(i)
    <3>1. KeptThen(i)
      BY <2>2, RowsStand
    <3> QED BY <3>1 DEF KeptThen
  <2>3. CASE \E p \in Writer : writer[p].at = "put" /\ writer[p].goal = i
    <3>1. i # 0
      BY RowsFacts
    <3> QED BY <2>2, <2>3, <3>1 DEF Aimed
  <2>4. CASE i \in job.sources \cup job.victims
    BY <2>2, <2>4 DEF Aimed
  <2>5. ASSUME NEW x \in job.snap, NEW imp \in Importance, rows'[i] = Written(rows[i], x, imp)
        PROVE  Fine(rows'[i])
    <3>1. /\ rows'[i].kind = rows[i].kind /\ rows'[i].emb = rows[i].emb
          /\ rows'[i].from = rows[i].from /\ rows'[i].owner = rows[i].owner
          /\ rows'[i].status = rows[i].status
      BY <2>0, <2>5 DEF Written, RowT
    <3> QED BY <2>0, <3>1
  <2> QED BY <2>0, <2>1, <2>3, <2>4, <2>5 DEF Edited
<1> QED BY <1>1, <1>2, <1>3, TableNext DEF Table

LEMMA InheritedNext == ASSUME Typed, Aimed, Inherited, [Next]_vars PROVE Inherited'
<1>1. ASSUME NEW k, NEW i \in DOMAIN rows, rows[i].into = k, k # 0 PROVE HeirThen(k)
  BY <1>1, RowsStand DEF Inherited
<1>2. ASSUME NEW i \in DOMAIN rows', rows'[i].into # 0 PROVE HeirThen(rows'[i].into)
  <2>1. CASE rows' = rows
    BY <1>1, <1>2, <2>1
  <2>2. CASE \E row \in RowT : Added(row) /\ rows' = Append(rows, row)
    <3>1. PICK row \in RowT : Added(row) /\ rows' = Append(rows, row)
      BY <2>2
    <3>2. (i \in DOMAIN rows /\ rows'[i] = rows[i]) \/ rows'[i] = row
      BY <3>1, RowsFacts
    <3>3. row.into = 0
      BY <3>1 DEF Added, NewRow, Artifact
    <3> QED BY <1>1, <1>2, <3>2, <3>3
  <2>3. CASE DOMAIN rows' = DOMAIN rows /\ \A k \in DOMAIN rows : Edited(k)
    <3>0. i \in DOMAIN rows /\ Edited(i) /\ rows[i] \in RowT
      BY <2>3, RowsFacts
    <3>1. \/ rows'[i].into = 0
          \/ rows'[i].into = rows[i].into
          \/ job.at = "deprecate" /\ rows'[i].into = job.heir
          \/ \E x \in job.snap : rows'[i].into = x.into
      <4>1. CASE rows'[i] = Gone
        BY <4>1 DEF Gone
      <4>2. ASSUME NEW p \in Writer,
                   rows'[i] = IF rows[i].gone THEN NewRow(writer[p]) ELSE Overwritten(rows[i], writer[p])
            PROVE  rows'[i].into = 0 \/ rows'[i].into = rows[i].into
        BY <3>0, <4>2 DEF NewRow, Overwritten, RowT
      <4>3. CASE job.at = "deprecate" /\ rows'[i] = [rows[i] EXCEPT !.status = "deprecated", !.into = job.heir]
        BY <3>0, <4>3 DEF RowT
      <4>4. CASE rows'[i] = [rows[i] EXCEPT !.status = "deprecated"]
        BY <3>0, <4>4 DEF RowT
      <4>5. ASSUME NEW x \in job.snap, NEW imp \in Importance, rows'[i] = Written(rows[i], x, imp)
            PROVE  rows'[i].into = rows[i].into \/ rows'[i].into = x.into
        BY <3>0, <4>5 DEF Written, RowT
      <4> QED BY <3>0, <4>1, <4>2, <4>3, <4>4, <4>5 DEF Edited
    <3>2. Heir(rows'[i].into)
      BY <1>2, <3>0, <3>1 DEF Inherited
    <3> QED BY <3>2, RowsStand
  <2> QED BY <2>1, <2>2, <2>3, TableNext DEF Table
<1>3. ASSUME NEW x \in job'.snap, x.into # 0 PROVE HeirThen(x.into)
  <2>1. CASE x \in job.snap
    BY <1>3, <2>1, RowsStand DEF Inherited
  <2>2. ASSUME NEW i \in Live, x = Snap(i) PROVE HeirThen(x.into)
    BY <1>1, <1>3, <2>2 DEF Snap, Live
  <2> QED BY <2>1, <2>2, JobMoves DEF Moved
<1>4. ASSUME job'.at = "deprecate" PROVE HeirThen(job'.heir)
  <2>1. CASE job.at = "deprecate" /\ job'.heir = job.heir
    BY <2>1, RowsStand DEF Inherited
  <2>2. CASE Put(Job) /\ job'.heir = IF writer[Job].goal = 0 THEN Len(rows) + 1 ELSE writer[Job].goal
    <3>0. Job \in Writer /\ writer[Job].at = "put" /\ writer[Job].item.fact # Blank
          /\ writer[Job].goal \in Nat /\ writer[Job].item \in Item
      BY <2>2 DEF Put, Writer, Aimed, Typed, WriterT
    <3>1. CASE writer[Job].goal = 0
      <4>1. rows' = Append(rows, NewRow(writer[Job])) /\ job'.heir = Len(rows) + 1
        BY <2>2, <3>1 DEF Put
      <4>2. NewRow(writer[Job]) \in RowT
        BY <3>0, NewTyped
      <4>3. job'.heir \in DOMAIN rows' /\ rows'[job'.heir] = NewRow(writer[Job])
        BY <4>1, <4>2, RowsFacts
      <4> QED BY <3>0, <4>3 DEF HeirThen, NewRow
    <3>2. CASE writer[Job].goal # 0
      <4> DEFINE k == writer[Job].goal
      <4>1. k \in DOMAIN rows
        BY <3>0, <3>2 DEF Aimed, Kept
      <4>2. rows' = [rows EXCEPT ![k] = IF rows[k].gone THEN NewRow(writer[Job])
                                        ELSE Overwritten(rows[k], writer[Job])]
            /\ job'.heir = k
        BY <2>2, <3>2 DEF Put
      <4>3. k \in DOMAIN rows' /\ rows'[k].fact = writer[Job].item.fact
        BY <4>1, <4>2, RowsFacts DEF NewRow, Overwritten, RowT
      <4> QED BY <3>0, <4>2, <4>3 DEF HeirThen
    <3> QED BY <3>1, <3>2
  <2> QED BY <1>4, <2>1, <2>2, JobMoves DEF Moved
<1> QED BY <1>2, <1>3, <1>4 DEF Inherited, Heir, HeirThen

LEMMA AloneNext == ASSUME Typed, Aimed, Alone, [Next]_vars PROVE Alone'
<1> SUFFICES ASSUME spent'.cycles = 0 PROVE
        /\ job'.at = "sleep" /\ writer'[Job].at = "off"
        /\ \A p \in Session : writer'[p].at # "off" =>
                writer'[p].item.session = p /\ writer'[p].item.from = {p}
        /\ \A i \in Live' : rows'[i].kind # "artifact" => rows'[i].from = {rows'[i].scope}
  BY DEF Alone
<1>0. spent.cycles = 0 /\ ~Wake
  <2>1. spent.cycles \in Nat
    BY DEF Typed
  <2>2. Wake => spent'.cycles = spent.cycles + 1
    BY DEF Wake, Typed
  <2>3. spent'.cycles = spent.cycles \/ spent'.cycles = spent.cycles + 1
    BY SpentTyped
  <2> QED BY <2>1, <2>2, <2>3
<1>1. /\ job.at = "sleep" /\ writer[Job].at = "off"
      /\ \A p \in Session : writer[p].at # "off" =>
              writer[p].item.session = p /\ writer[p].item.from = {p}
      /\ \A i \in Live : rows[i].kind # "artifact" => rows[i].from = {rows[i].scope}
  BY <1>0 DEF Alone
<1>2. job'.at = "sleep"
  BY <1>0, <1>1, JobMoves DEF Moved
<1>3. writer'[Job].at = "off"
  <2>1. Job \in Writer
    BY DEF Writer
  <2>2. CASE Took(Job)
    BY <1>1, <2>2, TookFacts
  <2>3. CASE Looked(Job)
    BY <1>1, <2>3 DEF Looked
  <2> QED BY <1>1, <2>1, <2>2, <2>3, WritersNext DEF Wrote, Idle
<1>4. ASSUME NEW p \in Session, writer'[p].at # "off"
      PROVE  writer'[p].item.session = p /\ writer'[p].item.from = {p}
  <2>1. p \in Writer /\ writer[p] \in WriterT
    BY DEF Writer, Typed
  <2>2. CASE Took(p)
    BY <2>2, TookFacts
  <2>3. CASE Looked(p)
    <3>1. writer'[p].item = writer[p].item /\ writer[p].at = "search"
      BY <2>1, <2>3 DEF Looked, WriterT
    <3> QED BY <1>1, <3>1
  <2>4. CASE writer'[p] = writer[p]
    BY <1>1, <1>4, <2>4
  <2>5. CASE writer'[p] = Idle
    BY <1>4, <2>5 DEF Idle
  <2> QED BY <2>1, <2>2, <2>3, <2>4, <2>5, WritersNext DEF Wrote
<1>5. ASSUME NEW p \in Writer, writer[p].at # "off"
      PROVE  p \in Session /\ writer[p].item.session = p /\ writer[p].item.from = {p}
  BY <1>1, <1>5 DEF Writer
<1>6. ASSUME NEW p \in Writer, writer[p].at # "off"
      PROVE  NewRow(writer[p]).from = {NewRow(writer[p]).scope}
  BY <1>5, <1>6 DEF NewRow
<1>7. ASSUME NEW i \in Live', rows'[i].kind # "artifact" PROVE rows'[i].from = {rows'[i].scope}
  <2>0. i \in DOMAIN rows' /\ ~rows'[i].gone
    BY <1>7 DEF Live
  <2>1. CASE i \in DOMAIN rows /\ rows'[i] = rows[i]
    BY <1>1, <1>7, <2>0, <2>1 DEF Live
  <2>2. CASE \E row \in RowT : Added(row) /\ rows' = Append(rows, row)
    <3>1. PICK row \in RowT : Added(row) /\ rows' = Append(rows, row)
      BY <2>2
    <3>2. (i \in DOMAIN rows /\ rows'[i] = rows[i]) \/ rows'[i] = row
      BY <2>0, <3>1, RowsFacts
    <3>3. row.kind # "artifact" => row.from = {row.scope}
      <4>1. ASSUME NEW p \in Writer, writer[p].at = "put", row = NewRow(writer[p])
            PROVE  row.from = {row.scope}
        BY <4>1, <1>6
      <4>2. ASSUME NEW q \in Session, NEW o \in Operation, row = Artifact(q, o) PROVE row.kind = "artifact"
        BY <4>2 DEF Artifact
      <4> QED BY <3>1, <4>1, <4>2 DEF Added
    <3> QED BY <1>7, <2>1, <3>2, <3>3
  <2>3. CASE DOMAIN rows' = DOMAIN rows /\ \A k \in DOMAIN rows : Edited(k)
    <3>0. i \in DOMAIN rows /\ Edited(i) /\ rows[i] \in RowT
      BY <2>0, <2>3, RowsFacts
    <3>1. CASE rows'[i] = Gone
      BY <2>0, <3>1 DEF Gone
    <3>2. ASSUME NEW p \in Writer, writer[p].at = "put",
                 rows'[i] = IF rows[i].gone THEN NewRow(writer[p]) ELSE Overwritten(rows[i], writer[p])
          PROVE  rows'[i].from = {rows'[i].scope}
      <4>1. CASE rows'[i] = NewRow(writer[p])
        BY <1>6, <3>2, <4>1
      <4>2. CASE rows'[i] = Overwritten(rows[i], writer[p])
        <5>1. rows'[i].from = writer[p].item.from /\ rows'[i].scope = writer[p].item.session
          BY <3>0, <4>2 DEF Overwritten, RowT
        <5> QED BY <1>5, <3>2, <5>1
      <4> QED BY <3>2, <4>1, <4>2
    <3>3. CASE \/ rows'[i] = [rows[i] EXCEPT !.status = "deprecated"]
               \/ rows'[i] = [rows[i] EXCEPT !.status = "deprecated", !.into = job.heir]
      <4>1. /\ rows'[i].from = rows[i].from /\ rows'[i].scope = rows[i].scope
            /\ rows'[i].kind = rows[i].kind /\ rows'[i].gone = rows[i].gone
        BY <3>0, <3>3 DEF RowT
      <4> QED BY <1>1, <1>7, <2>0, <3>0, <4>1 DEF Live
    <3> QED BY <1>1, <2>1, <3>0, <3>1, <3>2, <3>3 DEF Edited
  <2> QED BY <2>0, <2>1, <2>2, <2>3, TableNext DEF Table
<1> QED BY <1>2, <1>3, <1>4, <1>7

-----------------------------------------------------------------------------
LEMMA MemInit == Init => MemInv
<1> SUFFICES ASSUME Init PROVE MemInv
  OBVIOUS
<1>1. rows = <<>> /\ DOMAIN rows = {} /\ rows \in Seq(RowT)
  BY DEF Init
<1>2. writer \in [Writer -> WriterT] /\ \A p \in Writer : writer[p] = Idle
  BY IdleTyped DEF Init
<1>3. job \in JobT /\ job.clusters = {} /\ job.sources = {} /\ job.victims = {} /\ job.snap = {}
      /\ job.at = "sleep"
  <2>1. job = Asleep(0) \/ job = Asleep(1)
    BY DEF Init
  <2>2. job \in JobT
    BY <2>1, AsleepTyped
  <2> QED BY <2>1, <2>2 DEF Asleep
<1>4. spent \in [turns : Nat, cycles : Nat, faults : Nat]
  BY DEF Init
<1>5. Aimed
  BY <1>2, <1>3 DEF Aimed, Idle, Writer
<1>6. Cached /\ Inherited
  BY <1>1, <1>3 DEF Cached, Inherited
<1>7. Alone
  BY <1>1, <1>2, <1>3 DEF Alone, Live, Idle, Writer
<1> QED BY <1>1, <1>2, <1>3, <1>4, <1>5, <1>6, <1>7 DEF MemInv, Typed

LEMMA MemNext == MemInv /\ [Next]_vars => MemInv'
BY TypedNext, AimedNext, CachedNext, InheritedNext, AloneNext DEF MemInv

LEMMA MemAlways == Spec => []MemInv
BY MemInit, MemNext, PTL DEF Spec

(* Whatever sessions, deduplications, merges, decays and deletions         *)
(* interleave, the artifact cache gives a session only what it produced,   *)
(* or, of an operation declared public, what one session produced          *)
(* (store.py 135-139, concurrent_executor.py 1205-1228).                   *)
THEOREM IsolatesTheCache == Spec => []CacheIsolated
<1>1. MemInv => CacheIsolated
  <2> SUFFICES ASSUME MemInv, NEW s \in Session, NEW o \in Operation, NEW i \in Hits(s, o)
               PROVE  /\ \E r \in Session : rows[i].from = {r} /\ (o \notin Public => r = s)
                      /\ rows[i].status = "active"
    BY DEF CacheIsolated
  <2>1. /\ rows[i].status = "active"
        /\ rows[i].owner \in Session /\ rows[i].from = {rows[i].owner}
    BY DEF MemInv, Cached, Hits, Live
  <2>2. o \notin Public => rows[i].owner = s
    BY DEF Hits
  <2> QED BY <2>1, <2>2
<1> QED BY <1>1, MemAlways, PTL

(* A row merged away names a row that was stored with a text, or that the  *)
(* user deleted (consolidator.py, _merge_cluster).                         *)
THEOREM KeepsHeirs == Spec => []HeirsExist
<1>1. MemInv => HeirsExist
  BY DEF MemInv, Inherited, Heir, HeirsExist
<1> QED BY <1>1, MemAlways, PTL

(* Until the maintenance has run, what a session recalls is made of its    *)
(* own words, although its turns write over other sessions' rows           *)
(* (scout.py 156-158).                                                     *)
THEOREM IsolatesTheTurns == Spec => []TurnsAloneIsolate
<1>1. MemInv => TurnsAloneIsolate
  <2> SUFFICES ASSUME MemInv, spent.cycles = 0, NEW s \in Session, NEW i \in Recalled(s)
               PROVE  rows[i].from = {s}
    BY DEF TurnsAloneIsolate
  <2>1. i \in Live /\ rows[i].emb /\ rows[i].scope = s
    BY DEF Recalled, Embedded
  <2>2. rows[i].kind # "artifact"
    BY <2>1 DEF MemInv, Cached, Live
  <2> QED BY <2>1, <2>2 DEF MemInv, Alone
<1> QED BY <1>1, MemAlways, PTL
=============================================================================
