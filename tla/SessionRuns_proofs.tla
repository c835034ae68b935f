-------------------------- MODULE SessionRuns_proofs --------------------------
(***************************************************************************)
(* What holds of the runs of a session for any number of runs, any lease   *)
(* and heartbeat, and any number of faults, cancellations, stop requests   *)
(* and deaths of the process.                                              *)
(***************************************************************************)
EXTENDS SessionRuns, FiniteSetTheorems, WellFoundedInduction, TLAPS

-----------------------------------------------------------------------------
(* Types.                                                                  *)

(* The lock has time left, and no run has more failed renewals than there  *)
(* were faults.                                                            *)
Bounded ==
    /\ lock # None => ttl > 0
    /\ \A r \in Run : missed[r] <= faults

CkptType == [status : Status, msgs : History, current : BOOLEAN]

(* A set that has one element for each of a finite set is finite.          *)
LEMMA FiniteImage ==
    ASSUME NEW S, IsFiniteSet(S), NEW T, NEW f \in [S -> T],
           \A t \in T : \E x \in S : f[x] = t
    PROVE  IsFiniteSet(T)
<1>1. f \in Surjection(S, T)
    BY DEF Surjection
<1>2. QED
    BY <1>1, FS_Surjection

LEMMA WindowedTyped ==
    ASSUME NEW h \in History
    PROVE  Windowed(h) \in History
<1>1. Windowed(h).kept \subseteq h.kept
    BY DEF Windowed
<1>2. IsFiniteSet(Windowed(h).kept) /\ Windowed(h).kept \subseteq Message
    BY <1>1, FS_Subset DEF History
<1>3. QED
    BY <1>2 DEF Windowed, History

LEMMA SaidTyped ==
    ASSUME NEW h \in History, NEW who \in Run, NEW nth \in Nat, NEW lasting \in BOOLEAN
    PROVE  /\ Said(h, who, nth, lasting) \in History
           /\ h.kept \subseteq Said(h, who, nth, lasting).kept
<1> DEFINE m == [at |-> h.top + 1, of |-> who, n |-> nth, lasts |-> lasting]
<1>1. m \in Message /\ h.top + 1 \in Nat
    BY DEF Message, History
<1>2. IsFiniteSet(h.kept \cup {m}) /\ h.kept \cup {m} \subseteq Message
    BY <1>1, FS_AddElement DEF History
<1>3. Said(h, who, nth, lasting) = [top |-> h.top + 1, kept |-> h.kept \cup {m}]
    BY DEF Said
<1> HIDE DEF m
<1>4. QED
    BY <1>1, <1>2, <1>3 DEF History

LEMMA FirstTyped == NoHistory \in History /\ Windowed(OldHistory) \in History
<1>1. NoHistory \in History
    BY FS_EmptySet DEF NoHistory, History
<1> DEFINE f == [k \in 1..Earlier |-> [at |-> k, of |-> None, n |-> k, lasts |-> k = 1]]
           T == {[at |-> k, of |-> None, n |-> k, lasts |-> k = 1] : k \in 1..Earlier}
<1>2. IsFiniteSet(1..Earlier)
    BY FS_Interval, WindowAssumption
<1>3. f \in [1..Earlier -> T] /\ \A t \in T : \E x \in 1..Earlier : f[x] = t
    OBVIOUS
<1>4. T \subseteq Message
    <2> SUFFICES ASSUME NEW k \in 1..Earlier
                 PROVE [at |-> k, of |-> None, n |-> k, lasts |-> k = 1] \in Message
        OBVIOUS
    <2>1. k \in Nat /\ (k = 1) \in BOOLEAN
        BY WindowAssumption
    <2>2. \A b \in BOOLEAN : [at |-> k, of |-> None, n |-> k, lasts |-> b] \in Message
        BY <2>1 DEF Message
    <2>3. QED
        BY <2>1, <2>2, Zenon
<1> HIDE DEF f
<1>5. IsFiniteSet(T)
    BY <1>2, <1>3, FiniteImage
<1>6. OldHistory \in History
    BY <1>4, <1>5, WindowAssumption DEF OldHistory, History
<1>7. QED
    BY <1>1, <1>6, WindowedTyped

(* What a run leaves to the reducer: a history that has everything of the  *)
(* checkpoint.                                                             *)
LEMMA RejoinedTyped ==
    ASSUME TypeOK, NEW r \in Run
    PROVE  Rejoined(r) \in History /\ ckpt.msgs.kept \subseteq Rejoined(r).kept
<1>1. ckpt.msgs \in History /\ prior[r] \in History
    BY DEF TypeOK
<1> DEFINE top == ckpt.msgs.top
           S == Unsaved(r)
           T == {[m EXCEPT !.at = top + @] : m \in S}
           f == [m \in S |-> [m EXCEPT !.at = top + @]]
<1>2. IsFiniteSet(S) /\ S \subseteq Message
    BY <1>1, FS_Subset DEF Unsaved, History
<1>3. f \in [S -> T] /\ \A t \in T : \E x \in S : f[x] = t
    OBVIOUS
<1>4. T \subseteq Message
    BY <1>1, <1>2 DEF Message, History
<1>5. IsFiniteSet(T)
    <2> HIDE DEF f, S, T
    <2>1. QED
        BY <1>2, <1>3, FiniteImage
<1>6. IsFiniteSet(ckpt.msgs.kept \cup T) /\ ckpt.msgs.kept \cup T \subseteq Message
    BY <1>1, <1>4, <1>5, FS_Union DEF History
<1>7. Rejoined(r) = [top |-> top + prior[r].top, kept |-> ckpt.msgs.kept \cup T]
    BY DEF Rejoined
<1>8. top + prior[r].top \in Nat
    BY <1>1 DEF History
<1> HIDE DEF T, top
<1>9. QED
    BY <1>6, <1>7, <1>8 DEF History

LEMMA MergedTyped ==
    ASSUME TypeOK, NEW r \in Run
    PROVE  /\ Merged(r) \in History
           /\ \E h \in History : Merged(r) = Windowed(h) /\ ckpt.msgs.kept \subseteq h.kept
<1> DEFINE h == Asked(Rejoined(r), r)
<1>1. h \in History /\ Rejoined(r).kept \subseteq h.kept
    BY RejoinedTyped, SaidTyped DEF Asked
<1>2. Merged(r) = Windowed(h)
    BY DEF Merged
<1> HIDE DEF h
<1>3. QED
    BY <1>1, <1>2, RejoinedTyped, WindowedTyped

LEMMA SpokenTyped ==
    ASSUME TypeOK, NEW r \in Run, NEW h \in Spoken(r)
    PROVE  /\ h \in History
           /\ \/ h = mem[r]
              \/ \E g \in History : h = Windowed(g) /\ mem[r].kept \subseteq g.kept
<1>1. mem[r] \in History /\ steps[r] + 1 \in Nat
    BY BoundAssumption DEF TypeOK
<1>2. CASE h = mem[r]
    BY <1>1, <1>2
<1>3. CASE \E lasting \in BOOLEAN : h = Windowed(Said(mem[r], r, steps[r] + 1, lasting))
    <2>1. PICK lasting \in BOOLEAN : h = Windowed(Said(mem[r], r, steps[r] + 1, lasting))
        BY <1>3
    <2> DEFINE g == Said(mem[r], r, steps[r] + 1, lasting)
    <2>2. g \in History /\ mem[r].kept \subseteq g.kept
        BY <1>1, SaidTyped
    <2>3. h = Windowed(g)
        BY <2>1
    <2> HIDE DEF g
    <2>4. QED
        BY <2>2, <2>3, WindowedTyped
<1>4. QED
    BY <1>2, <1>3 DEF Spoken

LEMMA InitTypes == Init => TypeOK /\ Bounded
<1> SUFFICES ASSUME Init PROVE TypeOK /\ Bounded
    OBVIOUS
<1>1. ckpt \in CkptType
    <2>1. \A v \in Status, m \in History, c \in BOOLEAN :
            [status |-> v, msgs |-> m, current |-> c] \in CkptType
        BY DEF CkptType
    <2>2. "none" \in Status /\ "CANCELLED" \in Status /\ "COMPLETED" \in Status
        BY DEF Status, Abnormal
    <2>3. FirstCheckpoint \subseteq CkptType
        BY <2>1, <2>2, FirstTyped, Zenon DEF FirstCheckpoint
    <2>4. QED
        BY <2>3 DEF Init
<1>2. flag \in BOOLEAN /\ renewing \in [Run -> BOOLEAN]
    BY DEF Init
<1>3. /\ pc \in [Run -> Places]
      /\ prior \in [Run -> History]
      /\ mem \in [Run -> History]
    BY FirstTyped DEF Init, Places, Over
<1>4. /\ steps \in [Run -> 0 .. MaxSteps]
      /\ verdict \in [Run -> {"RUNNING", "COMPLETED"} \cup Abnormal]
      /\ beat \in [Run -> 0 .. Beat] /\ missed \in [Run -> 0 .. MaxFaults]
    BY BoundAssumption DEF Init
<1>5. QED
    BY <1>1, <1>2, <1>3, <1>4, BoundAssumption DEF Init, CkptType, TypeOK, Bounded

(* The messages that a run finds in the checkpoint or adds to it.          *)
LEMMA TypesOfMessages ==
    ASSUME TypeOK, NEW r \in Run
    PROVE  /\ ckpt.msgs \in History
           /\ Merged(r) \in History
           /\ [ckpt EXCEPT !.current = TRUE]
                \in CkptType
           /\ [ckpt EXCEPT !.status = "COMPLETED"]
                \in CkptType
           /\ PutMarker(r)
                \in CkptType
<1>1. ckpt \in CkptType
    BY DEF TypeOK, CkptType
<1>2. \A k \in CkptType :
            /\ k.msgs \in History
            /\ [k EXCEPT !.current = TRUE] \in CkptType
            /\ \A v \in Status : [k EXCEPT !.status = v] \in CkptType
    BY DEF CkptType
<1>3. verdict[r] \in Status /\ "COMPLETED" \in Status
    BY DEF TypeOK, Status
<1>4. prior[r] \in History
    BY DEF TypeOK
<1>5. QED
    BY <1>1, <1>2, <1>3, <1>4, MergedTyped DEF PutMarker

LEMMA StepTypes == TypeOK /\ Bounded /\ [Next]_vars => TypeOK'
<1> SUFFICES ASSUME TypeOK, Bounded, [Next]_vars PROVE TypeOK'
    OBVIOUS
<1> USE BoundAssumption DEF TypeOK, saved, locks, flags, locals, bounds, Goto,
        Fault, Fine, NoOthers, Places, Before, Streams, Ends, Over
<1>1. ASSUME NEW r \in Run, Arrive(r) PROVE TypeOK'
    BY <1>1 DEF Arrive
<1>2. ASSUME NEW r \in Run, ReadPrior(r) \/ ReadFails(r) \/ Refuse(r) \/ Reset(r)
      PROVE TypeOK'
    <2>1. CASE ReadPrior(r)
        <3>1. prior' \in [Run -> History]
            <4>1. CASE ckpt.current
                BY <2>1, <4>1, TypesOfMessages DEF ReadPrior
            <4>2. CASE ~ckpt.current
                BY <2>1, <4>2 DEF ReadPrior
            <4>3. QED
                BY <4>1, <4>2
        <3>2. pc' \in [Run -> Places] /\ artifacts' \subseteq Run
            <4>1. CASE ckpt.current /\ ckpt.status \in Abnormal
                BY <2>1, <4>1 DEF ReadPrior
            <4>2. CASE ckpt.current /\ ckpt.status \notin Abnormal
                BY <2>1, <4>2 DEF ReadPrior
            <4>3. CASE ~ckpt.current
                BY <2>1, <4>3 DEF ReadPrior
            <4>4. QED
                BY <4>1, <4>2, <4>3
        <3>3. QED
            BY <2>1, <3>1, <3>2 DEF ReadPrior
    <2>2. CASE ReadFails(r)
        BY <2>2 DEF ReadFails
    <2>3. CASE Refuse(r)
        <3>1. ckpt' \in CkptType
            BY <2>3, TypesOfMessages DEF Refuse, CkptType
        <3>2. QED
            BY <2>3, <3>1 DEF Refuse, CkptType
    <2>4. CASE Reset(r)
        <3>1. ckpt' \in CkptType
            BY <2>4, TypesOfMessages DEF Reset, CkptType
        <3>2. QED
            BY <2>4, <3>1 DEF Reset, CkptType
    <2>5. QED
        BY <1>2, <2>1, <2>2, <2>3, <2>4
<1>3. ASSUME NEW r \in Run, Acquire(r) \/ IsRefused(r) \/ AcquireBlind(r)
      PROVE TypeOK'
    <2>1. CASE Acquire(r)
        BY <2>1 DEF Acquire, StartBeating
    <2>2. CASE IsRefused(r)
        BY <2>2 DEF IsRefused
    <2>3. CASE AcquireBlind(r)
        BY <2>3 DEF AcquireBlind, StartBeating
    <2>4. QED
        BY <1>3, <2>1, <2>2, <2>3
<1>4. ASSUME NEW r \in Run, ClearFlag(r) \/ Start(r) \/ NodeRuns(r)
      PROVE TypeOK'
    <2>1. CASE ClearFlag(r)
        <3>1. flag' \in BOOLEAN
            BY <2>1 DEF ClearFlag, Cleared
        <3>2. deaf' \subseteq Run
            BY <2>1 DEF ClearFlag
        <3>3. QED
            BY <2>1, <3>1, <3>2 DEF ClearFlag
    <2>2. CASE Start(r)
        <3>1. ckpt' \in CkptType
            BY <2>2, TypesOfMessages DEF Start, Status, CkptType
        <3>2. QED
            BY <2>2, <3>1, TypesOfMessages DEF Start, CkptType
    <2>3. CASE NodeRuns(r)
        <3>0. PICK h \in Spoken(r) :
                    /\ mem' = [mem EXCEPT ![r] = h]
                    /\ ckpt' = [status |-> "RUNNING", msgs |-> h, current |-> TRUE]
            BY <2>3 DEF NodeRuns
        <3>1. h \in History
            BY SpokenTyped
        <3>2. ckpt' \in CkptType /\ mem' \in [Run -> History]
            BY <3>0, <3>1 DEF Status, CkptType
        <3>3. QED
            BY <2>3, <3>2 DEF NodeRuns, CkptType
    <2>4. QED
        BY <1>4, <2>1, <2>2, <2>3
<1>5. ASSUME NEW r \in Run, OverBudget(r) \/ ReadFlag(r) \/ ReadFlagFails(r)
      PROVE TypeOK'
    <2>1. CASE OverBudget(r)
        BY <2>1 DEF OverBudget, Abnormal
    <2>2. CASE ReadFlag(r)
        BY <2>2 DEF ReadFlag, EnterFinally, Abnormal
    <2>3. CASE ReadFlagFails(r)
        BY <2>3 DEF ReadFlagFails
    <2>4. QED
        BY <1>5, <2>1, <2>2, <2>3
<1>6. ASSUME NEW r \in Run, StreamEnds(r) \/ StreamFails(r) \/ Complete(r) \/ Mark(r)
      PROVE TypeOK'
    <2>1. CASE StreamEnds(r)
        BY <2>1 DEF StreamEnds
    <2>2. CASE StreamFails(r)
        BY <2>2 DEF StreamFails, EnterFinally, Abnormal
    <2>3. CASE Complete(r)
        BY <2>3, TypesOfMessages DEF Complete, AfterElse, CkptType
    <2>4. CASE Mark(r)
        BY <2>4, TypesOfMessages DEF Mark, CkptType
    <2>5. QED
        BY <1>6, <2>1, <2>2, <2>3, <2>4
<1>7. ASSUME NEW r \in Run, StopBeating(r) \/ Release(r) PROVE TypeOK'
    <2>1. CASE StopBeating(r)
        BY <2>1 DEF StopBeating
    <2>2. CASE Release(r)
        BY <2>2 DEF Release
    <2>3. QED
        BY <1>7, <2>1, <2>2
<1>8. ASSUME NEW r \in Run, Beating(r) PROVE TypeOK'
    <2>1. CASE Renew(r)
        <3>1. CASE lock = r
            BY <2>1, <3>1 DEF Renew
        <3>2. CASE lock # r
            <4>1. /\ renewing' = [renewing EXCEPT ![r] = FALSE]
                  /\ UNCHANGED <<ttl, beat, missed>>
                  /\ UNCHANGED <<saved, lock, blind, flags, locals, pc, unmarked, bounds>>
                BY <2>1, <3>2 DEF Renew
            <4>2. renewing' \in [Run -> BOOLEAN]
                BY <4>1
            <4>3. QED
                BY <4>1, <4>2
        <3>3. QED
            BY <3>1, <3>2
    <2>2. CASE RenewFails(r)
        <3>1. missed[r] + 1 \in 0 .. MaxFaults
            BY <2>2 DEF RenewFails, Bounded
        <3>2. QED
            BY <2>2, <3>1 DEF RenewFails
    <2>3. QED
        BY <1>8, <2>1, <2>2 DEF Beating
<1>9. ASSUME NEW r \in Run, Cancel(r) PROVE TypeOK'
    <2>1. CASE CancelBefore(r)
        BY <2>1 DEF CancelBefore, Struck, Rest
    <2>2. CASE CancelStream(r)
        BY <2>2 DEF CancelStream, EnterFinally, Abnormal, Struck, Rest
    <2>3. CASE CancelElse(r)
        BY <2>3 DEF CancelElse, AfterElse, Struck, Rest
    <2>4. CASE CancelMark(r)
        BY <2>4 DEF CancelMark, Struck, Rest
    <2>5. CASE CancelRelease(r)
        BY <2>5 DEF CancelRelease, Struck, Rest
    <2>6. QED
        BY <1>9, <2>1, <2>2, <2>3, <2>4, <2>5 DEF Cancel
<1>10. CASE Tick
    <2>1. ttl' \in 0 .. LockTtl
        BY <1>10 DEF Tick, Age, Bounded
    <2>2. beat' \in [Run -> 0 .. Beat]
        BY <1>10 DEF Tick
    <2>3. lock' \in Run \cup {None}
        BY <1>10 DEF Tick
    <2>4. QED
        BY <1>10, <2>1, <2>2, <2>3 DEF Tick
<1>11. CASE Stop
    BY <1>11 DEF Stop
<1>12. CASE FlagExpires
    BY <1>12 DEF FlagExpires
<1>13. CASE Crash
    BY <1>13 DEF Crash
<1>14. CASE UNCHANGED vars
    BY <1>14 DEF vars
<1>15. QED
    BY <1>1, <1>2, <1>3, <1>4, <1>5, <1>6, <1>7, <1>8, <1>9, <1>10, <1>11,
       <1>12, <1>13, <1>14 DEF Next, RunStep

-----------------------------------------------------------------------------
(* The lock.  A run that has not begun has no heartbeat; what is left of   *)
(* the lock of a run that renews it follows from the sleep of its          *)
(* heartbeat and from the renewals that failed; a run that Redis served    *)
(* has its lock for as long as it holds the session.                       *)

Early(r) ==
    pc[r] \in Before \cup {"off"}
        => /\ r \notin blind /\ missed[r] = 0
           /\ renewing[r] = FALSE /\ lock # r

Leased(r) ==
    lock = r /\ renewing[r] = TRUE
        => ttl = LockTtl - missed[r] * Beat - Beat + beat[r]

Kept(r) ==
    pc[r] \in Streams \cup Ends \cup {"beat"} /\ ~Unserved(r)
        => lock = r /\ renewing[r] = TRUE

Locked ==
    /\ lock \notin blind
    /\ \A r \in Run : Early(r) /\ Leased(r) /\ Kept(r)

LEMMA Times ==
    ASSUME NEW m \in Nat
    PROVE  m * Beat \in Nat /\ (m + 1) * Beat = m * Beat + Beat
BY BoundAssumption

(* A step of a run that leaves the lock and the heartbeats alone.          *)
LEMMA LockedMoves ==
    ASSUME TypeOK, Locked, UNCHANGED locks,
           NEW r \in Run, NEW p, pc' = [pc EXCEPT ![r] = p],
           (p \in Before => pc[r] \in Before \cup {"off"}),
           (p \in Streams \cup Ends \cup {"beat"} => pc[r] \in Streams \cup Ends),
           p # "off"
    PROVE  Locked'
<1>1. /\ lock' = lock /\ blind' = blind /\ missed' = missed /\ ttl' = ttl
      /\ renewing' = renewing /\ beat' = beat
    BY DEF locks
<1>2. ASSUME NEW q \in Run PROVE (Early(q) /\ Leased(q) /\ Kept(q))'
    <2>1. pc'[q] = IF q = r THEN p ELSE pc[q]
        BY DEF TypeOK
    <2>2. Early(q)'
        BY <1>1, <2>1 DEF Locked, Early
    <2>3. Leased(q)'
        BY <1>1 DEF Locked, Leased
    <2>4. Kept(q)'
        BY <1>1, <2>1 DEF Locked, Kept, Unserved
    <2>5. QED
        BY <2>2, <2>3, <2>4
<1>3. QED
    BY <1>1, <1>2 DEF Locked

LEMMA LockedAcquire ==
    ASSUME TypeOK, Locked, NEW r \in Run, Acquire(r) \/ AcquireBlind(r)
    PROVE  Locked'
<1> USE RunAssumption
<1>1. pc[r] = "lock" /\ pc' = [pc EXCEPT ![r] = "clear"] /\ missed' = missed
    BY DEF Acquire, AcquireBlind, Goto
<1>2. /\ renewing' = [renewing EXCEPT ![r] = TRUE]
      /\ beat' = [beat EXCEPT ![r] = Beat]
    BY DEF Acquire, AcquireBlind, StartBeating
<1>3. r \notin blind /\ missed[r] = 0
    BY <1>1 DEF Locked, Early, Before
<1>4. ASSUME NEW q \in Run PROVE Early(q)'
    BY <1>1, <1>2 DEF Locked, Early, TypeOK, Before, Acquire, AcquireBlind
<1>5. CASE Acquire(r)
    <2>1. lock = None /\ lock' = r /\ ttl' = LockTtl /\ blind' = blind
        BY <1>5 DEF Acquire, LockFree
    <2>2. ASSUME NEW q \in Run PROVE Leased(q)'
        BY <1>1, <1>2, <1>3, <2>1, BoundAssumption DEF Leased, TypeOK
    <2>3. ASSUME NEW q \in Run PROVE Kept(q)'
        <3>1. CASE q = r
            BY <3>1, <1>2, <2>1 DEF Kept, TypeOK
        <3>2. CASE q # r
            <4>1. pc'[q] = pc[q] /\ Unserved(q)' = Unserved(q) /\ lock # q
                BY <3>2, <1>1, <2>1 DEF TypeOK, Unserved
            <4>2. QED
                BY <4>1 DEF Kept, Locked
        <3>3. QED
            BY <3>1, <3>2
    <2>4. QED
        BY <1>3, <1>4, <2>1, <2>2, <2>3 DEF Locked
<1>6. CASE AcquireBlind(r)
    <2>1. lock' = lock /\ ttl' = ttl /\ blind' = blind \cup {r}
        BY <1>6 DEF AcquireBlind
    <2>2. lock # r
        BY <1>1 DEF Locked, Early, Before
    <2>3. ASSUME NEW q \in Run PROVE (Leased(q) /\ Kept(q))'
        <3>1. CASE q = r
            BY <3>1, <2>1, <2>2 DEF Kept, Leased, Unserved
        <3>2. CASE q # r
            <4>1. /\ pc'[q] = pc[q] /\ renewing'[q] = renewing[q]
                  /\ beat'[q] = beat[q] /\ Unserved(q)' = Unserved(q)
                BY <3>2, <1>1, <1>2, <2>1 DEF TypeOK, Unserved
            <4>2. QED
                BY <4>1, <1>1, <2>1 DEF Kept, Leased, Locked
        <3>3. QED
            BY <3>1, <3>2
    <2>4. QED
        BY <1>4, <2>1, <2>2, <2>3 DEF Locked
<1>7. QED
    BY <1>5, <1>6

(* A renewal sets the lock back to its full life; a failed one costs a     *)
(* heartbeat of it.                                                        *)
LEMMA LockedRenew ==
    ASSUME TypeOK, Locked, NEW r \in Run, Renew(r)
    PROVE  Locked'
<1>1. /\ pc' = pc /\ lock' = lock /\ blind' = blind
      /\ renewing[r] = TRUE /\ beat[r] = 0
    BY DEF Renew, TypeOK
<1>2. CASE lock = r
    <2>1. /\ ttl' = LockTtl /\ beat' = [beat EXCEPT ![r] = Beat]
          /\ missed' = [missed EXCEPT ![r] = 0] /\ renewing' = renewing
        BY <1>2 DEF Renew
    <2>2. ASSUME NEW q \in Run PROVE (Early(q) /\ Leased(q) /\ Kept(q))'
        <3>1. CASE q = r
            <4>1. missed'[q] = 0 /\ beat'[q] = Beat
                BY <3>1, <2>1 DEF TypeOK
            <4>2. QED
                BY <3>1, <4>1, <1>1, <1>2, <2>1, BoundAssumption
                   DEF Early, Leased, Kept, Locked
        <3>2. CASE q # r
            <4>1. missed'[q] = missed[q] /\ Unserved(q)' = Unserved(q)
                BY <3>2, <1>1, <2>1 DEF TypeOK, Unserved
            <4>2. QED
                BY <3>2, <4>1, <1>1, <1>2, <2>1 DEF Early, Leased, Kept, Locked
        <3>3. QED
            BY <3>1, <3>2
    <2>3. QED
        BY <1>1, <2>2 DEF Locked
<1>3. CASE lock # r
    <2>1. /\ ttl' = ttl /\ beat' = beat /\ missed' = missed
          /\ renewing' = [renewing EXCEPT ![r] = FALSE]
        BY <1>3 DEF Renew
    <2>2. ASSUME NEW q \in Run PROVE (Early(q) /\ Leased(q) /\ Kept(q))'
        <3>1. Unserved(q)' = Unserved(q)
            BY <1>1, <2>1 DEF Unserved
        <3>2. CASE q = r
            BY <3>1, <3>2, <1>1, <1>3, <2>1 DEF Early, Leased, Kept, Locked, TypeOK
        <3>3. CASE q # r
            <4>1. renewing'[q] = renewing[q]
                BY <3>3, <2>1 DEF TypeOK
            <4>2. QED
                BY <3>1, <4>1, <1>1, <2>1 DEF Early, Leased, Kept, Locked
        <3>4. QED
            BY <3>2, <3>3
    <2>3. QED
        BY <1>1, <2>2 DEF Locked
<1>4. QED
    BY <1>2, <1>3

LEMMA LockedRenewFails ==
    ASSUME TypeOK, Locked, NEW r \in Run, RenewFails(r)
    PROVE  Locked'
<1>1. /\ pc' = pc /\ lock' = lock /\ blind' = blind /\ ttl' = ttl
      /\ renewing' = renewing /\ renewing[r] = TRUE /\ beat[r] = 0
      /\ beat' = [beat EXCEPT ![r] = Beat]
      /\ missed' = [missed EXCEPT ![r] = @ + 1]
    BY DEF RenewFails, TypeOK
<1>2. ASSUME NEW q \in Run PROVE (Early(q) /\ Leased(q) /\ Kept(q))'
    <2>1. CASE q = r
        <3>1. missed'[q] = missed[q] + 1 /\ beat'[q] = Beat /\ missed[q] \in Nat
            BY <2>1, <1>1 DEF TypeOK
        <3>2. /\ missed[q] * Beat \in Nat
              /\ (missed[q] + 1) * Beat = missed[q] * Beat + Beat
              /\ (missed[q] + 1 + 1) * Beat = missed[q] * Beat + Beat + Beat
            BY <3>1, Times
        <3>3. Early(q)' /\ Leased(q)'
            BY <2>1, <3>1, <3>2, <1>1, BoundAssumption DEF Early, Leased, Locked, TypeOK
        <3>4. Unserved(q) => Unserved(q)'
            BY <3>1, <3>2, <1>1, BoundAssumption DEF Unserved
        <3>5. Kept(q)'
            BY <3>4, <1>1 DEF Kept, Locked
        <3>6. QED
            BY <3>3, <3>5
    <2>2. CASE q # r
        <3>1. /\ missed'[q] = missed[q] /\ beat'[q] = beat[q]
              /\ Unserved(q)' = Unserved(q)
            BY <2>2, <1>1 DEF TypeOK, Unserved
        <3>2. QED
            BY <3>1, <1>1 DEF Early, Leased, Kept, Locked
    <2>3. QED
        BY <2>1, <2>2
<1>3. QED
    BY <1>1, <1>2 DEF Locked

(* Time cannot take the lock of a run that was served.                     *)
LEMMA LockedTick ==
    ASSUME TypeOK, Bounded, Locked, Tick
    PROVE  Locked'
<1> USE RunAssumption
<1>1. /\ pc' = pc /\ blind' = blind /\ missed' = missed /\ renewing' = renewing
      /\ lock # None /\ ttl' = ttl - 1
      /\ lock' = IF ttl' = 0 THEN None ELSE lock
      /\ beat' = [q \in Run |-> IF renewing[q] THEN beat[q] - 1 ELSE beat[q]]
    BY DEF Tick, Age
<1>2. ASSUME NEW q \in Run PROVE (Early(q) /\ Leased(q) /\ Kept(q))'
    <2>1. Unserved(q)' = Unserved(q)
        BY <1>1 DEF Unserved
    <2>2. Early(q)'
        BY <1>1 DEF Early, Locked
    <2>3. CASE renewing[q] = TRUE
        <3>1. beat'[q] = beat[q] - 1 /\ beat[q] > 0
            BY <1>1, <2>3 DEF Tick
        <3>2. Leased(q)'
            BY <1>1, <2>3, <3>1, BoundAssumption, Times DEF Leased, Locked, TypeOK
        <3>3. Kept(q)'
            <4>1. SUFFICES ASSUME pc[q] \in Streams \cup Ends \cup {"beat"}, ~Unserved(q)
                           PROVE  ttl > 1 /\ lock = q
                BY <1>1, <2>1, <2>3, BoundAssumption DEF Kept, TypeOK
            <4>2. lock = q /\ ttl = LockTtl - missed[q] * Beat - Beat + beat[q]
                BY <4>1, <2>3 DEF Kept, Leased, Locked
            <4>3. (missed[q] + 1) * Beat < LockTtl /\ missed[q] \in Nat /\ beat[q] \in Nat
                BY <4>1, BoundAssumption DEF Unserved, TypeOK
            <4>4. /\ missed[q] * Beat \in Nat
                  /\ (missed[q] + 1) * Beat = missed[q] * Beat + Beat
                BY <4>3, Times
            <4>5. QED
                BY <4>2, <4>3, <4>4, <3>1, BoundAssumption
        <3>4. QED
            BY <2>2, <3>2, <3>3
    <2>4. CASE renewing[q] # TRUE
        BY <1>1, <2>1, <2>2, <2>4 DEF Leased, Kept, Locked
    <2>5. QED
        BY <2>3, <2>4
<1>3. lock' \notin blind'
    BY <1>1 DEF Locked, TypeOK
<1>4. QED
    BY <1>2, <1>3 DEF Locked

LEMMA LockedEnds ==
    ASSUME TypeOK, Locked, NEW r \in Run, StopBeating(r) \/ Release(r)
    PROVE  Locked'
<1> USE RunAssumption
<1>1. CASE StopBeating(r)
    <2>1. /\ pc[r] = "beat" /\ pc' = [pc EXCEPT ![r] = "release"]
          /\ lock' = lock /\ blind' = blind /\ missed' = missed /\ ttl' = ttl
          /\ beat' = beat /\ renewing' = [renewing EXCEPT ![r] = FALSE]
        BY <1>1 DEF StopBeating, Goto
    <2>2. ASSUME NEW q \in Run PROVE (Early(q) /\ Leased(q) /\ Kept(q))'
        <3>1. CASE q = r
            <4>1. pc'[q] = "release" /\ renewing'[q] = FALSE
                BY <3>1, <2>1 DEF TypeOK
            <4>2. QED
                BY <4>1 DEF Early, Leased, Kept, Before, Streams, Ends
        <3>2. CASE q # r
            <4>1. /\ pc'[q] = pc[q] /\ renewing'[q] = renewing[q]
                  /\ Unserved(q)' = Unserved(q)
                BY <3>2, <2>1 DEF TypeOK, Unserved
            <4>2. QED
                BY <4>1, <2>1 DEF Early, Leased, Kept, Locked
        <3>3. QED
            BY <3>1, <3>2
    <2>3. QED
        BY <2>1, <2>2 DEF Locked
<1>2. CASE Release(r)
    <2>1. /\ pc[r] = "release" /\ pc' = [pc EXCEPT ![r] = "done"]
          /\ blind' = blind /\ missed' = missed /\ ttl' = ttl
          /\ beat' = beat /\ renewing' = renewing
          /\ lock' = lock \/ (lock = r /\ lock' = None)
        BY <1>2 DEF Release, Goto
    <2>2. ASSUME NEW q \in Run PROVE (Early(q) /\ Leased(q) /\ Kept(q))'
        <3>1. CASE q = r
            <4>1. pc'[q] = "done"
                BY <3>1, <2>1 DEF TypeOK
            <4>2. QED
                BY <4>1, <2>1 DEF Early, Leased, Kept, Locked, Before, Streams, Ends
        <3>2. CASE q # r
            <4>1. /\ pc'[q] = pc[q] /\ Unserved(q)' = Unserved(q)
                  /\ lock = q => lock' = q
                  /\ lock' = q => lock = q
                BY <3>2, <2>1 DEF TypeOK, Unserved
            <4>2. QED
                BY <4>1, <2>1 DEF Early, Leased, Kept, Locked
        <3>3. QED
            BY <3>1, <3>2
    <2>3. lock' \notin blind'
        BY <2>1 DEF Locked, TypeOK
    <2>4. QED
        BY <2>2, <2>3 DEF Locked
<1>3. QED
    BY <1>1, <1>2

LEMMA LockedCancelBefore ==
    ASSUME TypeOK, Locked, NEW r \in Run, CancelBefore(r)
    PROVE  Locked'
<1> USE RunAssumption
<1>1. /\ pc[r] \in Before /\ pc' = [pc EXCEPT ![r] = "done"]
      /\ blind' = blind /\ missed' = missed /\ beat' = beat
      /\ renewing' = renewing
      /\ \/ (lock' = lock /\ ttl' = ttl)
         \/ (lock = None /\ lock' = r)
    BY DEF CancelBefore, Goto, LockFree
<1>2. r \notin blind /\ renewing[r] = FALSE
    BY <1>1 DEF Locked, Early
<1>3. ASSUME NEW q \in Run PROVE (Early(q) /\ Leased(q) /\ Kept(q))'
    <2>1. CASE q = r
        <3>1. pc'[q] = "done" /\ renewing'[q] = FALSE
            BY <2>1, <1>1, <1>2 DEF TypeOK
        <3>2. QED
            BY <3>1 DEF Early, Leased, Kept, Before, Streams, Ends
    <2>2. CASE q # r
        <3>1. /\ pc'[q] = pc[q] /\ Unserved(q)' = Unserved(q)
              /\ lock = q => (lock' = q /\ ttl' = ttl)
              /\ lock' = q => (lock = q /\ ttl' = ttl)
            BY <2>2, <1>1 DEF TypeOK, Unserved
        <3>2. QED
            BY <3>1, <1>1 DEF Early, Leased, Kept, Locked
    <2>3. QED
        BY <2>1, <2>2
<1>4. QED
    BY <1>1, <1>2, <1>3 DEF Locked

LEMMA LockedCrash ==
    ASSUME TypeOK, Locked, Crash
    PROVE  Locked'
<1>1. /\ pc' = [q \in Run |-> IF pc[q] \in Over THEN pc[q] ELSE "dead"]
      /\ blind' = blind /\ missed' = missed /\ lock' = lock
      /\ renewing' = [q \in Run |-> FALSE]
    BY DEF Crash
<1>2. ASSUME NEW q \in Run PROVE (Early(q) /\ Leased(q) /\ Kept(q))'
    <2>1. pc'[q] \in Over /\ (pc'[q] = pc[q] \/ pc'[q] = "dead")
        BY <1>1 DEF Over
    <2>2. renewing'[q] = FALSE
        BY <1>1
    <2>3. QED
        BY <2>1, <2>2, <1>1 DEF Early, Leased, Kept, Locked, Over, Before, Streams, Ends
<1>3. QED
    BY <1>1, <1>2 DEF Locked

(* The steps of a run that have nothing to do with the lock.               *)
Quiet(r) ==
    \/ Arrive(r) \/ ReadPrior(r) \/ ReadFails(r) \/ Refuse(r) \/ Reset(r)
    \/ IsRefused(r) \/ ClearFlag(r) \/ Start(r) \/ NodeRuns(r) \/ OverBudget(r)
    \/ ReadFlag(r) \/ ReadFlagFails(r) \/ StreamEnds(r) \/ StreamFails(r)
    \/ Complete(r) \/ Mark(r) \/ CancelStream(r) \/ CancelElse(r)
    \/ CancelMark(r) \/ CancelRelease(r)

QuietMove(r, p) ==
    /\ pc' = [pc EXCEPT ![r] = p]
    /\ p \in Before => pc[r] \in Before \cup {"off"}
    /\ p \in Streams \cup Ends \cup {"beat"} => pc[r] \in Streams \cup Ends

LEMMA QuietMoves ==
    ASSUME NEW r \in Run, Quiet(r)
    PROVE  (UNCHANGED locks) /\ \E p \in Places \ {"off"} : QuietMove(r, p)
<1> USE DEF Goto, QuietMove, Before, Streams, Ends, Over, Places
<1>1. CASE Arrive(r)
    <2>1. QuietMove(r, "read") /\ UNCHANGED locks
        BY <1>1 DEF Arrive
    <2>2. "read" \in Places \ {"off"}
        OBVIOUS
    <2>3. QED
        BY <2>1, <2>2
<1>2. CASE ReadPrior(r)
    BY <1>2 DEF ReadPrior
<1>3. CASE ReadFails(r)
    <2>1. QuietMove(r, "lock") /\ UNCHANGED locks
        BY <1>3 DEF ReadFails
    <2>2. "lock" \in Places \ {"off"}
        OBVIOUS
    <2>3. QED
        BY <2>1, <2>2
<1>4. CASE Refuse(r)
    <2>1. QuietMove(r, "lock") /\ UNCHANGED locks
        BY <1>4 DEF Refuse
    <2>2. "lock" \in Places \ {"off"}
        OBVIOUS
    <2>3. QED
        BY <2>1, <2>2
<1>5. CASE Reset(r)
    <2>1. QuietMove(r, "lock") /\ UNCHANGED locks
        BY <1>5 DEF Reset
    <2>2. "lock" \in Places \ {"off"}
        OBVIOUS
    <2>3. QED
        BY <2>1, <2>2
<1>6. CASE IsRefused(r)
    <2>1. QuietMove(r, "refused") /\ UNCHANGED locks
        BY <1>6 DEF IsRefused
    <2>2. "refused" \in Places \ {"off"}
        OBVIOUS
    <2>3. QED
        BY <2>1, <2>2
<1>7. CASE ClearFlag(r)
    BY <1>7 DEF ClearFlag
<1>8. CASE Start(r)
    BY <1>8 DEF Start
<1>9. CASE NodeRuns(r)
    BY <1>9 DEF NodeRuns
<1>10. CASE OverBudget(r)
    BY <1>10 DEF OverBudget
<1>11. CASE ReadFlag(r)
    BY <1>11 DEF ReadFlag
<1>12. CASE ReadFlagFails(r)
    BY <1>12 DEF ReadFlagFails
<1>13. CASE StreamEnds(r)
    BY <1>13 DEF StreamEnds
<1>14. CASE StreamFails(r)
    BY <1>14 DEF StreamFails
<1>15. CASE Complete(r)
    BY <1>15 DEF Complete, AfterElse
<1>16. CASE Mark(r)
    BY <1>16 DEF Mark
<1>17. CASE CancelStream(r)
    BY <1>17 DEF CancelStream
<1>18. CASE CancelElse(r)
    BY <1>18 DEF CancelElse, AfterElse
<1>19. CASE CancelMark(r)
    BY <1>19 DEF CancelMark
<1>20. CASE CancelRelease(r)
    <2>1. QuietMove(r, "done") /\ UNCHANGED locks
        BY <1>20 DEF CancelRelease
    <2>2. "done" \in Places \ {"off"}
        OBVIOUS
    <2>3. QED
        BY <2>1, <2>2
<1>21. QED
    BY <1>1, <1>2, <1>3, <1>4, <1>5, <1>6, <1>7, <1>8, <1>9, <1>10, <1>11, <1>12, <1>13, <1>14, <1>15, <1>16, <1>17, <1>18, <1>19, <1>20 DEF Quiet

LEMMA LockedStep == TypeOK /\ Bounded /\ Locked /\ [Next]_vars => Locked'
<1> SUFFICES ASSUME TypeOK, Bounded, Locked, [Next]_vars PROVE Locked'
    OBVIOUS
<1>1. ASSUME NEW r \in Run, Quiet(r) PROVE Locked'
    <2>1. PICK p \in Places \ {"off"} : QuietMove(r, p)
        BY <1>1, QuietMoves
    <2>2. UNCHANGED locks
        BY <1>1, QuietMoves
    <2>3. QED
        BY <2>1, <2>2, LockedMoves DEF QuietMove
<1>2. CASE (UNCHANGED locks) /\ UNCHANGED pc
    BY <1>2 DEF Locked, Early, Leased, Kept, Unserved, locks
<1>3. CASE Stop \/ FlagExpires \/ UNCHANGED vars
    BY <1>2, <1>3 DEF Stop, FlagExpires, vars
<1>4. QED
    BY <1>1, <1>3, LockedAcquire, LockedRenew, LockedRenewFails, LockedTick,
       LockedEnds, LockedCancelBefore, LockedCrash
       DEF Next, RunStep, Beating, Cancel, Quiet

LEMMA BoundedStep ==
    TypeOK /\ Bounded /\ Locked /\ [Next]_vars => Bounded'
<1> SUFFICES ASSUME TypeOK, Bounded, Locked, [Next]_vars PROVE Bounded'
    OBVIOUS
<1> USE RunAssumption, BoundAssumption
<1>1. ASSUME NEW r \in Run, Quiet(r) PROVE Bounded'
    <2>1. lock' = lock /\ ttl' = ttl /\ missed' = missed
        BY <1>1, QuietMoves DEF locks
    <2>2. faults' = faults \/ faults' = faults + 1
        BY <1>1 DEF Quiet, Arrive, ReadPrior, ReadFails, Refuse, Reset, IsRefused,
            ClearFlag, Start, NodeRuns, OverBudget, ReadFlag, ReadFlagFails,
            StreamEnds, StreamFails, Complete, Mark, CancelStream, CancelElse,
            CancelMark, CancelRelease, Fault, Fine, Rest, bounds
    <2>3. QED
        BY <2>1, <2>2 DEF Bounded, TypeOK
<1>2. ASSUME NEW r \in Run, Acquire(r) \/ AcquireBlind(r) \/ CancelBefore(r)
      PROVE Bounded'
    BY <1>2 DEF Acquire, AcquireBlind, CancelBefore, Fault, Rest, bounds, Bounded, TypeOK
<1>3. ASSUME NEW r \in Run, Beating(r) PROVE Bounded'
    <2>1. CASE Renew(r)
        <3>1. lock' = lock /\ faults' = faults /\ (ttl' = ttl \/ ttl' = LockTtl)
            BY <2>1 DEF Renew, bounds
        <3>2. missed' = missed \/ missed' = [missed EXCEPT ![r] = 0]
            BY <2>1 DEF Renew
        <3>3. QED
            BY <3>1, <3>2 DEF Bounded, TypeOK
    <2>2. CASE RenewFails(r)
        BY <2>2 DEF RenewFails, Fault, Bounded, TypeOK
    <2>3. QED
        BY <1>3, <2>1, <2>2 DEF Beating
<1>4. ASSUME NEW r \in Run, StopBeating(r) \/ Release(r) PROVE Bounded'
    BY <1>4 DEF StopBeating, Release, Fault, Fine, bounds, Bounded, TypeOK
<1>5. CASE Tick
    BY <1>5 DEF Tick, Age, bounds, Bounded, TypeOK
<1>6. CASE Stop \/ FlagExpires \/ Crash \/ UNCHANGED vars
    BY <1>6 DEF Stop, FlagExpires, Crash, vars, locks, bounds, Bounded
<1>7. QED
    BY <1>1, <1>2, <1>3, <1>4, <1>5, <1>6 DEF Next, RunStep, Cancel, Quiet

HoldInv == TypeOK /\ Bounded /\ Locked

LEMMA HoldInvariant == Spec => []HoldInv
<1>1. Init => HoldInv
    <2>1. Init => Locked
        BY RunAssumption DEF Init, Locked, Early, Leased, Kept, Before, Streams, Ends
    <2>2. QED
        BY <2>1, InitTypes DEF HoldInv
<1>2. HoldInv /\ [Next]_vars => HoldInv'
    BY StepTypes, BoundedStep, LockedStep DEF HoldInv
<1>3. QED
    BY <1>1, <1>2, PTL DEF Spec

(* Every variable of the session's runs keeps its type.                    *)
THEOREM TypeCorrect == Spec => []TypeOK
<1>1. HoldInv => TypeOK
    BY DEF HoldInv
<1>2. QED
    BY <1>1, HoldInvariant, PTL

LEMMA HoldInvOneStream == HoldInv => OneStreamPerSession
BY DEF HoldInv, Locked, Kept, OneStreamPerSession, Holds

(* Two runs hold a session together only if Redis did not answer one of    *)
(* them when it asked for the lock, or when it renewed it, for as long as  *)
(* the lock lives (AgentRunner._try_acquire_lock and _renew_lock).         *)
THEOREM OneStream == Spec => []OneStreamPerSession
BY HoldInvOneStream, HoldInvariant, PTL

-----------------------------------------------------------------------------
(* The flag: set, it is meant for every run that may read it, but for one  *)
(* that could not clear it.                                                *)

Reading == {"start", "stream", "event"}

Flagged ==
    /\ strayed \subseteq deaf
    /\ flag = TRUE => \A r \in Run : pc[r] \in Reading => r \in aimed \cup deaf

(* A step that leaves the flag alone brings no run to where it reads it.   *)
LEMMA FlaggedMoves ==
    ASSUME TypeOK, Flagged, UNCHANGED flags, NEW r \in Run,
           (\A q \in Run : q # r => pc'[q] = pc[q]),
           (pc'[r] \in Reading => pc[r] \in Reading)
    PROVE  Flagged'
<1>1. flag' = flag /\ deaf' = deaf /\ aimed' = aimed /\ strayed' = strayed
    BY DEF flags
<1>2. \A q \in Run : pc'[q] \in Reading => pc[q] \in Reading
    OBVIOUS
<1>3. QED
    BY <1>1, <1>2 DEF Flagged

LEMMA FlaggedStep == TypeOK /\ Flagged /\ [Next]_vars => Flagged'
<1> SUFFICES ASSUME TypeOK, Flagged, [Next]_vars PROVE Flagged'
    OBVIOUS
<1>1. ASSUME NEW r \in Run, ClearFlag(r) PROVE Flagged'
    <2>1. /\ aimed' = aimed /\ strayed' = strayed
          /\ pc' = [pc EXCEPT ![r] = "start"]
          /\ \/ (flag' = FALSE /\ deaf' = deaf)
             \/ (flag' = flag /\ deaf' = deaf \cup {r})
        BY <1>1 DEF ClearFlag, Cleared, Goto
    <2>2. QED
        BY <2>1 DEF Flagged, TypeOK
<1>2. ASSUME NEW r \in Run, ReadFlag(r) PROVE Flagged'
    <2>1. /\ flag' = flag /\ deaf' = deaf /\ aimed' = aimed /\ pc[r] = "event"
          /\ \/ (strayed' = strayed /\ pc' = [pc EXCEPT ![r] = "stream"])
             \/ /\ pc' = [pc EXCEPT ![r] = "mark"]
                /\ strayed' = IF r \in aimed THEN strayed ELSE strayed \cup {r}
                /\ flag = TRUE
        BY <1>2 DEF ReadFlag, Goto, TypeOK
    <2>2. strayed' \subseteq deaf'
        BY <2>1 DEF Flagged, Reading
    <2>3. \A q \in Run : pc'[q] \in Reading => pc[q] \in Reading
        BY <2>1 DEF TypeOK, Reading
    <2>4. QED
        BY <2>1, <2>2, <2>3 DEF Flagged
<1>3. ASSUME NEW r \in Run,
             \/ Arrive(r) \/ ReadPrior(r) \/ ReadFails(r) \/ Refuse(r) \/ Reset(r)
             \/ IsRefused(r) \/ Start(r) \/ NodeRuns(r) \/ OverBudget(r)
             \/ ReadFlagFails(r) \/ StreamEnds(r) \/ StreamFails(r)
             \/ Complete(r) \/ Mark(r) \/ CancelStream(r) \/ CancelElse(r)
             \/ CancelMark(r) \/ CancelRelease(r)
      PROVE Flagged'
    <2>1. Quiet(r)
        BY <1>3 DEF Quiet
    <2>2. PICK p \in Places \ {"off"} : QuietMove(r, p)
        BY <2>1, QuietMoves
    <2>3. \A q \in Run : q # r => pc'[q] = pc[q]
        BY <2>2 DEF QuietMove
    <2>4. UNCHANGED flags
        BY <1>3 DEF Arrive, ReadPrior, ReadFails, Refuse, Reset, IsRefused, Start,
            NodeRuns, OverBudget, ReadFlagFails, StreamEnds, StreamFails, Complete,
            Mark, CancelStream, CancelElse, CancelMark, CancelRelease
    <2>5. pc'[r] \in Reading => pc[r] \in Reading
        BY <1>3 DEF TypeOK, Goto, Reading, Arrive, ReadPrior, ReadFails, Refuse, Reset,
            IsRefused, Start, NodeRuns, OverBudget, ReadFlagFails, StreamEnds,
            StreamFails, Complete, Mark, AfterElse, CancelStream, CancelElse,
            CancelMark, CancelRelease
    <2>6. QED
        BY <2>3, <2>4, <2>5, FlaggedMoves
<1>4. ASSUME NEW r \in Run,
             \/ Acquire(r) \/ AcquireBlind(r) \/ StopBeating(r) \/ Release(r)
             \/ CancelBefore(r)
      PROVE Flagged'
    <2>1. (UNCHANGED flags) /\ \E p \in {"clear", "release", "done"} :
                                    pc' = [pc EXCEPT ![r] = p]
        BY <1>4 DEF Acquire, AcquireBlind, StopBeating, Release, CancelBefore, Goto
    <2>2. QED
        BY <2>1, FlaggedMoves DEF TypeOK, Reading
<1>5. CASE Tick \/ (\E r \in Run : Beating(r)) \/ UNCHANGED vars
    <2>1. UNCHANGED <<flag, deaf, aimed, strayed, pc>>
        BY <1>5 DEF Tick, Beating, Renew, RenewFails, vars, flags
    <2>2. QED
        BY <2>1 DEF Flagged
<1>6. CASE Stop
    BY <1>6 DEF Stop, Flagged, Holds, Reading, Streams
<1>7. CASE FlagExpires
    BY <1>7 DEF FlagExpires, Flagged
<1>8. CASE Crash
    <2>1. \A q \in Run : pc'[q] \in Reading => pc[q] \in Reading
        BY <1>8 DEF Crash, Reading
    <2>2. QED
        BY <1>8, <2>1 DEF Crash, flags, Flagged
<1>9. QED
    BY <1>1, <1>2, <1>3, <1>4, <1>5, <1>6, <1>7, <1>8
       DEF Next, RunStep, Beating, Cancel

(* A flag stops only the runs that were in progress when it was set, or    *)
(* that could not clear it when they began (_clear_cancellation).          *)
THEOREM CancelsOwn == Spec => []CancelsAreOwn
<1>1. Init => Flagged
    BY DEF Init, Flagged, Reading
<1>2. TypeOK /\ Flagged /\ [Next]_vars => Flagged'
    BY FlaggedStep
<1>3. Flagged => CancelsAreOwn
    BY DEF Flagged, CancelsAreOwn
<1>4. QED
    BY <1>1, <1>2, <1>3, TypeCorrect, PTL DEF Spec

-----------------------------------------------------------------------------
(* The status.  A run that writes its end has one to write.                *)

Ended == \A r \in Run : pc[r] \in Ends => verdict[r] # "RUNNING"

Told == RunningMeansRunning /\ Ended

(* A step that leaves the status, and ends no run.                         *)
LEMMA ToldMoves ==
    ASSUME TypeOK, Told, NEW r \in Run, (\A q \in Run : q # r => pc'[q] = pc[q]),
           (ckpt'.status = "RUNNING" => ckpt.status = "RUNNING"),
           unmarked \subseteq unmarked',
           (Holds(r) => Holds(r)' \/ r \in unmarked'),
           (pc'[r] \in Ends => verdict'[r] # "RUNNING"),
           (\A q \in Run : q # r => verdict'[q] = verdict[q])
    PROVE  Told'
<1>1. Ended'
    BY DEF Told, Ended
<1>2. ASSUME NEW q \in Run, Holds(q) PROVE Holds(q)' \/ unmarked' # {}
    <2>1. CASE q = r
        BY <2>1, <1>2
    <2>2. CASE q # r
        BY <2>2, <1>2 DEF Holds
    <2>3. QED
        BY <2>1, <2>2
<1>3. RunningMeansRunning'
    BY <1>2 DEF Told, RunningMeansRunning
<1>4. QED
    BY <1>1, <1>3 DEF Told

LEMMA ToldStep == TypeOK /\ Told /\ [Next]_vars => Told'
<1> SUFFICES ASSUME TypeOK, Told, [Next]_vars PROVE Told'
    OBVIOUS
<1> USE DEF Goto
<1>1. ASSUME NEW r \in Run,
             \/ Arrive(r) \/ ReadPrior(r) \/ ReadFails(r) \/ Refuse(r) \/ Reset(r)
             \/ Acquire(r) \/ IsRefused(r) \/ AcquireBlind(r) \/ CancelBefore(r)
             \/ StopBeating(r) \/ Release(r) \/ CancelRelease(r)
      PROVE Told'
    <2>1. /\ pc[r] \notin Streams \cup Ends
          /\ unmarked' = unmarked /\ verdict' = verdict
        BY <1>1 DEF Arrive, ReadPrior, ReadFails, Refuse, Reset, Acquire, IsRefused,
            AcquireBlind, CancelBefore, StopBeating, Release, CancelRelease, Before,
            Streams, Ends, locals
    <2>2. \E p \in Places \ Ends : pc' = [pc EXCEPT ![r] = p]
        BY <1>1 DEF Arrive, ReadPrior, ReadFails, Refuse, Reset, Acquire, IsRefused,
            AcquireBlind, CancelBefore, StopBeating, Release, CancelRelease, Places,
            Before, Streams, Ends, Over
    <2>3. \/ ckpt' = ckpt \/ ckpt' = [ckpt EXCEPT !.current = TRUE]
          \/ ckpt' = [ckpt EXCEPT !.status = "COMPLETED"]
        BY <1>1 DEF Arrive, ReadPrior, ReadFails, Refuse, Reset, Acquire, IsRefused,
            AcquireBlind, CancelBefore, StopBeating, Release, CancelRelease, saved
    <2>4. ckpt'.status = "RUNNING" => ckpt.status = "RUNNING"
        BY <2>3 DEF TypeOK
    <2>5. QED
        BY <2>1, <2>2, <2>4, ToldMoves DEF Holds, TypeOK
<1>2. ASSUME NEW r \in Run, Start(r) \/ NodeRuns(r) PROVE Told'
    <2>1. Holds(r)' /\ pc'[r] \notin Ends /\ verdict' = verdict
        BY <1>2 DEF Start, NodeRuns, Holds, Streams, Ends, TypeOK
    <2>2. \E p \in Streams : pc' = [pc EXCEPT ![r] = p]
        BY <1>2 DEF Start, NodeRuns, Streams
    <2>3. QED
        BY <2>1, <2>2 DEF Told, Ended, RunningMeansRunning, TypeOK
<1>3. ASSUME NEW r \in Run,
             \/ ClearFlag(r) \/ OverBudget(r) \/ ReadFlag(r) \/ ReadFlagFails(r)
             \/ StreamEnds(r) \/ StreamFails(r) \/ CancelStream(r)
      PROVE Told'
    <2>1. ckpt' = ckpt /\ unmarked' = unmarked
        BY <1>3 DEF ClearFlag, OverBudget, ReadFlag, ReadFlagFails, StreamEnds,
            StreamFails, CancelStream, saved
    <2>2. \E p \in Streams \cup Ends :
            /\ pc' = [pc EXCEPT ![r] = p]
            /\ \/ (p \in Streams /\ verdict' = verdict)
               \/ \E v \in {"COMPLETED"} \cup Abnormal :
                        verdict' = [verdict EXCEPT ![r] = v]
        BY <1>3 DEF ClearFlag, OverBudget, ReadFlag, ReadFlagFails, StreamEnds,
            StreamFails, CancelStream, EnterFinally, Streams, Ends, Abnormal, locals
    <2>3. (pc'[r] \in Ends => verdict'[r] # "RUNNING") /\ Holds(r)'
        BY <2>2 DEF TypeOK, Holds, Streams, Ends, Abnormal
    <2>4. QED
        BY <2>1, <2>2, <2>3, ToldMoves DEF TypeOK
<1>4. ASSUME NEW r \in Run, Complete(r) \/ Mark(r) PROVE Told'
    <2>1. verdict' = verdict /\ verdict[r] # "RUNNING"
        BY <1>4 DEF Complete, Mark, Told, Ended, Ends, locals
    <2>2. \E p \in {"mark", "beat"} : pc' = [pc EXCEPT ![r] = p]
        BY <1>4 DEF Complete, Mark, AfterElse
    <2>3. CASE ckpt' = PutMarker(r) /\ unmarked' = unmarked
        <3>1. ckpt'.status # "RUNNING"
            BY <2>1, <2>3 DEF PutMarker, TypeOK
        <3>2. QED
            BY <2>1, <2>2, <3>1 DEF Told, Ended, RunningMeansRunning, Ends, TypeOK
    <2>4. CASE ckpt' = ckpt /\ unmarked' = unmarked \cup {r}
        BY <2>1, <2>2, <2>4, ToldMoves DEF TypeOK
    <2>5. QED
        BY <1>4, <2>3, <2>4 DEF Complete, Mark
<1>5. ASSUME NEW r \in Run, CancelElse(r) \/ CancelMark(r) PROVE Told'
    <2>1. /\ ckpt' = ckpt /\ unmarked' = unmarked \cup {r} /\ verdict' = verdict
          /\ verdict[r] # "RUNNING"
          /\ \E p \in {"mark", "beat", "done"} : pc' = [pc EXCEPT ![r] = p]
        BY <1>5 DEF CancelElse, CancelMark, AfterElse, saved, locals, Told, Ended, Ends
    <2>2. QED
        BY <2>1, ToldMoves DEF TypeOK
<1>6. CASE (UNCHANGED <<ckpt, pc, unmarked, verdict>>)
    BY <1>6 DEF Told, Ended, RunningMeansRunning, Holds
<1>7. CASE Tick \/ (\E r \in Run : Beating(r)) \/ Stop \/ FlagExpires \/ UNCHANGED vars
    BY <1>6, <1>7 DEF Tick, Beating, Renew, RenewFails, Stop, FlagExpires, vars,
        saved, locals
<1>8. CASE Crash
    <2>1. /\ ckpt' = ckpt /\ verdict' = verdict
          /\ unmarked' = unmarked \cup {q \in Run : Holds(q)}
          /\ \A q \in Run : pc'[q] \in Ends => pc[q] \in Ends
        BY <1>8 DEF Crash, locals, Ends
    <2>2. QED
        BY <2>1 DEF Told, Ended, RunningMeansRunning
<1>9. QED
    BY <1>1, <1>2, <1>3, <1>4, <1>5, <1>7, <1>8 DEF Next, RunStep, Beating, Cancel

(* The checkpoint says RUNNING only of a run in progress, or after one     *)
(* whose end could not be written (the else and finally blocks of invoke). *)
THEOREM RunningIsTrue == Spec => []RunningMeansRunning
<1>1. Init => Told
    BY DEF Init, FirstCheckpoint, Told, Ended, RunningMeansRunning, Ends
<1>2. TypeOK /\ Told /\ [Next]_vars => Told'
    BY ToldStep
<1>3. Told => RunningMeansRunning
    BY DEF Told
<1>4. QED
    BY <1>1, <1>2, <1>3, TypeCorrect, PTL DEF Spec

-----------------------------------------------------------------------------
(* The messages.  While Redis serves every run, one run at a time has a    *)
(* stream, whose channels are the messages of the checkpoint.              *)

AllServed == \A r \in Run : ~Unserved(r)

Snapshots ==
    AllServed => \A r \in Run : pc[r] \in {"stream", "event"}
                                    => ckpt.msgs = mem[r]

(* A run that was not served never is: its lock is gone before the next    *)
(* renewal.                                                                *)
LEMMA StaysUnserved ==
    ASSUME TypeOK, Bounded, Locked, [Next]_vars, NEW q \in Run, Unserved(q)
    PROVE  Unserved(q)'
<1> USE RunAssumption
<1>1. ASSUME UNCHANGED missed, blind \subseteq blind' PROVE Unserved(q)'
    BY <1>1 DEF Unserved
<1>2. ASSUME NEW r \in Run, Renew(r) PROVE Unserved(q)'
    <2>1. blind' = blind
        BY <1>2 DEF Renew
    <2>2. CASE lock = r /\ r = q /\ q \notin blind
        <3>1. ttl = LockTtl - missed[q] * Beat - Beat + beat[q] /\ beat[q] = 0
            BY <1>2, <2>2 DEF Locked, Leased, Renew, TypeOK
        <3>2. ttl > 0 /\ missed[q] \in Nat
            BY <2>2 DEF Bounded, TypeOK
        <3>3. /\ missed[q] * Beat \in Nat
              /\ (missed[q] + 1) * Beat = missed[q] * Beat + Beat
            BY <3>2, Times
        <3>4. (missed[q] + 1) * Beat < LockTtl
            BY <3>1, <3>2, <3>3, BoundAssumption
        <3>5. ~Unserved(q)
            BY <2>2, <3>2, <3>3, <3>4, BoundAssumption DEF Unserved
        <3>6. QED
            BY <3>5
    <2>3. CASE lock = r /\ r # q
        <3>1. missed'[q] = missed[q]
            BY <1>2, <2>3 DEF Renew, TypeOK
        <3>2. QED
            BY <2>1, <3>1 DEF Unserved
    <2>4. CASE lock # r
        BY <1>1, <1>2, <2>1, <2>4 DEF Renew
    <2>5. CASE q \in blind
        BY <2>1, <2>5 DEF Unserved
    <2>6. QED
        BY <2>2, <2>3, <2>4, <2>5
<1>3. ASSUME NEW r \in Run, RenewFails(r) PROVE Unserved(q)'
    <2>1. blind' = blind /\ missed' = [missed EXCEPT ![r] = @ + 1]
        BY <1>3 DEF RenewFails
    <2>2. missed[q] \in Nat /\ (missed'[q] = missed[q] \/ missed'[q] = missed[q] + 1)
        BY <2>1 DEF TypeOK
    <2>3. /\ missed[q] * Beat \in Nat
          /\ (missed[q] + 1) * Beat = missed[q] * Beat + Beat
          /\ (missed[q] + 1 + 1) * Beat = missed[q] * Beat + Beat + Beat
        BY <2>2, Times
    <2>4. QED
        BY <2>1, <2>2, <2>3, BoundAssumption DEF Unserved
<1>4. ASSUME NEW r \in Run, Quiet(r) PROVE Unserved(q)'
    BY <1>1, <1>4, QuietMoves DEF locks
<1>5. ASSUME NEW r \in Run,
             \/ Acquire(r) \/ AcquireBlind(r) \/ CancelBefore(r)
             \/ StopBeating(r) \/ Release(r)
      PROVE Unserved(q)'
    BY <1>1, <1>5 DEF Acquire, AcquireBlind, CancelBefore, StopBeating, Release
<1>6. CASE Tick \/ Stop \/ FlagExpires \/ Crash \/ UNCHANGED vars
    BY <1>1, <1>6 DEF Tick, Stop, FlagExpires, Crash, vars, locks
<1>7. QED
    BY <1>2, <1>3, <1>4, <1>5, <1>6 DEF Next, RunStep, Beating, Cancel, Quiet

(* Only a stream writes messages, and no other takes place meanwhile.      *)
LEMMA SnapshotsStep ==
    HoldInv /\ Snapshots /\ [Next]_vars => Snapshots'
<1> SUFFICES ASSUME HoldInv, Snapshots, [Next]_vars, AllServed'
             PROVE \A r \in Run : pc'[r] \in {"stream", "event"}
                                    => ckpt'.msgs = mem'[r]
    BY DEF Snapshots
<1>1. AllServed
    BY StaysUnserved DEF HoldInv, AllServed
<1>2. \A a, b \in Run : Holds(a) /\ Holds(b) => a = b
    BY <1>1, HoldInvOneStream DEF OneStreamPerSession, AllServed
<1>3. TypeOK /\ \A r \in Run : pc[r] \in {"stream", "event"} => ckpt.msgs = mem[r]
    BY <1>1 DEF Snapshots, HoldInv
<1>4. ASSUME ckpt'.msgs = ckpt.msgs, mem' = mem,
             (\A r \in Run : pc'[r] \in {"stream", "event"}
                                => pc[r] \in {"stream", "event"})
      PROVE \A r \in Run : pc'[r] \in {"stream", "event"} => ckpt'.msgs = mem'[r]
    BY <1>3, <1>4
<1>5. ASSUME NEW q \in Run, Start(q) \/ NodeRuns(q), NEW r \in Run,
             pc'[r] \in {"stream", "event"}
      PROVE ckpt'.msgs = mem'[r]
    <2>1. Holds(q) /\ \E p \in Places : pc' = [pc EXCEPT ![q] = p]
        BY <1>5 DEF Start, NodeRuns, Holds, Goto, Streams, Places
    <2>2. r # q => Holds(r)
        BY <1>3, <1>5, <2>1 DEF Holds, Streams, TypeOK
    <2>3. r = q
        BY <1>2, <2>1, <2>2
    <2>4. CASE Start(q)
        <3>1. ckpt'.msgs = Merged(q) /\ mem' = [mem EXCEPT ![q] = Merged(q)]
            BY <2>4 DEF Start
        <3>2. QED
            BY <2>3, <3>1, <1>3 DEF TypeOK
    <2>5. CASE NodeRuns(q)
        <3>1. PICK h \in Spoken(q) :
                    /\ mem' = [mem EXCEPT ![q] = h]
                    /\ ckpt' = [status |-> "RUNNING", msgs |-> h, current |-> TRUE]
            BY <2>5 DEF NodeRuns
        <3>2. QED
            BY <1>3, <2>3, <3>1 DEF TypeOK
    <2>6. QED
        BY <1>5, <2>4, <2>5
<1>6. ASSUME NEW q \in Run,
             \/ Arrive(q) \/ ReadPrior(q) \/ ReadFails(q) \/ Refuse(q) \/ Reset(q)
             \/ IsRefused(q) \/ ClearFlag(q) \/ OverBudget(q) \/ ReadFlag(q)
             \/ ReadFlagFails(q) \/ StreamEnds(q) \/ StreamFails(q)
             \/ Complete(q) \/ Mark(q) \/ CancelStream(q) \/ CancelElse(q)
             \/ CancelMark(q) \/ CancelRelease(q)
             \/ Acquire(q) \/ AcquireBlind(q) \/ StopBeating(q) \/ Release(q)
             \/ CancelBefore(q)
      PROVE \A r \in Run : pc'[r] \in {"stream", "event"} => ckpt'.msgs = mem'[r]
    <2>1. mem' = mem
        BY <1>6 DEF Arrive, ReadPrior, ReadFails, Refuse, Reset, IsRefused, ClearFlag,
            OverBudget, ReadFlag, ReadFlagFails, StreamEnds, StreamFails, Complete,
            Mark, CancelStream, CancelElse, CancelMark, CancelRelease, Acquire,
            AcquireBlind, StopBeating, Release, CancelBefore, locals
    <2>2. \/ ckpt' = ckpt \/ ckpt' = [ckpt EXCEPT !.current = TRUE]
          \/ \E v \in Status : ckpt' = [ckpt EXCEPT !.status = v]
        <3>1. verdict[q] \in Status /\ "COMPLETED" \in Status
            BY <1>3 DEF TypeOK, Status
        <3>2. QED
            BY <3>1, <1>6 DEF Arrive, ReadPrior, ReadFails, Refuse, Reset, IsRefused,
                ClearFlag, OverBudget, ReadFlag, ReadFlagFails, StreamEnds, StreamFails,
                Complete, Mark, PutMarker, CancelStream, CancelElse, CancelMark,
                CancelRelease, Acquire, AcquireBlind, StopBeating, Release,
                CancelBefore, saved
    <2>3. ckpt'.msgs = ckpt.msgs
        BY <1>3, <2>2 DEF TypeOK
    <2>4. \E p \in Places : pc' = [pc EXCEPT ![q] = p]
        BY <1>6 DEF Goto, Places, Before, Streams, Ends, Over, AfterElse, Arrive, ReadPrior, ReadFails, Refuse, Reset, IsRefused,
            ClearFlag, OverBudget, ReadFlag, ReadFlagFails, StreamEnds, StreamFails,
            Complete, Mark, CancelStream, CancelElse, CancelMark, CancelRelease,
            Acquire, AcquireBlind, StopBeating, Release, CancelBefore
    <2>5. pc'[q] \in {"stream", "event"} => pc[q] \in {"stream", "event"}
        BY <1>3, <1>6 DEF TypeOK, Goto, Arrive, ReadPrior, ReadFails, Refuse, Reset,
            IsRefused, ClearFlag, OverBudget, ReadFlag, ReadFlagFails, StreamEnds,
            StreamFails, Complete, AfterElse, Mark, CancelStream, CancelElse,
            CancelMark, CancelRelease, Acquire, AcquireBlind, StopBeating, Release,
            CancelBefore
    <2>6. QED
        BY <1>3, <1>4, <2>1, <2>3, <2>4, <2>5 DEF TypeOK
<1>7. CASE Tick \/ (\E r \in Run : Beating(r)) \/ Stop \/ FlagExpires \/ UNCHANGED vars
    BY <1>3, <1>7 DEF Tick, Beating, Renew, RenewFails, Stop, FlagExpires, vars, saved,
        locals
<1>8. CASE Crash
    <2>1. /\ ckpt' = ckpt /\ mem' = mem
          /\ \A r \in Run : pc'[r] \in {"stream", "event"}
                                => pc[r] \in {"stream", "event"}
        BY <1>8 DEF Crash, locals
    <2>2. QED
        BY <1>3, <2>1
<1>9. QED
    BY <1>5, <1>6, <1>7, <1>8 DEF Next, RunStep, Beating, Cancel

LEMMA LeastNumber ==
    ASSUME NEW S \in SUBSET Nat, S # {}
    PROVE  \E m \in S : \A k \in S : m <= k
<1> DEFINE R == OpToRel(<, Nat)
<1>1. IsWellFoundedOn(R, Nat)
    BY NatLessThanWellFounded
<1>2. \A j, k \in Nat : j < k => <<j, k>> \in R
    BY DEF OpToRel
<1> HIDE DEF R
<1>3. \E m \in S : \A k \in S : ~(<<k, m>> \in R)
    BY <1>1, WFMin
<1>4. PICK m \in S : \A k \in S : <<k, m>> \notin R
    BY <1>3
<1>5. ASSUME NEW k \in S PROVE m <= k
    <2>1. k \in Nat /\ m \in Nat /\ ~(k < m)
        BY <1>2, <1>4
    <2>2. QED
        BY <2>1
<1>6. QED
    BY <1>5

(* What the reducer puts out has a window of messages behind it: of those  *)
(* it puts out, take the last.                                             *)
LEMMA WindowFull ==
    ASSUME NEW h \in History, NEW m \in h.kept, m \notin Windowed(h).kept
    PROVE  ~m.lasts /\ Cardinality(After(Windowed(h), m)) >= Window
<1> DEFINE out == {x \in h.kept : ~(x.lasts \/ Cardinality(After(h, x)) < Window)}
           behind == {Cardinality(After(h, x)) : x \in {y \in out : y.at >= m.at}}
<1>1. h.kept \subseteq Message /\ IsFiniteSet(h.kept)
    BY DEF History
<1>2. \A x \in h.kept : IsFiniteSet(After(h, x)) /\ Cardinality(After(h, x)) \in Nat
    BY <1>1, FS_Subset, FS_CardinalityType DEF After
<1>3. m \in out /\ m.at \in Nat
    BY <1>1 DEF Windowed, Message
<1>4. behind \in SUBSET Nat /\ behind # {}
    BY <1>2, <1>3
<1>5. PICK least \in behind : \A k \in behind : least <= k
    BY <1>4, LeastNumber
<1>6. PICK x \in out : x.at >= m.at /\ Cardinality(After(h, x)) = least
    BY <1>5
<1>7. After(h, x) \subseteq Windowed(h).kept
    <2> SUFFICES ASSUME NEW y \in After(h, x), y \notin Windowed(h).kept PROVE FALSE
        OBVIOUS
    <2>1. y \in h.kept /\ y.at > x.at /\ x.at \in Nat /\ y.at \in Nat /\ x \in h.kept
        BY <1>1 DEF After, Message
    <2>2. y \in out /\ y.at >= m.at
        BY <1>3, <1>6, <2>1 DEF Windowed
    <2>3. Cardinality(After(h, y)) \in behind
        BY <2>2
    <2>4. After(h, y) \subseteq After(h, x) /\ y \in After(h, x) /\ y \notin After(h, y)
        BY <1>1, <2>1 DEF After, Message
    <2>5. /\ Cardinality(After(h, y)) <= Cardinality(After(h, x))
          /\ Cardinality(After(h, y)) # Cardinality(After(h, x))
        BY <1>2, <2>1, <2>4, FS_Subset
    <2>6. least <= Cardinality(After(h, y))
        BY <1>5, <2>3
    <2> HIDE DEF behind
    <2>7. QED
        BY <1>2, <1>6, <2>1, <2>5, <2>6
<1>8. After(h, x) \subseteq After(Windowed(h), m)
    BY <1>1, <1>3, <1>6, <1>7 DEF After, Message
<1>9. IsFiniteSet(After(Windowed(h), m))
    <2>1. After(Windowed(h), m) \subseteq h.kept
        BY DEF After, Windowed
    <2>2. QED
        BY <1>1, <2>1, FS_Subset
<1>10. Cardinality(After(h, x)) <= Cardinality(After(Windowed(h), m))
    BY <1>8, <1>9, FS_Subset
<1>11. x \in h.kept /\ ~(Cardinality(After(h, x)) < Window)
    BY <1>6
<1>12. Cardinality(After(Windowed(h), m)) \in Nat
    BY <1>9, FS_CardinalityType
<1>13. QED
    BY <1>2, <1>3, <1>10, <1>11, <1>12, WindowAssumption

(* What MessagesKept says of a step.                                       *)
Displaced ==
    \A m \in ckpt.msgs.kept \ ckpt'.msgs.kept :
        ~m.lasts /\ Cardinality(After(ckpt'.msgs, m)) >= Window

LEMMA MessagesStep ==
    HoldInv /\ Snapshots /\ [Next]_vars
        => [AllServed => Displaced]_vars
<1> SUFFICES ASSUME HoldInv, Snapshots, Next, AllServed
             PROVE Displaced
    OBVIOUS
<1>1. TypeOK
    BY DEF HoldInv
<1>a. ASSUME NEW h \in History, ckpt'.msgs = Windowed(h), ckpt.msgs.kept \subseteq h.kept
      PROVE Displaced
    BY <1>a, WindowFull DEF Displaced
<1>b. ASSUME ckpt'.msgs = ckpt.msgs PROVE Displaced
    BY <1>b DEF Displaced
<1>2. ASSUME NEW q \in Run, NodeRuns(q) PROVE Displaced
    <2>1. PICK h \in Spoken(q) : ckpt' = [status |-> "RUNNING", msgs |-> h, current |-> TRUE]
        BY <1>2 DEF NodeRuns
    <2>2. ckpt'.msgs = h /\ mem[q] = ckpt.msgs
        BY <1>2, <2>1 DEF NodeRuns, Snapshots
    <2>3. CASE h = mem[q]
        BY <1>b, <2>2, <2>3
    <2>4. CASE \E g \in History : h = Windowed(g) /\ mem[q].kept \subseteq g.kept
        BY <1>a, <2>2, <2>4
    <2>5. QED
        BY <1>1, <2>3, <2>4, SpokenTyped
<1>3. ASSUME NEW q \in Run, Start(q) PROVE Displaced
    <2>1. ckpt'.msgs = Merged(q)
        BY <1>3 DEF Start
    <2>2. QED
        BY <1>1, <1>a, <2>1, MergedTyped
<1>4. ASSUME NEW q \in Run,
             Refuse(q) \/ Reset(q) \/ Complete(q) \/ Mark(q)
      PROVE Displaced
    <2>1. \/ ckpt' = ckpt \/ ckpt' = [ckpt EXCEPT !.current = TRUE]
          \/ \E v \in Status : ckpt' = [ckpt EXCEPT !.status = v]
        <3>1. verdict[q] \in Status /\ "COMPLETED" \in Status
            BY <1>1 DEF TypeOK, Status
        <3>2. QED
            BY <3>1, <1>4 DEF Refuse, Reset, Complete, Mark, PutMarker
    <2>2. QED
        BY <1>1, <1>b, <2>1 DEF TypeOK
<1>5. ASSUME UNCHANGED ckpt PROVE Displaced
    BY <1>b, <1>5
<1>6. ASSUME NEW q \in Run,
             \/ Arrive(q) \/ ReadPrior(q) \/ ReadFails(q) \/ IsRefused(q)
             \/ ClearFlag(q) \/ OverBudget(q) \/ ReadFlag(q) \/ ReadFlagFails(q)
             \/ StreamEnds(q) \/ StreamFails(q) \/ CancelStream(q) \/ CancelElse(q)
             \/ CancelMark(q) \/ CancelRelease(q) \/ Acquire(q) \/ AcquireBlind(q)
             \/ StopBeating(q) \/ Release(q) \/ CancelBefore(q) \/ Beating(q)
      PROVE Displaced
    BY <1>5, <1>6 DEF saved, Arrive, ReadPrior, ReadFails, IsRefused, ClearFlag,
        OverBudget, ReadFlag, ReadFlagFails, StreamEnds, StreamFails, CancelStream,
        CancelElse, CancelMark, CancelRelease, Acquire, AcquireBlind, StopBeating,
        Release, CancelBefore, Beating, Renew, RenewFails
<1>7. CASE Tick \/ Stop \/ FlagExpires \/ Crash
    BY <1>5, <1>7 DEF Tick, Stop, FlagExpires, Crash, saved
<1>8. QED
    BY <1>2, <1>3, <1>4, <1>6, <1>7 DEF Next, RunStep, Cancel

(* While Redis serves every run, a message leaves the checkpoint only when *)
(* it is no milestone and a window of messages has come in behind it, for  *)
(* any window (messages_reducer, the stream's channels).                   *)
THEOREM KeepsMessages == Spec => MessagesKept
<1>1. Init => Snapshots
    BY DEF Init, Snapshots
<1>2. HoldInv /\ Snapshots /\ [Next]_vars => Snapshots'
    BY SnapshotsStep
<1>3. HoldInv /\ Snapshots /\ [Next]_vars
        => [(\A r \in Run : ~Unserved(r))
              => \A m \in ckpt.msgs.kept \ ckpt'.msgs.kept :
                     ~m.lasts /\ Cardinality(After(ckpt'.msgs, m)) >= Window]_vars
    BY MessagesStep DEF AllServed, Displaced
<1>4. QED
    BY <1>1, <1>2, <1>3, HoldInvariant, PTL DEF Spec, MessagesKept
===============================================================================
