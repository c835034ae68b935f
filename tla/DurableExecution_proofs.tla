----------------------- MODULE DurableExecution_proofs -----------------------
(***************************************************************************)
(* Proofs about DurableExecution, for every number of attempts, executors, *)
(* keys and architectures and every lease and timeout that satisfies the   *)
(* assumptions of the module.                                              *)
(***************************************************************************)
EXTENDS DurableExecution, TLAPS

USE DEF Lapsed

-----------------------------------------------------------------------------
(* The types are inductive on their own.                                   *)

LEMMA InitTypeOK == Init => TypeOK
  BY MappingAssumption, BoundAssumption, NoneAssumption
  DEF Init, TypeOK, NoRow, Row, PC, Status

LEMMA RecordedType ==
  ASSUME NEW r \in Row, NEW form \in {"none", "raw", "normalized"}
  PROVE  Recorded(r, form) \in Row
  BY BoundAssumption DEF Recorded, Row

LEMMA FreedType == ASSUME NEW r \in Row PROVE Freed(r) \in Row
  BY RecordedType DEF Freed, Row

LEMMA ExecutorTypeOK ==
  ASSUME TypeOK, NEW e \in Executor, ExecutorStep(e) \/ Disruption(e)
  PROVE  TypeOK'
<1> USE BoundAssumption, MappingAssumption
<1>1. CASE StartExecutor(e)
  BY <1>1 DEF TypeOK, StartExecutor, store, ghost
<1>2. CASE StartWave(e)
  <2>1. pc' \in [Attempt -> PC]
    BY <1>2 DEF TypeOK, StartWave, PC, Running
  <2> QED BY <1>2, <2>1 DEF TypeOK, StartWave, store, exec, ghost
<1>3. CancelWave(e) => /\ row' \in [Key -> Row]
                       /\ pc' \in [Attempt -> PC]
                       /\ outcome' \in [Attempt -> Status]
  <2> SUFFICES ASSUME CancelWave(e)
               PROVE  /\ row' \in [Key -> Row]
                      /\ pc' \in [Attempt -> PC]
                      /\ outcome' \in [Attempt -> Status]
    OBVIOUS
  <2>1. PICK freed : row' = [k \in Key |-> IF k \in freed THEN Freed(row[k])
                                                       ELSE row[k]]
    BY DEF CancelWave
  <2>2. \A k \in Key : row[k] \in Row /\ Freed(row[k]) \in Row
    BY FreedType DEF TypeOK
  <2>3. row' \in [Key -> Row]
    BY <2>1, <2>2
  <2>4. pc' \in [Attempt -> PC]
    BY DEF CancelWave, TypeOK, PC
  <2>5. outcome' \in [Attempt -> Status]
    BY DEF CancelWave, TypeOK, Status
  <2> QED BY <2>3, <2>4, <2>5
<1>4. CASE GlobalTimeoutFires(e)
  BY <1>3, <1>4 DEF TypeOK, GlobalTimeoutFires, CancelWave, ghost
<1>5. CASE CancelInvocation(e)
  BY <1>3, <1>5 DEF TypeOK, CancelInvocation, CancelWave, ghost
<1>6. CASE Crash(e)
  <2>1. pc' \in [Attempt -> PC]
    BY <1>6 DEF TypeOK, Crash, PC
  <2> QED BY <1>6, <2>1 DEF TypeOK, Crash, store, ghost
<1> QED BY <1>1, <1>2, <1>4, <1>5, <1>6 DEF ExecutorStep, Disruption

LEMMA LedgerTypeOK ==
  ASSUME TypeOK, NEW a \in Attempt, LedgerStep(a)
  PROVE  TypeOK'
<1> USE BoundAssumption, MappingAssumption
<1> USE DEF TypeOK, Goto, Return, AddCompleted, Fault, store, exec, ghost, PC,
            Running, Holding, Status
<1>0. KeyOf[a] \in Key /\ ExecOf[a] \in Executor /\ ClaimedBy(a) \in Row
  BY DEF ClaimedBy, Row, Fingerprint
<1>0a. CASE Unresolved(a) BY <1>0a DEF Unresolved
<1>1. CASE IdempotentSkip(a) BY <1>0, <1>1 DEF IdempotentSkip
<1>2. CASE Begin(a) BY <1>0, <1>2 DEF Begin
<1>3. CASE FindReplay(a) BY <1>0, <1>3 DEF FindReplay
<1>4. CASE FindNothing(a) BY <1>0, <1>4 DEF FindNothing
<1>5. CASE FindDegraded(a) BY <1>0, <1>5 DEF FindDegraded
<1>6. CASE ClaimWon(a) BY <1>0, <1>6 DEF ClaimWon
<1>7. CASE ClaimLost(a) BY <1>0, <1>7 DEF ClaimLost
<1>8. CASE ClaimDegraded(a) BY <1>0, <1>8 DEF ClaimDegraded
<1>9. CASE RecheckReplay(a) BY <1>0, <1>9 DEF RecheckReplay
<1>10. CASE RecheckConflict(a) BY <1>0, <1>10 DEF RecheckConflict
<1>11. CASE RecheckDegraded(a) BY <1>0, <1>11 DEF RecheckDegraded
<1>12. CASE TakeSlot(a) BY <1>0, <1>12 DEF TakeSlot
<1> QED BY <1>0a, <1>1, <1>2, <1>3, <1>4, <1>5, <1>6, <1>7, <1>8, <1>9, <1>10,
           <1>11, <1>12 DEF LedgerStep

LEMMA CallTypeOK ==
  ASSUME TypeOK, NEW a \in Attempt, CallStep(a)
  PROVE  TypeOK'
<1> USE BoundAssumption, MappingAssumption
<1> USE DEF TypeOK, Goto, Return, AddCompleted, Fault, store, exec, ghost, PC,
            Running, Holding, Status
<1>0. /\ KeyOf[a] \in Key /\ ExecOf[a] \in Executor /\ Fingerprint(a) \in Arch
      /\ ReleaseRow(a) => row' \in [Key -> Row]
      /\ \A form \in {"raw", "normalized"} : CompleteRow(a, form) => row' \in [Key -> Row]
      /\ \A status \in Status : RetryOr(a, status) =>
            /\ tries' \in [Attempt -> 0 .. MaxRetries]
            /\ pc' \in [Attempt -> PC]
            /\ outcome' \in [Attempt -> Status]
  <2>1. KeyOf[a] \in Key /\ ExecOf[a] \in Executor /\ Fingerprint(a) \in Arch
    BY DEF Fingerprint
  <2>2. ReleaseRow(a) => row' \in [Key -> Row]
    BY <2>1, FreedType DEF ReleaseRow
  <2>3. ASSUME NEW form \in {"raw", "normalized"}, CompleteRow(a, form)
        PROVE  row' \in [Key -> Row]
    BY <2>1, <2>3, RecordedType DEF CompleteRow
  <2>4. ASSUME NEW status \in Status, RetryOr(a, status)
        PROVE  /\ tries' \in [Attempt -> 0 .. MaxRetries]
               /\ pc' \in [Attempt -> PC]
               /\ outcome' \in [Attempt -> Status]
    BY <2>1, <2>4 DEF RetryOr, TaskRetries
  <2> QED BY <2>1, <2>2, <2>3, <2>4
<1>1. CASE Refuse(a) BY <1>0, <1>1 DEF Refuse
<1>2. CASE FirstRelease(a) BY <1>0, <1>2 DEF FirstRelease
<1>3. CASE CacheHit(a) BY <1>0, <1>3 DEF CacheHit
<1>4. CASE CompleteReuse(a) BY <1>0, <1>4 DEF CompleteReuse
<1>5. CASE StartCall(a) BY <1>0, <1>5 DEF StartCall
<1>6. CASE CallSucceeds(a) BY <1>0, <1>6 DEF CallSucceeds
<1>7. CASE CallRejected(a) BY <1>0, <1>7 DEF CallRejected, NotFired
<1>8. CASE OutputRejected(a) BY <1>0, <1>8 DEF OutputRejected
<1>9. CASE CallTransient(a) BY <1>0, <1>9 DEF CallTransient, NotFired
<1>10. CASE CallTimesOut(a) BY <1>0, <1>10 DEF CallTimesOut
<1>11. CASE CachePut(a) BY <1>0, <1>11 DEF CachePut
<1>12. CASE Complete(a) BY <1>0, <1>12 DEF Complete
<1>13. CASE Register(a) BY <1>0, <1>13 DEF Register
<1>14. CASE Release(a) BY <1>0, <1>14 DEF Release
<1> QED BY <1>1, <1>2, <1>3, <1>4, <1>5, <1>6, <1>7, <1>8, <1>9, <1>10, <1>11,
           <1>12, <1>13, <1>14 DEF CallStep

LEMMA TickTypeOK == TypeOK /\ Tick => TypeOK'
<1> SUFFICES ASSUME TypeOK, Tick PROVE TypeOK'
  OBVIOUS
<1>1. row' \in [Key -> Row]
  <2>1. \A k \in Key : row[k] \in Row
                       /\ [row[k] EXCEPT !.ttl = IF @ = Lapsed THEN @ ELSE @ - 1] \in Row
    BY SMTT(20), BoundAssumption DEF TypeOK, Row
  <2> QED BY <2>1 DEF Tick
<1>2. left' \in [Executor -> 0 .. GlobalTimeout]
  BY BoundAssumption DEF Tick, TypeOK
<1> QED BY <1>1, <1>2 DEF Tick, TypeOK, ghost

(* Every state of every behaviour is well typed.                           *)
THEOREM TypeCorrect == Spec => []TypeOK
<1>1. TypeOK /\ [Next]_vars => TypeOK'
  <2> SUFFICES ASSUME TypeOK, [Next]_vars PROVE TypeOK'
    OBVIOUS
  <2>1. CASE \E e \in Executor : ExecutorStep(e) \/ Disruption(e)
    BY <2>1, ExecutorTypeOK
  <2>2. CASE \E a \in Attempt : LedgerStep(a) \/ CallStep(a)
    BY <2>2, LedgerTypeOK, CallTypeOK
  <2>3. CASE Tick
    BY <2>3, TickTypeOK
  <2>4. CASE UNCHANGED vars
    BY <2>4 DEF vars, TypeOK, ghost
  <2> QED BY <2>1, <2>2, <2>3, <2>4 DEF Next, Terminated
<1> QED BY InitTypeOK, <1>1, PTL DEF Spec

-----------------------------------------------------------------------------
(* The inductive invariant of the safety properties.                       *)

(* A row with a result is out of every claim.                              *)
RowShape == \A k \in Key : row[k].result # "none"
                           => row[k].token = None /\ row[k].ttl = Lapsed

(* A protected claim is the one on the row, and outlives the plan.         *)
ClaimsHeld == \A a \in Attempt : Protected(a)
                => /\ row[KeyOf[a]].token = a
                   /\ left[ExecOf[a]] <= row[KeyOf[a]].ttl

(* Nothing runs before its executor, nor claims before its claim.          *)
Unclaimed == {"idle", "begin", "find", "claim"}
FreshStart == \A a \in Attempt :
                /\ mode[ExecOf[a]] = "new" => pc[a] = "idle"
                /\ pc[a] \in Unclaimed => a \notin durable

IInv == /\ TypeOK
        /\ RowShape
        /\ ClaimsHeld
        /\ FreshStart
        /\ ReplayedWasRecorded

LEMMA InitIInv == Init => IInv
<1> SUFFICES ASSUME Init PROVE IInv
  OBVIOUS
<1>1. TypeOK
  BY InitTypeOK
<1>2. RowShape
  BY DEF Init, RowShape, NoRow
<1>3. ClaimsHeld
  BY DEF Init, ClaimsHeld, Protected, Holding
<1>4. FreshStart
  BY DEF Init, FreshStart
<1>5. ReplayedWasRecorded
  BY DEF Init, ReplayedWasRecorded
<1> QED BY <1>1, <1>2, <1>3, <1>4, <1>5 DEF IInv

(* What holds of the rows when some of them are freed by a cancellation.   *)
LEMMA CancelWaveInv ==
  ASSUME IInv, NEW e \in Executor, CancelWave(e),
         \A d \in Executor : mode'[d] \in {mode[d], "late"}
  PROVE  RowShape' /\ ClaimsHeld' /\ FreshStart' /\ ReplayedWasRecorded'
<1> USE DEF IInv
<1>1. PICK freed \in SUBSET {KeyOf[b] : b \in {c \in InFlight(e) :
                               pc[c] \in {"reject", "release"} /\ OwnsRow(c)}} :
        row' = [k \in Key |-> IF k \in freed THEN Freed(row[k]) ELSE row[k]]
  BY DEF CancelWave
<1>2. \A k \in freed : \E b \in InFlight(e) : row[k].token = b
  BY <1>1 DEF OwnsRow
<1>3. \A k \in Key : row[k].result # "none" => k \notin freed
  BY <1>2, NoneAssumption DEF RowShape, InFlight
<1>4. \A k \in Key : row[k].result # "none" => row'[k] = row[k]
  BY <1>1, <1>3
<1>5. RowShape'
  BY <1>1, <1>4 DEF RowShape, Freed, Recorded
<1>6. ClaimsHeld'
  <2> SUFFICES ASSUME NEW a \in Attempt, Protected(a)'
               PROVE  /\ row'[KeyOf[a]].token = a
                      /\ left'[ExecOf[a]] <= row'[KeyOf[a]].ttl
    BY DEF ClaimsHeld
  <2>1. ExecOf[a] \in Executor /\ KeyOf[a] \in Key
    BY MappingAssumption
  <2>2. pc'[a] = pc[a] /\ a \notin InFlight(e) /\ Protected(a)
    BY <2>1 DEF Protected, CancelWave, Holding, ghost
  <2>3. KeyOf[a] \notin freed
    BY <1>2, <2>1, <2>2 DEF ClaimsHeld
  <2> QED BY <1>1, <2>1, <2>2, <2>3 DEF ClaimsHeld, CancelWave
<1>7. FreshStart'
  <2> SUFFICES ASSUME NEW a \in Attempt
               PROVE  /\ mode'[ExecOf[a]] = "new" => pc'[a] = "idle"
                      /\ pc'[a] \in Unclaimed => a \notin durable'
    BY DEF FreshStart
  <2> QED BY MappingAssumption
          DEF FreshStart, CancelWave, ghost, Unclaimed, InFlight, Running, Holding
<1>8. ReplayedWasRecorded'
  BY <1>4, MappingAssumption
  DEF ReplayedWasRecorded, Replayable, CancelWave, ghost, Fingerprint, TypeOK
<1> QED BY <1>5, <1>6, <1>7, <1>8

LEMMA ExecutorInv ==
  ASSUME IInv, NEW e \in Executor, ExecutorStep(e) \/ Disruption(e)
  PROVE  RowShape' /\ ClaimsHeld' /\ FreshStart' /\ ReplayedWasRecorded'
<1> USE DEF IInv
<1>1. CASE StartExecutor(e)
  BY <1>1, MappingAssumption
  DEF StartExecutor, store, ghost, RowShape, ClaimsHeld, Protected, Holding,
      FreshStart, ReplayedWasRecorded, Replayable, Fingerprint, TypeOK
<1>2. CASE StartWave(e)
  BY <1>2, MappingAssumption
  DEF StartWave, store, exec, ghost, RowShape, ClaimsHeld, Protected, Holding,
      FreshStart, Unclaimed, Waiting, ReplayedWasRecorded, Replayable,
      Fingerprint, TypeOK
<1>3. CASE GlobalTimeoutFires(e)
  <2>1. \A d \in Executor : mode'[d] \in {mode[d], "late"}
    BY <1>3 DEF GlobalTimeoutFires, TypeOK
  <2> QED BY <1>3, <2>1, CancelWaveInv DEF GlobalTimeoutFires
<1>4. CASE CancelInvocation(e)
  BY <1>4, CancelWaveInv DEF CancelInvocation
<1>5. CASE Crash(e)
  BY <1>5, MappingAssumption
  DEF Crash, store, ghost, RowShape, ClaimsHeld, Protected, Holding,
      FreshStart, Unclaimed, ReplayedWasRecorded, Replayable, Fingerprint, TypeOK
<1> QED BY <1>1, <1>2, <1>3, <1>4, <1>5 DEF ExecutorStep, Disruption

(* A step of one task.  What each action does to the row, if anything,    *)
(* decides: claims need a row that nobody protects, completions and       *)
(* releases need the task's own token.                                    *)
LEMMA LedgerInv ==
  ASSUME IInv, NEW a \in Attempt, LedgerStep(a)
  PROVE  RowShape' /\ ClaimsHeld' /\ FreshStart' /\ ReplayedWasRecorded'
<1> USE MappingAssumption DEF IInv
<1>0. KeyOf[a] \in Key /\ ExecOf[a] \in Executor
  OBVIOUS
<1> DEFINE Quiet == /\ UNCHANGED <<row, exec, durable>>
                    /\ pc' \in [Attempt -> PC]
                    /\ \A b \in Attempt : b # a => pc'[b] = pc[b]
                    /\ pc[a] # "idle"
                    /\ pc'[a] \notin Holding \/ pc[a] \in Holding
                    /\ pc'[a] \in Unclaimed => pc[a] \in Unclaimed
                    /\ \A b \in replayed' : b \in replayed \/ Replayable(b)
<1>1. ASSUME Quiet
      PROVE  RowShape' /\ ClaimsHeld' /\ FreshStart' /\ ReplayedWasRecorded'
  <2>1. RowShape'
    BY <1>1 DEF RowShape
  <2>2. ClaimsHeld'
    BY <1>1 DEF ClaimsHeld, Protected, exec
  <2>3. FreshStart'
    BY <1>1 DEF FreshStart, exec, Unclaimed
  <2>4. ReplayedWasRecorded'
    BY <1>1 DEF ReplayedWasRecorded, Replayable, Fingerprint
  <2> QED BY <2>1, <2>2, <2>3, <2>4
<1>2. ASSUME /\ pc[a] = "claim"
             /\ Claimable(KeyOf[a])
             /\ row' = [row EXCEPT ![KeyOf[a]] = ClaimedBy(a)]
             /\ durable' = durable \cup {a}
             /\ Goto(a, "slot")
             /\ UNCHANGED <<exec, replayed>>
      PROVE  RowShape' /\ ClaimsHeld' /\ FreshStart' /\ ReplayedWasRecorded'
  <2>1. RowShape'
    BY <1>0, <1>2 DEF RowShape, ClaimedBy, Claimable, TypeOK
  <2>2. ClaimsHeld'
    <3> SUFFICES ASSUME NEW b \in Attempt, Protected(b)'
                 PROVE  /\ row'[KeyOf[b]].token = b
                        /\ left'[ExecOf[b]] <= row'[KeyOf[b]].ttl
      BY DEF ClaimsHeld
    <3>1. CASE b = a
      BY <1>0, <1>2, <3>1, LeaseCoversPlan, BoundAssumption
      DEF ClaimedBy, TypeOK, exec
    <3>2. CASE b # a
      <4>1. Protected(b)
        BY <1>2, <3>2 DEF Protected, Goto, exec, TypeOK
      <4>2. row[KeyOf[b]].token = b /\ 0 <= row[KeyOf[b]].ttl
        <5>1. left[ExecOf[b]] \in 0 .. GlobalTimeout /\ row[KeyOf[b]] \in Row
          BY DEF TypeOK
        <5> QED BY <4>1, <5>1, BoundAssumption DEF ClaimsHeld, Row
      <4>3. KeyOf[b] # KeyOf[a]
        BY <1>2, <4>2, NoneAssumption DEF Claimable
      <4> QED BY <1>0, <1>2, <4>1, <4>3 DEF ClaimsHeld, exec, TypeOK
    <3> QED BY <3>1, <3>2
  <2>3. FreshStart'
    BY <1>2 DEF FreshStart, Goto, exec, Unclaimed, TypeOK
  <2>4. ReplayedWasRecorded'
    BY <1>0, <1>2 DEF ReplayedWasRecorded, Replayable, Fingerprint, Claimable, TypeOK
  <2> QED BY <2>1, <2>2, <2>3, <2>4
<1> USE DEF Goto, Return, store, ghost, Holding, Unclaimed, PC, Running, TypeOK
<1>2a. CASE Unresolved(a) BY <1>1, <1>2a DEF Unresolved
<1>3. CASE IdempotentSkip(a) BY <1>1, <1>3 DEF IdempotentSkip
<1>4. CASE Begin(a) BY <1>1, <1>4 DEF Begin
<1>5. CASE FindReplay(a) BY <1>1, <1>5 DEF FindReplay
<1>6. CASE FindNothing(a) BY <1>1, <1>6 DEF FindNothing
<1>7. CASE FindDegraded(a) BY <1>1, <1>7 DEF FindDegraded
<1>8. CASE ClaimWon(a) BY <1>2, <1>8 DEF ClaimWon
<1>9. CASE ClaimLost(a) BY <1>1, <1>9 DEF ClaimLost
<1>10. CASE ClaimDegraded(a)
  <2>1. CASE UNCHANGED <<row, durable>>
    <3>1. a \notin durable
      BY <1>10 DEF ClaimDegraded, FreshStart
    <3>2. RowShape' /\ ReplayedWasRecorded'
      BY <1>10, <2>1 DEF ClaimDegraded, RowShape, ReplayedWasRecorded, Replayable,
                         Fingerprint
    <3>3. ClaimsHeld' /\ FreshStart'
      BY <1>10, <2>1, <3>1 DEF ClaimDegraded, ClaimsHeld, Protected, FreshStart, exec
    <3> QED BY <3>2, <3>3
  <2>2. CASE ~ UNCHANGED <<row, durable>>
    BY <1>2, <1>10, <2>2 DEF ClaimDegraded
  <2> QED BY <2>1, <2>2
<1>11. CASE RecheckReplay(a) BY <1>1, <1>11 DEF RecheckReplay
<1>12. CASE RecheckConflict(a) BY <1>1, <1>12 DEF RecheckConflict
<1>13. CASE RecheckDegraded(a) BY <1>1, <1>13 DEF RecheckDegraded
<1>14. CASE TakeSlot(a) BY <1>1, <1>14 DEF TakeSlot
<1> QED BY <1>2a, <1>3, <1>4, <1>5, <1>6, <1>7, <1>8, <1>9, <1>10, <1>11, <1>12,
           <1>13, <1>14 DEF LedgerStep

LEMMA CallInv ==
  ASSUME IInv, NEW a \in Attempt, CallStep(a)
  PROVE  RowShape' /\ ClaimsHeld' /\ FreshStart' /\ ReplayedWasRecorded'
<1> USE MappingAssumption DEF IInv
<1>0. KeyOf[a] \in Key /\ ExecOf[a] \in Executor /\ pc[a] \notin Unclaimed
  BY DEF CallStep, Refuse, FirstRelease, CacheHit, CompleteReuse, StartCall,
         CallSucceeds, CallRejected, OutputRejected, CallTransient, CallTimesOut,
         CachePut, Complete, Register, Release, Unclaimed
<1> DEFINE Local == /\ UNCHANGED <<exec, durable, replayed>>
                    /\ \A b \in Attempt : b # a => pc'[b] = pc[b]
                    /\ pc'[a] \notin Unclaimed
<1>1. ASSUME Local, UNCHANGED row, pc'[a] \in Holding => pc[a] \in Holding
      PROVE  RowShape' /\ ClaimsHeld' /\ FreshStart' /\ ReplayedWasRecorded'
  <2>1. RowShape' /\ ReplayedWasRecorded'
    BY <1>1 DEF RowShape, ReplayedWasRecorded, Replayable, Fingerprint
  <2>2. ClaimsHeld'
    BY <1>1 DEF ClaimsHeld, Protected, exec
  <2>3. FreshStart'
    BY <1>0, <1>1 DEF FreshStart, exec, Unclaimed
  <2> QED BY <2>1, <2>2, <2>3
<1>2. ASSUME Local, NEW form \in {"none", "raw", "normalized"}, OwnsRow(a),
             row' = [row EXCEPT ![KeyOf[a]] = Recorded(@, form)],
             pc'[a] \notin Holding
      PROVE  RowShape' /\ ClaimsHeld' /\ FreshStart' /\ ReplayedWasRecorded'
  <2>1. RowShape'
    BY <1>0, <1>2 DEF RowShape, Recorded, TypeOK
  <2>2. ClaimsHeld'
    BY <1>0, <1>2 DEF ClaimsHeld, Protected, OwnsRow, exec, TypeOK
  <2>3. FreshStart'
    BY <1>0, <1>2 DEF FreshStart, exec, Unclaimed
  <2>4. row[KeyOf[a]].result = "none"
    BY <1>0, <1>2, NoneAssumption DEF RowShape, OwnsRow
  <2>5. ReplayedWasRecorded'
    BY <1>0, <1>2, <2>4 DEF ReplayedWasRecorded, Replayable, Fingerprint, TypeOK
  <2> QED BY <2>1, <2>2, <2>3, <2>5
<1>3. ASSUME Local, NEW form \in {"raw", "normalized"}, pc'[a] \notin Holding,
             CompleteRow(a, form) \/ UNCHANGED row
      PROVE  RowShape' /\ ClaimsHeld' /\ FreshStart' /\ ReplayedWasRecorded'
  BY <1>1, <1>2, <1>3 DEF CompleteRow
<1>4. ASSUME Local, pc'[a] \notin Holding, ReleaseRow(a) \/ UNCHANGED row
      PROVE  RowShape' /\ ClaimsHeld' /\ FreshStart' /\ ReplayedWasRecorded'
  <2>1. CASE OwnsRow(a) /\ row' = [row EXCEPT ![KeyOf[a]] = Freed(@)]
    <3>1. row[KeyOf[a]].result \in {"none", "raw", "normalized"}
      BY <1>0 DEF TypeOK, Row
    <3>2. row' = [row EXCEPT ![KeyOf[a]] = Recorded(@, row[KeyOf[a]].result)]
      BY <1>0, <2>1 DEF Freed, TypeOK
    <3> QED BY <1>2, <1>4, <2>1, <3>1, <3>2
  <2>2. CASE UNCHANGED row
    BY <1>1, <1>4, <2>2
  <2> QED BY <1>4, <2>1, <2>2 DEF ReleaseRow
<1> USE DEF Goto, Return, store, ghost, Unclaimed, Holding, TypeOK
<1>5. CASE Refuse(a) BY <1>1, <1>5 DEF Refuse
<1>6. CASE FirstRelease(a) BY <1>4, <1>6 DEF FirstRelease
<1>7. CASE CacheHit(a) BY <1>1, <1>7 DEF CacheHit
<1>8. CASE CompleteReuse(a)
  BY <1>3, <1>8 DEF CompleteReuse
<1>9. CASE StartCall(a) BY <1>1, <1>9 DEF StartCall
<1>10. CASE CallSucceeds(a) BY <1>1, <1>10 DEF CallSucceeds
<1>11. CASE CallRejected(a) BY <1>1, <1>11 DEF CallRejected
<1>12. CASE OutputRejected(a) BY <1>1, <1>12 DEF OutputRejected
<1>13. CASE CallTransient(a) BY <1>1, <1>13 DEF CallTransient, RetryOr
<1>14. CASE CallTimesOut(a) BY <1>1, <1>14 DEF CallTimesOut, RetryOr
<1>15. CASE CachePut(a) BY <1>1, <1>15 DEF CachePut
<1>16. CASE Complete(a) BY <1>3, <1>16 DEF Complete
<1>17. CASE Register(a) BY <1>1, <1>17 DEF Register
<1>18. CASE Release(a) BY <1>4, <1>18 DEF Release
<1> QED BY <1>5, <1>6, <1>7, <1>8, <1>9, <1>10, <1>11, <1>12, <1>13, <1>14, <1>15,
           <1>16, <1>17, <1>18 DEF CallStep

LEMMA TickInv ==
  ASSUME IInv, Tick
  PROVE  RowShape' /\ ClaimsHeld' /\ FreshStart' /\ ReplayedWasRecorded'
<1> USE MappingAssumption DEF IInv
<1>1. \A k \in Key : /\ row'[k].result = row[k].result
                     /\ row'[k].token = row[k].token
                     /\ row'[k].arch = row[k].arch
                     /\ row'[k].ttl = IF row[k].ttl = Lapsed THEN Lapsed
                                                             ELSE row[k].ttl - 1
  BY DEF Tick, TypeOK, Row
<1>2. RowShape' /\ FreshStart' /\ ReplayedWasRecorded'
  <2>1. RowShape'
    BY <1>1 DEF RowShape
  <2>2. FreshStart'
    BY DEF FreshStart, Tick, ghost
  <2>3. ReplayedWasRecorded'
    BY <1>1 DEF ReplayedWasRecorded, Replayable, Fingerprint, Tick, ghost, TypeOK
  <2> QED BY <2>1, <2>2, <2>3
<1>3. ClaimsHeld'
  <2> SUFFICES ASSUME NEW a \in Attempt, Protected(a)'
               PROVE  /\ row'[KeyOf[a]].token = a
                      /\ left'[ExecOf[a]] <= row'[KeyOf[a]].ttl
    BY DEF ClaimsHeld
  <2>1. /\ ExecOf[a] \in Executor /\ KeyOf[a] \in Key
        /\ left[ExecOf[a]] \in 0 .. GlobalTimeout
        /\ row[KeyOf[a]].ttl \in -1 .. Lease
    BY DEF TypeOK, Row
  <2>2. Protected(a)
    BY DEF Protected, Tick, ghost
  <2>3. left[ExecOf[a]] > 0
    BY <2>1, <2>2 DEF Tick, Protected, InFlight, Running
  <2>4. left'[ExecOf[a]] = left[ExecOf[a]] - 1
    BY <2>1, <2>2, <2>3 DEF Tick, Protected
  <2> QED BY <1>1, <2>1, <2>2, <2>3, <2>4, BoundAssumption DEF ClaimsHeld
<1> QED BY <1>2, <1>3

-----------------------------------------------------------------------------
(* Theorems.                                                               *)

LEMMA NextIInv == IInv /\ [Next]_vars => IInv'
<1> SUFFICES ASSUME IInv, [Next]_vars PROVE IInv'
  OBVIOUS
<1>1. CASE \E e \in Executor : ExecutorStep(e) \/ Disruption(e)
  BY <1>1, ExecutorTypeOK, ExecutorInv DEF IInv
<1>2. CASE \E a \in Attempt : LedgerStep(a) \/ CallStep(a)
  BY <1>2, LedgerTypeOK, CallTypeOK, LedgerInv, CallInv DEF IInv
<1>3. CASE Tick
  BY <1>3, TickTypeOK, TickInv DEF IInv
<1>4. CASE UNCHANGED vars
  BY <1>4 DEF vars, ghost, IInv, TypeOK, RowShape, ClaimsHeld, Protected, FreshStart,
              ReplayedWasRecorded, Replayable, Fingerprint
<1> QED BY <1>1, <1>2, <1>3, <1>4 DEF Next, Terminated

LEMMA Invariance == Spec => []IInv
  BY InitIInv, NextIInv, PTL DEF Spec

(* Two protected tasks never call the tool at once for one key.            *)
THEOREM OneCaller == Spec => []OneCallerPerKey
<1>1. IInv => OneCallerPerKey
  BY DEF IInv, ClaimsHeld, OneCallerPerKey
<1> QED BY Invariance, <1>1, PTL

(* A protected call is never made over a recorded result.                  *)
THEOREM NoReexecution == Spec => []NoCallOnceCompleted
<1>1. IInv => NoCallOnceCompleted
  BY MappingAssumption, NoneAssumption
  DEF IInv, ClaimsHeld, RowShape, NoCallOnceCompleted, Protected
<1> QED BY Invariance, <1>1, PTL

(* What was replayed stays recorded under the reader's architecture.       *)
THEOREM ReplayIsFaithful == Spec => []ReplayedWasRecorded
<1>1. IInv => ReplayedWasRecorded
  BY DEF IInv
<1> QED BY Invariance, <1>1, PTL

-----------------------------------------------------------------------------
(* The only ways in which a row changes, whoever moves: time, a claim that *)
(* is won, and what the owner of the token writes.                         *)
Aged(k) == /\ row[k].ttl # Lapsed
           /\ row'[k] = [row[k] EXCEPT !.ttl = @ - 1]
Taken(k) == \E a \in Attempt : /\ KeyOf[a] = k
                               /\ Claimable(k)
                               /\ row'[k] = ClaimedBy(a)
Closed(k) == \E a \in Attempt : \E form \in {"none", "raw", "normalized"} :
                /\ KeyOf[a] = k
                /\ OwnsRow(a)
                /\ pc'[a] # pc[a]
                /\ row'[k] = Recorded(row[k], form)

LEMMA RowSteps ==
  ASSUME TypeOK, [Next]_vars, NEW k \in Key
  PROVE  row'[k] = row[k] \/ Aged(k) \/ Taken(k) \/ Closed(k)
<1> USE MappingAssumption
<1>1. ASSUME NEW e \in Executor, CancelWave(e)
      PROVE  row'[k] = row[k] \/ Closed(k)
  <2>1. PICK freed \in SUBSET {KeyOf[b] : b \in {c \in InFlight(e) :
                                 pc[c] \in {"reject", "release"} /\ OwnsRow(c)}} :
          row' = [l \in Key |-> IF l \in freed THEN Freed(row[l]) ELSE row[l]]
    BY <1>1 DEF CancelWave
  <2>2. CASE k \in freed
    <3>1. PICK b \in InFlight(e) : KeyOf[b] = k /\ OwnsRow(b)
      BY <2>1, <2>2
    <3>2. pc'[b] # pc[b] /\ b \in Attempt
      BY <1>1, <3>1 DEF CancelWave, InFlight, Running, Holding
    <3>3. row[k].result \in {"none", "raw", "normalized"}
      BY DEF TypeOK, Row
    <3>4. row'[k] = Recorded(row[k], row[k].result)
      BY <2>1, <2>2 DEF Freed
    <3> QED BY <3>1, <3>2, <3>3, <3>4 DEF Closed
  <2>3. CASE k \notin freed
    BY <2>1, <2>3
  <2> QED BY <2>2, <2>3
<1>2. ASSUME NEW e \in Executor, ExecutorStep(e) \/ Disruption(e)
      PROVE  row'[k] = row[k] \/ Closed(k)
  <2>1. CancelWave(e) \/ UNCHANGED row
    BY <1>2 DEF ExecutorStep, Disruption, StartExecutor, StartWave,
                GlobalTimeoutFires, CancelInvocation, Crash, store
  <2> QED BY <1>1, <2>1
<1>3. ASSUME NEW a \in Attempt, LedgerStep(a)
      PROVE  row'[k] = row[k] \/ Taken(k)
  <2>1. \/ UNCHANGED row
        \/ /\ Claimable(KeyOf[a])
           /\ row' = [row EXCEPT ![KeyOf[a]] = ClaimedBy(a)]
    BY <1>3 DEF LedgerStep, Unresolved, IdempotentSkip, Begin, FindReplay, FindNothing,
                FindDegraded, ClaimWon, ClaimLost, ClaimDegraded, RecheckReplay,
                RecheckConflict, RecheckDegraded, TakeSlot, store
  <2> QED BY <2>1 DEF Taken, TypeOK
<1>4. ASSUME NEW a \in Attempt, CallStep(a)
      PROVE  row'[k] = row[k] \/ Closed(k)
  <2>1. \/ UNCHANGED row
        \/ /\ \/ ReleaseRow(a)
              \/ \E form \in {"raw", "normalized"} : CompleteRow(a, form)
           /\ pc'[a] # pc[a]
    <3> USE DEF store, Goto, Return, TypeOK
    <3>1. CASE FirstRelease(a) BY <3>1 DEF FirstRelease
    <3>2. CASE CompleteReuse(a) BY <3>2 DEF CompleteReuse
    <3>3. CASE Complete(a) BY <3>3 DEF Complete
    <3>4. CASE Release(a) BY <3>4 DEF Release
    <3> QED BY <1>4, <3>1, <3>2, <3>3, <3>4
            DEF CallStep, Refuse, CacheHit, StartCall, CallSucceeds, CallRejected,
                OutputRejected, CallTransient, CallTimesOut, CachePut, Register
  <2>2. ASSUME NEW form \in {"none", "raw", "normalized"}, OwnsRow(a), pc'[a] # pc[a],
               row' = [row EXCEPT ![KeyOf[a]] = Recorded(@, form)]
        PROVE  row'[k] = row[k] \/ Closed(k)
    BY <2>2 DEF Closed, TypeOK
  <2>3. ASSUME ReleaseRow(a), pc'[a] # pc[a]
        PROVE  row'[k] = row[k] \/ Closed(k)
    <3>1. row[KeyOf[a]].result \in {"none", "raw", "normalized"}
      BY DEF TypeOK, Row
    <3>2. \/ UNCHANGED row
          \/ OwnsRow(a) /\ row' = [row EXCEPT ![KeyOf[a]] = Recorded(@, row[KeyOf[a]].result)]
      BY <2>3 DEF ReleaseRow, Freed, TypeOK
    <3> QED BY <2>2, <2>3, <3>1, <3>2
  <2>4. ASSUME NEW form \in {"raw", "normalized"}, CompleteRow(a, form), pc'[a] # pc[a]
        PROVE  row'[k] = row[k] \/ Closed(k)
    BY <2>2, <2>4 DEF CompleteRow
  <2> QED BY <2>1, <2>3, <2>4
<1>5. ASSUME Tick
      PROVE  row'[k] = row[k] \/ Aged(k)
  <2>1. row'[k] = [row[k] EXCEPT !.ttl = IF @ = Lapsed THEN @ ELSE @ - 1]
    BY <1>5 DEF Tick
  <2>2. row[k] \in Row
    BY DEF TypeOK
  <2>3. CASE row[k].ttl = Lapsed
    BY <2>1, <2>2, <2>3 DEF Row
  <2>4. CASE row[k].ttl # Lapsed
    BY <2>1, <2>4 DEF Aged
  <2> QED BY <2>3, <2>4
<1> QED BY <1>2, <1>3, <1>4, <1>5 DEF Next, Terminated, vars

(* A row with a result is left alone.                                      *)
LEMMA ResultStays ==
  ASSUME IInv, [Next]_vars, NEW k \in Key, row[k].result # "none"
  PROVE  row'[k] = row[k]
<1>1. row[k].token = None /\ row[k].ttl = Lapsed
  BY DEF IInv, RowShape
<1>2. ~Aged(k) /\ ~Taken(k)
  BY <1>1 DEF Aged, Taken, Claimable
<1>3. ~Closed(k)
  BY <1>1, NoneAssumption DEF Closed, OwnsRow
<1> QED BY <1>2, <1>3, RowSteps DEF IInv

(* A recorded result is never overwritten, freed or claimed again.         *)
THEOREM ResultsAreFinal == Spec => CompletedIsFinal
<1>1. IInv /\ [Next]_vars
        => [\A k \in Key : row[k].result # "none" => row'[k] = row[k]]_vars
  BY ResultStays
<1> QED BY Invariance, <1>1, PTL DEF Spec, CompletedIsFinal

(* A claim with a live lease ends only by a step of the task that owns it. *)
THEOREM ClaimsStand == Spec => LiveClaimStands
<1>1. ASSUME IInv, [Next]_vars, NEW a \in Attempt,
             OwnsRow(a), row[KeyOf[a]].ttl # Lapsed
      PROVE  OwnsRow(a)' \/ pc'[a] # pc[a]
  <2>1. KeyOf[a] \in Key /\ row[KeyOf[a]] \in Row
    BY <1>1, MappingAssumption DEF IInv, TypeOK
  <2>2. CASE Aged(KeyOf[a])
    BY <1>1, <2>1, <2>2 DEF Aged, OwnsRow, Row
  <2>3. CASE Taken(KeyOf[a])
    BY <1>1, <2>3, NoneAssumption DEF Taken, Claimable, OwnsRow
  <2>4. CASE Closed(KeyOf[a])
    BY <1>1, <2>4 DEF Closed, OwnsRow
  <2>5. CASE row'[KeyOf[a]] = row[KeyOf[a]]
    BY <1>1, <2>5 DEF OwnsRow
  <2> QED BY <1>1, <2>1, <2>2, <2>3, <2>4, <2>5, RowSteps DEF IInv
<1>2. IInv /\ [Next]_vars
        => [\A a \in Attempt : OwnsRow(a) /\ row[KeyOf[a]].ttl # Lapsed
                               => OwnsRow(a)' \/ pc'[a] # pc[a]]_vars
  BY <1>1
<1> QED BY Invariance, <1>2, PTL DEF Spec, LiveClaimStands

(* The rows, read as phases and holders, implement the ledger's contract.  *)
THEOREM LedgerImplementsContract == Spec => ImplementsContract
<1> DEFINE phase(k) == CASE row[k].result # "none" -> "done"
                         [] row[k].result = "none" /\ row[k].token = None -> "open"
                         [] row[k].result = "none" /\ row[k].token # None
                               -> IF row[k].ttl = Lapsed THEN "lapsed" ELSE "held"
<1>1. Init => Contract!Init
  BY DEF Init, Contract!Init, NoRow
<1>2. ASSUME IInv, [Next]_vars, NEW k \in Key
      PROVE  \/ phase(k)' = phase(k) /\ row'[k].token = row[k].token
             \/ /\ phase(k) \in {"open", "lapsed"} /\ phase(k)' = "held"
                /\ row'[k].token \in Attempt
             \/ /\ phase(k) = "held" /\ phase(k)' = "lapsed"
                /\ row'[k].token = row[k].token
             \/ /\ phase(k) \in {"held", "lapsed"} /\ phase(k)' \in {"done", "open"}
                /\ row'[k].token = None
  <2>1. row[k] \in Row /\ row'[k] \in Row
    BY <1>2, NextIInv DEF IInv, TypeOK
  <2>2. CASE Aged(k)
    <3>1. /\ row'[k].result = row[k].result /\ row'[k].token = row[k].token
          /\ row'[k].ttl = row[k].ttl - 1 /\ row[k].ttl # Lapsed
      BY <2>1, <2>2 DEF Aged, Row
    <3> QED BY <3>1
  <2>3. CASE Taken(k)
    BY <2>3, BoundAssumption, NoneAssumption DEF Taken, Claimable, ClaimedBy
  <2>4. CASE Closed(k)
    <3>1. row[k].token # None
      BY <2>4, NoneAssumption DEF Closed, OwnsRow
    <3>2. row[k].result = "none"
      BY <1>2, <3>1 DEF IInv, RowShape
    <3>3. row'[k].token = None
      BY <2>4 DEF Closed, Recorded
    <3> QED BY <3>1, <3>2, <3>3
  <2>5. CASE row'[k] = row[k]
    BY <2>5
  <2> QED BY <1>2, <2>2, <2>3, <2>4, <2>5, RowSteps DEF IInv
<1>3. IInv /\ [Next]_vars => Contract!Next
  <2> SUFFICES ASSUME IInv, [Next]_vars, NEW k \in Key
               PROVE  Contract!KeyStep(k) \/ Contract!Idle(k)
    BY DEF Contract!Next
  <2> QED BY <1>2 DEF Contract!KeyStep, Contract!Idle, Contract!Acquire,
                      Contract!Lapse, Contract!Finish, Contract!Free
<1> QED BY Invariance, <1>1, <1>3, PTL DEF Spec, ImplementsContract, Contract!Spec

-----------------------------------------------------------------------------
(* One success by a call for each key.  While the database answers, the    *)
(* task that has called the tool in an armed executor and comes to its     *)
(* success has recorded the result under its own claim, and no claim is    *)
(* won over a recorded result.                                             *)
Unfired == {"idle", "begin", "find", "claim", "recheck", "slot"}
Effected(a) == /\ a \in fired /\ mode[ExecOf[a]] = "armed"
               /\ pc[a] = "register" \/ outcome[a] = "success"

Paths == \A a \in Attempt : /\ pc[a] \in Unfired => a \notin fired
                            /\ outcome[a] = "success" => pc[a] = "done"
Reaches == faults = 0 => \A a \in Attempt : pc[a] \in Holding => a \in durable
Records == faults = 0 => \A a \in Attempt : Effected(a) => row[KeyOf[a]].result # "none"
Once == faults = 0 => \A a, b \in Attempt :
            a # b /\ KeyOf[a] = KeyOf[b] => ~(Effected(a) /\ Effected(b))

OnceInv == IInv /\ Paths /\ Reaches /\ Records /\ Once

(* A task comes to such a success over the row it owns.                    *)
EffectOnRow == faults' = 0 => \A a \in Attempt : Effected(a)' =>
                  \/ Effected(a)
                  \/ OwnsRow(a) /\ row'[KeyOf[a]].result # "none"

(* What every step keeps of the paths, and what it needs to be so.         *)
StepFacts == Paths' /\ Reaches' /\ EffectOnRow /\ (faults' = 0 => faults = 0)

LEMMA ExecutorOnce ==
  ASSUME OnceInv, NEW e \in Executor, ExecutorStep(e) \/ Disruption(e)
  PROVE  StepFacts
<1> USE MappingAssumption DEF OnceInv
<1>1. UNCHANGED <<fired, durable, faults>>
  BY DEF ExecutorStep, Disruption, StartExecutor, StartWave, GlobalTimeoutFires,
         CancelInvocation, CancelWave, Crash, ghost
<1>2. ASSUME NEW a \in Attempt
      PROVE  /\ pc'[a] \in Unfired => a \notin fired'
             /\ outcome'[a] = "success" => pc'[a] = "done"
             /\ pc'[a] \in Holding => pc[a] \in Holding
             /\ Effected(a)' => Effected(a)
  <2>1. CASE StartExecutor(e)
    <3>1. mode[ExecOf[a]] = "new" => a \notin fired
      BY DEF IInv, FreshStart, Paths, Unfired
    <3> QED BY <1>1, <2>1, <3>1 DEF StartExecutor, Paths, Effected, IInv, TypeOK
  <2>2. CASE StartWave(e)
    BY <1>1, <2>2 DEF StartWave, Waiting, exec, Paths, Effected, Unfired, Holding
  <2>3. CASE CancelWave(e) /\ (mode'[ExecOf[a]] = "armed" => mode[ExecOf[a]] = "armed")
    BY <1>1, <2>3 DEF CancelWave, Paths, Effected, Unfired, Holding, InFlight, Running
  <2>4. CASE Crash(e)
    BY <1>1, <2>4 DEF Crash, Paths, Effected, Unfired, Holding, IInv, TypeOK
  <2>5. GlobalTimeoutFires(e) \/ CancelInvocation(e)
          => CancelWave(e) /\ (mode'[ExecOf[a]] = "armed" => mode[ExecOf[a]] = "armed")
    BY DEF GlobalTimeoutFires, CancelInvocation, IInv, TypeOK
  <2> QED BY <2>1, <2>2, <2>3, <2>4, <2>5 DEF ExecutorStep, Disruption
<1>3. Paths'
  BY <1>2 DEF Paths
<1>4. Reaches'
  BY <1>1, <1>2 DEF Reaches
<1>5. EffectOnRow
  BY <1>2 DEF EffectOnRow
<1> QED BY <1>1, <1>3, <1>4, <1>5 DEF StepFacts

(* A step of one task is a step of its own path.                           *)
Own(a) == /\ mode' = mode
          /\ \A b \in Attempt : b # a => /\ pc'[b] = pc[b] /\ outcome'[b] = outcome[b]
                                        /\ (b \in fired' <=> b \in fired)
                                        /\ (b \in durable => b \in durable')

LEMMA OwnSteps ==
  ASSUME OnceInv, NEW a \in Attempt, Own(a), faults' = 0 => faults = 0,
         pc'[a] \in Unfired => a \notin fired',
         outcome'[a] = "success" => pc'[a] = "done",
         (faults' = 0 /\ pc'[a] \in Holding) => a \in durable',
         (faults' = 0 /\ Effected(a)') =>
            (Effected(a) \/ (OwnsRow(a) /\ row'[KeyOf[a]].result # "none"))
  PROVE  StepFacts
<1>1. Paths'
  BY DEF OnceInv, Paths, Own
<1>2. Reaches'
  BY DEF OnceInv, Reaches, Own
<1>3. EffectOnRow
  BY DEF EffectOnRow, Effected, Own
<1> QED BY <1>1, <1>2, <1>3 DEF StepFacts

LEMMA LedgerOnce ==
  ASSUME OnceInv, NEW a \in Attempt, LedgerStep(a)
  PROVE  StepFacts
<1> USE DEF Goto, Return, Unfired, Holding
<1>1. fired' = fired /\ mode' = mode /\ durable \subseteq durable' /\ pc[a] \in Unfired
  BY DEF LedgerStep, Unresolved, IdempotentSkip, Begin, FindReplay, FindNothing, FindDegraded,
         ClaimWon, ClaimLost, ClaimDegraded, RecheckReplay, RecheckConflict, RecheckDegraded, TakeSlot,
         exec, ghost
<1>2. a \notin fired /\ a \notin fired'
  BY <1>1 DEF OnceInv, Paths
<1>3. \A b \in Attempt : b # a => pc'[b] = pc[b] /\ outcome'[b] = outcome[b]
  BY DEF LedgerStep, Unresolved, IdempotentSkip, Begin, FindReplay, FindNothing, FindDegraded,
         ClaimWon, ClaimLost, ClaimDegraded, RecheckReplay, RecheckConflict, RecheckDegraded, TakeSlot,
         OnceInv, IInv, TypeOK
<1>4. Own(a)
  BY <1>1, <1>3 DEF Own
<1>5. faults' = faults \/ (Fault /\ faults' # 0)
  BY DEF LedgerStep, Unresolved, IdempotentSkip, Begin, FindReplay, FindNothing, FindDegraded,
         ClaimWon, ClaimLost, ClaimDegraded, RecheckReplay, RecheckConflict, RecheckDegraded, TakeSlot,
         Fault, OnceInv, IInv, TypeOK
<1>6. outcome'[a] = "success" => pc'[a] = "done"
  BY <1>1 DEF LedgerStep, Unresolved, IdempotentSkip, Begin, FindReplay, FindNothing, FindDegraded,
         ClaimWon, ClaimLost, ClaimDegraded, RecheckReplay, RecheckConflict, RecheckDegraded, TakeSlot,
         OnceInv, Paths, IInv, TypeOK
<1>7. faults' = 0 /\ pc'[a] \in Holding => a \in durable'
  <2> SUFFICES ASSUME faults' = 0, pc'[a] \in Holding PROVE a \in durable'
    OBVIOUS
  <2>1. faults = 0
    BY <1>5
  <2>2. ~ClaimDegraded(a)
    BY <2>1 DEF ClaimDegraded, Fault, OnceInv, IInv, TypeOK
  <2>3. ClaimWon(a) \/ TakeSlot(a)
    BY <1>1, <2>2 DEF LedgerStep, Unresolved, IdempotentSkip, Begin, FindReplay, FindNothing, FindDegraded,
       ClaimLost, RecheckReplay, RecheckConflict, RecheckDegraded, OnceInv, IInv, TypeOK
  <2>4. CASE ClaimWon(a)
    BY <2>4 DEF ClaimWon
  <2>5. CASE TakeSlot(a)
    BY <1>1, <2>1, <2>5 DEF TakeSlot, OnceInv, Reaches
  <2> QED BY <2>3, <2>4, <2>5
<1>8. ~Effected(a)'
  BY <1>2 DEF Effected
<1> QED BY <1>2, <1>4, <1>5, <1>6, <1>7, <1>8, OwnSteps

(* A task that calls in an armed executor owns the row.                    *)
LEMMA CallerOwns ==
  ASSUME OnceInv, NEW a \in Attempt, faults = 0, pc[a] \in Holding, mode[ExecOf[a]] = "armed"
  PROVE  OwnsRow(a)
BY DEF OnceInv, Reaches, IInv, ClaimsHeld, Protected, OwnsRow

LEMMA CallOnce ==
  ASSUME OnceInv, NEW a \in Attempt, CallStep(a)
  PROVE  StepFacts
<1> USE DEF Goto, Return
<1> DEFINE Quiet == \/ Refuse(a) \/ FirstRelease(a) \/ CacheHit(a) \/ StartCall(a)
                    \/ CallSucceeds(a) \/ CallRejected(a) \/ OutputRejected(a)
                    \/ CallTransient(a) \/ CallTimesOut(a) \/ CachePut(a) \/ Release(a)
<1>1. Own(a)
  <2>1. mode' = mode /\ durable' = durable
    BY DEF CallStep, Refuse, FirstRelease, CacheHit, CompleteReuse, StartCall, CallSucceeds,
       CallRejected, OutputRejected, CallTransient, CallTimesOut, CachePut, Complete, Register,
       Release, exec, ghost
  <2>2. \A b \in Attempt : b # a => (b \in fired' <=> b \in fired)
    BY DEF CallStep, Refuse, FirstRelease, CacheHit, CompleteReuse, StartCall, CallSucceeds,
       CallRejected, OutputRejected, CallTransient, CallTimesOut, CachePut, Complete, Register,
       Release, ghost, NotFired
  <2>3. \A b \in Attempt : b # a => pc'[b] = pc[b] /\ outcome'[b] = outcome[b]
    BY DEF CallStep, Refuse, FirstRelease, CacheHit, CompleteReuse, StartCall, CallSucceeds,
       CallRejected, OutputRejected, CallTransient, CallTimesOut, CachePut, Complete, Register,
       Release, RetryOr, OnceInv, IInv, TypeOK
  <2> QED BY <2>1, <2>2, <2>3 DEF Own
<1>2. faults' = faults \/ (Fault /\ faults' # 0)
  BY DEF CallStep, Refuse, FirstRelease, CacheHit, CompleteReuse, StartCall, CallSucceeds,
     CallRejected, OutputRejected, CallTransient, CallTimesOut, CachePut, Complete, Register,
     Release, RetryOr, Fault, OnceInv, IInv, TypeOK
<1>3. faults' = 0 => faults = 0 /\ faults' = faults
  BY <1>2 DEF Fault, OnceInv, IInv, TypeOK
<1>4. pc'[a] \notin Unfired
  BY DEF CallStep, Refuse, FirstRelease, CacheHit, CompleteReuse, StartCall, CallSucceeds,
     CallRejected, OutputRejected, CallTransient, CallTimesOut, CachePut, Complete, Register,
     Release, RetryOr, Unfired, OnceInv, IInv, TypeOK
<1>5. a \in durable => a \in durable'
  BY DEF CallStep, Refuse, FirstRelease, CacheHit, CompleteReuse, StartCall, CallSucceeds,
     CallRejected, OutputRejected, CallTransient, CallTimesOut, CachePut, Complete, Register,
     Release, ghost
<1>6. pc'[a] \in Holding => pc[a] \in Holding
  BY DEF CallStep, Refuse, FirstRelease, CacheHit, CompleteReuse, StartCall, CallSucceeds,
     CallRejected, OutputRejected, CallTransient, CallTimesOut, CachePut, Complete, Register,
     Release, RetryOr, Holding, OnceInv, IInv, TypeOK
<1>7. faults' = 0 /\ pc'[a] \in Holding => a \in durable'
  BY <1>3, <1>5, <1>6 DEF OnceInv, Reaches
<1>8. outcome[a] # "success"
  BY DEF CallStep, Refuse, FirstRelease, CacheHit, CompleteReuse, StartCall, CallSucceeds,
     CallRejected, OutputRejected, CallTransient, CallTimesOut, CachePut, Complete, Register,
     Release, OnceInv, Paths
<1>9. CASE Quiet
  <2>1. outcome'[a] # "success"
    BY <1>8, <1>9 DEF Refuse, FirstRelease, CacheHit, StartCall, CallSucceeds, CallRejected,
       OutputRejected, CallTransient, CallTimesOut, CachePut, Release, RetryOr, OnceInv, IInv,
       TypeOK
  <2>2. pc'[a] # "register"
    BY <1>9 DEF Refuse, FirstRelease, CacheHit, StartCall, CallSucceeds, CallRejected,
       OutputRejected, CallTransient, CallTimesOut, CachePut, Release, RetryOr, OnceInv, IInv,
       TypeOK
  <2>3. ~Effected(a)'
    BY <2>1, <2>2 DEF Effected
  <2> QED BY <1>1, <1>3, <1>4, <1>7, <2>1, <2>3, OwnSteps
<1>10. CASE CompleteReuse(a) \/ Complete(a)
  <2>1. outcome'[a] = "success" => pc'[a] = "done"
    BY <1>8, <1>10 DEF CompleteReuse, Complete, OnceInv, IInv, TypeOK
  <2>2. ASSUME faults' = 0, Effected(a)' PROVE OwnsRow(a) /\ row'[KeyOf[a]].result # "none"
    <3>1. pc[a] \in Holding /\ mode[ExecOf[a]] = "armed" /\ faults = 0
      BY <1>1, <1>3, <1>10, <2>2 DEF CompleteReuse, Complete, Holding, Effected, Own
    <3>2. OwnsRow(a)
      BY <3>1, CallerOwns
    <3>3. PICK form \in {"raw", "normalized"} : CompleteRow(a, form)
      BY <1>3, <1>10, <2>2 DEF CompleteReuse, Complete, Fault, OnceInv, IInv, TypeOK
    <3>4. row'[KeyOf[a]].result = form
      BY <3>2, <3>3, MappingAssumption DEF CompleteRow, Recorded, OnceInv, IInv, TypeOK
    <3> QED BY <3>2, <3>4
  <2> QED BY <1>1, <1>3, <1>4, <1>7, <2>1, <2>2, OwnSteps
<1>11. CASE Register(a)
  <2>1. pc[a] = "register" /\ pc'[a] = "done" /\ fired' = fired
    BY <1>11 DEF Register, OnceInv, IInv, TypeOK
  <2>2. Effected(a)' => Effected(a)
    BY <1>1, <2>1 DEF Effected, Own
  <2> QED BY <1>1, <1>3, <1>4, <1>7, <2>1, <2>2, OwnSteps
<1> QED BY <1>9, <1>10, <1>11 DEF CallStep

LEMMA NextFacts ==
  ASSUME OnceInv, [Next]_vars
  PROVE  StepFacts
<1>1. CASE \E e \in Executor : ExecutorStep(e) \/ Disruption(e)
  BY <1>1, ExecutorOnce
<1>2. CASE \E a \in Attempt : LedgerStep(a) \/ CallStep(a)
  BY <1>2, LedgerOnce, CallOnce
<1>3. CASE Tick \/ UNCHANGED vars
  BY <1>3 DEF Tick, vars, ghost, OnceInv, StepFacts, Paths, Reaches, EffectOnRow, Effected
<1> QED BY <1>1, <1>2, <1>3 DEF Next, Terminated

LEMMA NextOnce ==
  ASSUME OnceInv, [Next]_vars
  PROVE  OnceInv'
<1>1. IInv' /\ StepFacts
  BY NextIInv, NextFacts DEF OnceInv
<1>2. \A a \in Attempt : KeyOf[a] \in Key
  BY MappingAssumption
<1>3. \A k \in Key : row[k].result # "none" => row'[k] = row[k] /\ row[k].token = None
  BY ResultStays DEF OnceInv, IInv, RowShape
<1>4. Records'
  BY <1>1, <1>2, <1>3 DEF StepFacts, EffectOnRow, OnceInv, Records
<1>5. Once'
  <2> SUFFICES ASSUME faults' = 0, NEW a \in Attempt, NEW b \in Attempt, a # b,
                      KeyOf[a] = KeyOf[b], Effected(a)', Effected(b)'
               PROVE  FALSE
    BY DEF Once
  <2>1. faults = 0 /\ (Effected(a) \/ OwnsRow(a)) /\ (Effected(b) \/ OwnsRow(b))
    BY <1>1 DEF StepFacts, EffectOnRow
  <2>2. ~(Effected(a) /\ Effected(b))
    BY <2>1 DEF OnceInv, Once
  <2>3. \A c \in {a, b} : Effected(c) => row[KeyOf[c]].token = None
    BY <1>2, <1>3, <2>1 DEF OnceInv, Records
  <2> QED BY <2>1, <2>2, <2>3, NoneAssumption DEF OwnsRow
<1> QED BY <1>1, <1>4, <1>5 DEF StepFacts, OnceInv

(* For any tasks, plans and keys: while the database answers, the tasks of *)
(* one key whose plans are within their timeout succeed by one call        *)
(* (_run and _execute_single, concurrent_executor.py; ledger.py).          *)
THEOREM OneSuccess == Spec => []SucceedsOnce
<1>1. Init => OnceInv
  <2> SUFFICES ASSUME Init PROVE OnceInv
    OBVIOUS
  <2>1. IInv
    BY InitIInv
  <2>2. Paths /\ Reaches /\ Records /\ Once
    BY DEF Init, Paths, Reaches, Records, Once, Effected, Holding
  <2> QED BY <2>1, <2>2 DEF OnceInv
<1>2. OnceInv /\ [Next]_vars => OnceInv'
  BY NextOnce
<1>3. OnceInv => SucceedsOnce
  BY DEF OnceInv, Once, Effected, SucceedsOnce, IInv, TypeOK
<1> QED BY <1>1, <1>2, <1>3, PTL DEF Spec
=============================================================================
