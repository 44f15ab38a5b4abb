------------------------ MODULE SnapshotWriter_proofs ------------------------
(***************************************************************************)
(* Proofs about SnapshotWriter, for any number of snapshots and any queue  *)
(* capacity.  The invariants are consequences of IInv, which is inductive: *)
(* what was accepted is what is written, in hand and pending, in this      *)
(* order, until a write fails.                                             *)
(***************************************************************************)
EXTENDS SnapshotWriter, SequenceTheorems, TLAPS

\* Init establishes the inductive invariant.
LEMMA InductiveInit == Init => IInv
<1> SUFFICES ASSUME Init PROVE IInv
  OBVIOUS
<1> USE NumSnapshotsAssumption, MaxPendingAssumption DEF Init
<1>1. TypeOK
  <2>1. <<>> \in Seq(Ordinals)
    BY EmptySeq
  <2>2. pending \in Seq(Ordinals) /\ written \in Seq(Ordinals)
    BY <2>1
  <2>3. item \in 0..NumSnapshots /\ produced \in 0..NumSnapshots /\ accepted \in 0..NumSnapshots
    OBVIOUS
  <2>4. mode \in {"disabled", "sync", "async"} /\ pc \in CallerPcs /\ drainPc \in DrainPcs
    BY DEF CallerPcs, DrainPcs
  <2>5. QED
    BY <2>2, <2>3, <2>4 DEF TypeOK
<1>2. NoThread /\ Accounting /\ Phases
  BY DEF NoThread, Accounting, Phases, InHand
<1>3. Backlog
  BY DEF Backlog, InHand
<1>4. QED
  BY <1>1, <1>2, <1>3 DEF IInv

\* Every action preserves the inductive invariant.
LEMMA InductiveStep == IInv /\ [Next]_vars => IInv'
<1> SUFFICES ASSUME IInv, [Next]_vars PROVE IInv'
  OBVIOUS
<1> USE NumSnapshotsAssumption, MaxPendingAssumption DEF IInv
<1>1. CASE EnterEnqueue
  <2>1. TypeOK'
    BY <1>1 DEF EnterEnqueue, MoreToEmit, sharedVars, TypeOK, Accounting, CallerPcs
  <2>2. NoThread'
    BY <1>1 DEF EnterEnqueue, sharedVars, TypeOK, NoThread
  <2>3. Backlog'
    BY <1>1 DEF EnterEnqueue, sharedVars, NoThread, Backlog, InHand
  <2>4. Accounting'
    BY <1>1 DEF EnterEnqueue, sharedVars, TypeOK, Accounting, Phases, InHand
  <2>5. Phases'
    BY <1>1 DEF EnterEnqueue, sharedVars, TypeOK, Phases
  <2>6. QED
    BY <2>1, <2>2, <2>3, <2>4, <2>5 DEF IInv
<1>2. CASE WriteInline
  <2>1. TypeOK'
    BY <1>2 DEF WriteInline, sharedVars, TypeOK, NoThread, Backlog, Phases, Ordinals, CallerPcs
  <2>2. NoThread'
    BY <1>2 DEF WriteInline, sharedVars, NoThread
  <2>3. Backlog'
    BY <1>2 DEF WriteInline, sharedVars, TypeOK, NoThread, Backlog, Accounting, InHand
  <2>4. Accounting'
    BY <1>2 DEF WriteInline, sharedVars, Backlog, Accounting, Phases
  <2>5. Phases'
    BY <1>2 DEF WriteInline, sharedVars, Phases
  <2>6. QED
    BY <2>1, <2>2, <2>3, <2>4, <2>5 DEF IInv
<1>3. CASE WaitForSpace
  <2>1. TypeOK'
    BY <1>3 DEF WaitForSpace, callerVars, sharedVars, TypeOK, CallerPcs
  <2>2. NoThread'
    BY <1>3 DEF WaitForSpace, callerVars, NoThread
  <2>3. Backlog'
    BY <1>3 DEF WaitForSpace, MayProceed, sharedVars, Backlog, InHand
  <2>4. Accounting'
    BY <1>3 DEF WaitForSpace, callerVars, sharedVars, Accounting, InHand
  <2>5. Phases'
    BY <1>3 DEF WaitForSpace, callerVars, sharedVars, Phases
  <2>6. QED
    BY <2>1, <2>2, <2>3, <2>4, <2>5 DEF IInv
<1>4. CASE EnqueueThrows
  <2>1. TypeOK'
    BY <1>4 DEF EnqueueThrows, Refusal, sharedVars, TypeOK, CallerPcs
  <2>2. NoThread'
    BY <1>4 DEF EnqueueThrows, NoThread
  <2>3. Backlog'
    BY <1>4 DEF EnqueueThrows, sharedVars, Backlog, InHand
  <2>4. Accounting'
    BY <1>4 DEF EnqueueThrows, Refusal, sharedVars, Backlog, Accounting, Phases
  <2>5. Phases'
    BY <1>4 DEF EnqueueThrows, Refusal, sharedVars, Phases
  <2>6. QED
    BY <2>1, <2>2, <2>3, <2>4, <2>5 DEF IInv
<1>5. CASE Push
  <2>1. TypeOK'
    BY <1>5 DEF Push, callerVars, TypeOK, NoThread, Accounting, Ordinals, CallerPcs
  <2>2. NoThread'
    BY <1>5 DEF Push, callerVars, NoThread
  <2>3. Backlog'
    <3>1. /\ pending \in Seq(Ordinals) /\ produced \in Ordinals
          /\ produced = accepted + 1 /\ accepted' = accepted + 1
          /\ ~error /\ ~error'
      BY <1>5 DEF Push, TypeOK, NoThread, Accounting, Ordinals
    <3>2. /\ Len(pending') = Len(pending) + 1
          /\ \A i \in 1..Len(pending) : pending'[i] = pending[i]
          /\ pending'[Len(pending) + 1] = produced
      BY <1>5, <3>1, AppendProperties DEF Push
    <3>3. \A i \in 1..Len(pending') : pending'[i] = accepted' - Len(pending') + i
      <4>1. accepted \in Nat /\ Len(pending) \in Nat
        BY <3>1, LenProperties DEF TypeOK
      <4>2. \A i \in 1..Len(pending) : pending[i] = accepted - Len(pending) + i
        BY <3>1 DEF Backlog
      <4>3. TAKE i \in 1..Len(pending')
      <4>4. i \in 1..Len(pending) \/ i = Len(pending) + 1
        BY <3>2, <4>1
      <4>5. QED
        BY <3>1, <3>2, <4>1, <4>2, <4>4
    <3>4. Len(pending') <= MaxPendingSnapshots
      BY <1>5, <3>2, LenProperties DEF Push, MayProceed, TypeOK
    <3>5. InHand' = InHand /\ UNCHANGED <<written, item, mode>>
      BY <1>5 DEF Push, callerVars, InHand
    <3>6. QED
      BY <1>5, <3>1, <3>3, <3>4, <3>5 DEF Push, Backlog
  <2>4. Accounting'
    BY <1>5 DEF Push, callerVars, NoThread, Accounting, Phases, InHand
  <2>5. Phases'
    BY <1>5 DEF Push, callerVars, Phases
  <2>6. QED
    BY <2>1, <2>2, <2>3, <2>4, <2>5 DEF IInv
<1>6. CASE NotifyReady
  <2>1. TypeOK'
    BY <1>6 DEF NotifyReady, WakeDrain, callerVars, sharedVars, TypeOK, CallerPcs, DrainPcs
  <2>2. NoThread'
    BY <1>6 DEF NotifyReady, callerVars, NoThread
  <2>3. Backlog'
    BY <1>6 DEF NotifyReady, WakeDrain, callerVars, sharedVars, Backlog, InHand
  <2>4. Accounting'
    BY <1>6 DEF NotifyReady, WakeDrain, callerVars, sharedVars, Accounting, InHand
  <2>5. Phases'
    BY <1>6 DEF NotifyReady, WakeDrain, callerVars, sharedVars, Phases
  <2>6. QED
    BY <2>1, <2>2, <2>3, <2>4, <2>5 DEF IInv
<1>7. CASE SimulationEnds
  <2>1. TypeOK'
    BY <1>7 DEF SimulationEnds, sharedVars, TypeOK, CallerPcs
  <2>2. NoThread'
    BY <1>7 DEF SimulationEnds, sharedVars, NoThread
  <2>3. Backlog'
    BY <1>7 DEF SimulationEnds, sharedVars, Backlog, InHand
  <2>4. Accounting'
    BY <1>7 DEF SimulationEnds, sharedVars, Accounting, Phases, InHand
  <2>5. Phases'
    BY <1>7 DEF SimulationEnds, sharedVars, Phases
  <2>6. QED
    BY <2>1, <2>2, <2>3, <2>4, <2>5 DEF IInv
<1>8. CASE RequestFinish
  <2>1. TypeOK'
    BY <1>8 DEF RequestFinish, callerVars, TypeOK, CallerPcs
  <2>2. NoThread'
    BY <1>8 DEF RequestFinish, callerVars, NoThread
  <2>3. Backlog'
    BY <1>8 DEF RequestFinish, callerVars, Backlog, InHand
  <2>4. Accounting'
    BY <1>8 DEF RequestFinish, callerVars, Accounting, InHand
  <2>5. Phases'
    BY <1>8 DEF RequestFinish, callerVars, NoThread, Phases
  <2>6. QED
    BY <2>1, <2>2, <2>3, <2>4, <2>5 DEF IInv
<1>9. CASE NotifyFinish
  <2>1. TypeOK'
    BY <1>9 DEF NotifyFinish, WakeDrain, callerVars, sharedVars, TypeOK, CallerPcs, DrainPcs
  <2>2. NoThread'
    BY <1>9 DEF NotifyFinish, callerVars, NoThread
  <2>3. Backlog'
    BY <1>9 DEF NotifyFinish, WakeDrain, callerVars, sharedVars, Backlog, InHand
  <2>4. Accounting'
    BY <1>9 DEF NotifyFinish, WakeDrain, callerVars, sharedVars, Accounting, InHand
  <2>5. Phases'
    BY <1>9 DEF NotifyFinish, WakeDrain, callerVars, sharedVars, Phases
  <2>6. QED
    BY <2>1, <2>2, <2>3, <2>4, <2>5 DEF IInv
<1>10. CASE Join
  <2>1. TypeOK'
    BY <1>10 DEF Join, callerVars, sharedVars, TypeOK, CallerPcs
  <2>2. NoThread'
    BY <1>10 DEF Join, callerVars, NoThread
  <2>3. Backlog'
    BY <1>10 DEF Join, callerVars, sharedVars, Backlog, InHand
  <2>4. Accounting'
    BY <1>10 DEF Join, callerVars, sharedVars, Accounting, InHand
  <2>5. Phases'
    BY <1>10 DEF Join, Joinable, FinishThrows, callerVars, sharedVars, Phases
  <2>6. QED
    BY <2>1, <2>2, <2>3, <2>4, <2>5 DEF IInv
<1>11. CASE CloseSeries
  <2>1. TypeOK'
    BY <1>11 DEF CloseSeries, callerVars, sharedVars, TypeOK, CallerPcs
  <2>2. NoThread'
    BY <1>11 DEF CloseSeries, callerVars, sharedVars, NoThread
  <2>3. Backlog'
    BY <1>11 DEF CloseSeries, callerVars, sharedVars, Backlog, InHand
  <2>4. Accounting'
    BY <1>11 DEF CloseSeries, callerVars, sharedVars, Accounting, InHand
  <2>5. Phases'
    BY <1>11 DEF CloseSeries, callerVars, sharedVars, Phases
  <2>6. QED
    BY <2>1, <2>2, <2>3, <2>4, <2>5 DEF IInv
<1>12. CASE WaitForWork
  <2>1. TypeOK'
    BY <1>12 DEF WaitForWork, NoWork, callerVars, sharedVars, TypeOK, DrainPcs
  <2>2. NoThread'
    BY <1>12 DEF WaitForWork, callerVars, NoThread
  <2>3. Backlog'
    BY <1>12 DEF WaitForWork, callerVars, sharedVars, Backlog, InHand
  <2>4. Accounting'
    BY <1>12 DEF WaitForWork, callerVars, sharedVars, Accounting, InHand
  <2>5. Phases'
    BY <1>12 DEF WaitForWork, NoWork, callerVars, sharedVars, Phases
  <2>6. QED
    BY <2>1, <2>2, <2>3, <2>4, <2>5 DEF IInv
<1>13. CASE Pop
  <2>1. TypeOK'
    BY <1>13 DEF Pop, Rest, callerVars, TypeOK, Ordinals, DrainPcs
  <2>2. NoThread'
    BY <1>13 DEF Pop, callerVars, NoThread
  <2>3. Backlog'
    BY <1>13 DEF Pop, Rest, TypeOK, NoThread, Backlog, Accounting, InHand
  <2>4. Accounting'
    BY <1>13 DEF Pop, Rest, callerVars, Accounting, InHand
  <2>5. Phases'
    BY <1>13 DEF Pop, callerVars, Phases
  <2>6. QED
    BY <2>1, <2>2, <2>3, <2>4, <2>5 DEF IInv
<1>14. CASE NotifySpace
  <2>1. TypeOK'
    BY <1>14 DEF NotifySpace, WakeCaller, callerVars, sharedVars, TypeOK, CallerPcs, DrainPcs
  <2>2. NoThread'
    BY <1>14 DEF NotifySpace, callerVars, NoThread
  <2>3. Backlog'
    BY <1>14 DEF NotifySpace, WakeCaller, callerVars, sharedVars, Backlog, InHand
  <2>4. Accounting'
    BY <1>14 DEF NotifySpace, WakeCaller, callerVars, sharedVars, Accounting, InHand
  <2>5. Phases'
    BY <1>14 DEF NotifySpace, WakeCaller, callerVars, sharedVars, Phases
  <2>6. QED
    BY <2>1, <2>2, <2>3, <2>4, <2>5 DEF IInv
<1>15. CASE WriteItem
  <2>1. /\ mode = "async" /\ ~error /\ item = Len(written) + 1
        /\ item \in Ordinals /\ written \in Seq(Ordinals)
        /\ Len(written) \in Nat
    BY <1>15, LenProperties DEF WriteItem, TypeOK, NoThread, Backlog, Accounting, InHand,
       Ordinals
  <2>2. CASE written' = Append(written, item) /\ drainPc' = "locking"
    <3>1. /\ written' \in Seq(Ordinals)
          /\ Len(written') = Len(written) + 1
          /\ \A i \in 1..Len(written) : written'[i] = written[i]
          /\ written'[Len(written) + 1] = item
      BY <2>1, <2>2, AppendProperties
    <3>2. TypeOK'
      BY <1>15, <2>2, <3>1 DEF WriteItem, callerVars, sharedVars, TypeOK, DrainPcs
    <3>3. NoThread'
      BY <1>15, <2>1, <2>2 DEF WriteItem, callerVars, NoThread
    <3>4. \A i \in 1..Len(written') : written'[i] = i
      BY <2>1, <3>1 DEF Backlog
    <3>5. Backlog'
      BY <1>15, <2>1, <2>2, <3>4 DEF WriteItem, sharedVars, Backlog, InHand
    <3>6. Accounting'
      BY <1>15, <2>1, <2>2, <3>1 DEF WriteItem, callerVars, sharedVars, Accounting, InHand
    <3>7. Phases'
      BY <1>15, <2>1, <2>2 DEF WriteItem, callerVars, sharedVars, Phases
    <3>8. QED
      BY <3>2, <3>3, <3>5, <3>6, <3>7
  <2>3. CASE drainPc' = "catching" /\ UNCHANGED written
    <3>1. TypeOK'
      BY <1>15, <2>3 DEF WriteItem, callerVars, sharedVars, TypeOK, DrainPcs
    <3>2. NoThread'
      BY <1>15, <2>1, <2>3 DEF WriteItem, callerVars, NoThread
    <3>3. Backlog'
      BY <1>15, <2>1, <2>3 DEF WriteItem, sharedVars, Backlog, InHand
    <3>4. Accounting'
      BY <1>15, <2>1, <2>3 DEF WriteItem, callerVars, sharedVars, Accounting, InHand
    <3>5. Phases'
      BY <1>15, <2>1, <2>3 DEF WriteItem, callerVars, sharedVars, Phases
    <3>6. QED
      BY <3>1, <3>2, <3>3, <3>4, <3>5
  <2>4. QED
    BY <1>15, <2>2, <2>3 DEF WriteItem
<1>16. CASE CatchError
  <2>1. TypeOK'
    BY <1>16 DEF CatchError, AfterClear, callerVars, TypeOK, DrainPcs
  <2>2. NoThread'
    BY <1>16 DEF CatchError, AfterClear, callerVars, NoThread
  <2>3. Backlog'
    BY <1>16 DEF CatchError, AfterClear, callerVars, NoThread, Backlog, InHand
  <2>4. Accounting'
    BY <1>16 DEF CatchError, AfterClear, callerVars, NoThread, Backlog, Accounting
  <2>5. Phases'
    BY <1>16 DEF CatchError, callerVars, Phases
  <2>6. QED
    BY <2>1, <2>2, <2>3, <2>4, <2>5 DEF IInv
<1>17. CASE NotifyAll
  <2>1. TypeOK'
    BY <1>17 DEF NotifyAll, WakeCaller, callerVars, sharedVars, TypeOK, CallerPcs, DrainPcs
  <2>2. NoThread'
    BY <1>17 DEF NotifyAll, callerVars, NoThread
  <2>3. Backlog'
    BY <1>17 DEF NotifyAll, WakeCaller, callerVars, sharedVars, Backlog, InHand
  <2>4. Accounting'
    BY <1>17 DEF NotifyAll, WakeCaller, callerVars, sharedVars, Accounting, InHand
  <2>5. Phases'
    BY <1>17 DEF NotifyAll, WakeCaller, callerVars, sharedVars, Backlog, Phases
  <2>6. QED
    BY <2>1, <2>2, <2>3, <2>4, <2>5 DEF IInv
<1>18. CASE SpuriousWakeup
  <2>1. TypeOK'
    BY <1>18 DEF SpuriousWakeup, callerVars, sharedVars, TypeOK, CallerPcs, DrainPcs
  <2>2. NoThread'
    BY <1>18 DEF SpuriousWakeup, callerVars, NoThread
  <2>3. Backlog'
    BY <1>18 DEF SpuriousWakeup, callerVars, sharedVars, Backlog, InHand
  <2>4. Accounting'
    BY <1>18 DEF SpuriousWakeup, callerVars, sharedVars, Accounting, InHand
  <2>5. Phases'
    BY <1>18 DEF SpuriousWakeup, callerVars, sharedVars, Phases
  <2>6. QED
    BY <2>1, <2>2, <2>3, <2>4, <2>5 DEF IInv
<1>19. CASE Terminated
  <2>1. TypeOK'
    BY <1>19 DEF Terminated, vars, TypeOK
  <2>2. NoThread'
    BY <1>19 DEF Terminated, vars, NoThread
  <2>3. Backlog'
    BY <1>19 DEF Terminated, vars, Backlog, InHand
  <2>4. Accounting'
    BY <1>19 DEF Terminated, vars, Accounting, InHand
  <2>5. Phases'
    BY <1>19 DEF Terminated, vars, Phases
  <2>6. QED
    BY <2>1, <2>2, <2>3, <2>4, <2>5 DEF IInv
<1>20. CASE UNCHANGED vars
  BY <1>20 DEF vars, TypeOK, NoThread, Backlog, Accounting, Phases, InHand
<1>21. QED
  BY <1>1, <1>2, <1>3, <1>4, <1>5, <1>6, <1>7, <1>8, <1>9, <1>10, <1>11, <1>12, <1>13,
     <1>14, <1>15, <1>16, <1>17, <1>18, <1>19, <1>20 DEF Next, CallerStep, DrainStep

\* IInv is an invariant of the writer.
LEMMA Inductive == Spec => []IInv
<1>1. QED
  BY InductiveInit, InductiveStep, PTL DEF Spec

(***************************************************************************)
(* The properties of the runs, for any number of snapshots and any queue.  *)
(***************************************************************************)

\* The variables keep their types.
THEOREM TypeCorrect == Spec => []TypeOK
<1>1. IInv => TypeOK
  BY DEF IInv
<1>2. QED
  BY <1>1, Inductive, PTL

\* The output series is a prefix of what the simulation emitted, in order, and the
\* writer thread has ended before it is closed.
THEOREM WritesInOrder == Spec => []WrittenInOrder
<1>1. IInv => WrittenInOrder
  <2> SUFFICES ASSUME IInv PROVE WrittenInOrder
    OBVIOUS
  <2>1. Len(written) \in Nat /\ Len(pending) \in Nat /\ accepted \in Nat
    BY NumSnapshotsAssumption, LenProperties DEF IInv, TypeOK
  <2>2. Len(written) <= accepted
    <3>1. CASE mode = "async"
      BY <2>1, <3>1 DEF IInv, TypeOK, Accounting, InHand
    <3>2. CASE mode = "sync"
      BY <2>1, <3>2 DEF IInv, TypeOK, Accounting
    <3>3. CASE mode = "disabled"
      BY <3>3, EmptySeq DEF IInv, Accounting
    <3>4. QED
      BY <3>1, <3>2, <3>3 DEF IInv, TypeOK
  <2>3. QED
    BY <2>2 DEF WrittenInOrder, IInv, Backlog, Phases
<1>2. QED
  BY <1>1, Inductive, PTL

\* The writer holds at most one snapshot more than its queue.
THEOREM BacklogIsBounded == Spec => []BoundedBacklog
<1>1. IInv => BoundedBacklog
  <2> SUFFICES ASSUME IInv PROVE BoundedBacklog
    OBVIOUS
  <2> USE MaxPendingAssumption
  <2>1. Len(written) \in Nat /\ Len(pending) \in Nat /\ accepted \in Nat
    BY NumSnapshotsAssumption, LenProperties DEF IInv, TypeOK
  <2>2. CASE mode = "async"
    BY <2>1, <2>2 DEF IInv, TypeOK, Backlog, Accounting, InHand, BoundedBacklog
  <2>3. CASE mode = "sync"
    BY <2>1, <2>3 DEF IInv, NoThread, Accounting, BoundedBacklog
  <2>4. CASE mode = "disabled"
    BY <2>1, <2>4, EmptySeq DEF IInv, Accounting, BoundedBacklog
  <2>5. QED
    BY <2>2, <2>3, <2>4 DEF IInv, TypeOK
<1>2. QED
  BY <1>1, Inductive, PTL

\* A run that returns normally, or with the simulation's own exception, has
\* every snapshot it emitted in its output.
THEOREM NoSilentLoss == Spec => []NothingLostSilently
<1>1. IInv => NothingLostSilently
  <2> SUFFICES ASSUME IInv, outcome \in {"ok", "simulation"}, mode # "disabled"
               PROVE  Len(written) = produced /\ (outcome = "ok" => produced = NumSnapshots)
    BY DEF NothingLostSilently
  <2>1. Len(written) \in Nat /\ Len(pending) \in Nat /\ accepted \in Nat /\ produced \in Nat
    BY NumSnapshotsAssumption, LenProperties DEF IInv, TypeOK
  <2>2. pc = "returned" /\ drainPc = "exited" /\ ~error /\ simulationError # "write"
    BY DEF IInv, Phases
  <2>3. produced = accepted
    BY <2>1, <2>2 DEF IInv, Accounting
  <2>4. Len(pending) = 0
    BY <2>2, EmptySeq DEF IInv, NoThread, Phases, TypeOK
  <2>5. Len(written) = accepted
    BY <2>1, <2>2, <2>4 DEF IInv, TypeOK, Accounting, InHand
  <2>6. outcome = "ok" => produced = NumSnapshots
    BY <2>2 DEF IInv, Phases
  <2>7. QED
    BY <2>3, <2>5, <2>6
<1>2. QED
  BY <1>1, Inductive, PTL

\* After a failed write nothing is queued or written and no other verdict is given.
THEOREM FailureStops == Spec => FailureIsFinal
<1>1. IInv /\ [Next]_vars =>
        [error => pending' = <<>> /\ UNCHANGED written /\ outcome' \in {"none", "write"}]_vars
  <2> SUFFICES ASSUME IInv, error, Next
               PROVE  pending' = <<>> /\ UNCHANGED written /\ outcome' \in {"none", "write"}
    OBVIOUS
  <2>1. /\ pending = <<>> /\ mode = "async" /\ drainPc \in {"notifyAll", "exited"}
        /\ pc # "closing" /\ pc # "writing" /\ outcome \in {"none", "write"}
    BY DEF IInv, Backlog, Accounting, Phases, TypeOK
  <2>2. QED
    BY <2>1 DEF Next, CallerStep, DrainStep, EnterEnqueue, WriteInline, WaitForSpace,
       EnqueueThrows, Push, NotifyReady, SimulationEnds, RequestFinish, NotifyFinish, Join,
       FinishThrows, CloseSeries, WaitForWork, Pop, NotifySpace, WriteItem, CatchError,
       AfterClear, NotifyAll, SpuriousWakeup, Terminated, sharedVars, vars
<1>2. QED
  BY <1>1, Inductive, PTL DEF Spec, FailureIsFinal

(***************************************************************************)
(* Refinement, safety part: every step of the writer is a step of the      *)
(* stream or leaves it unchanged.                                          *)
(***************************************************************************)

\* The initial states of the writer are initial states of the stream.
LEMMA StreamInit == Init => Stream!Init
BY DEF Init, Stream!Init, Broken

\* Every step of the writer is a step of the stream or a stutter.
LEMMA StreamStep == IInv /\ IInv' /\ [Next]_vars => [Stream!Next]_(Stream!streamVars)
<1> SUFFICES ASSUME IInv, IInv', [Next]_vars PROVE [Stream!Next]_(Stream!streamVars)
  OBVIOUS
<1> USE MaxPendingAssumption DEF Stream!streamVars, Broken, callerVars, sharedVars
<1>0. /\ Len(written) \in Nat /\ Len(pending) \in Nat /\ accepted \in Nat
      /\ outcome = "none" <=> pc # "returned"
  BY NumSnapshotsAssumption, LenProperties DEF IInv, TypeOK, Phases
<1>1. CASE EnterEnqueue
  <2>1. CASE mode = "sync"
    BY <1>0, <1>1, <2>1 DEF EnterEnqueue, Stream!Next, Stream!Accept, IInv, Accounting
  <2>2. CASE mode # "sync"
    BY <1>1, <2>2 DEF EnterEnqueue
  <2>3. QED
    BY <2>1, <2>2
<1>2. CASE WriteInline
  <2>1. mode = "sync" /\ ~error /\ simulationError = "none" /\ drainPc = "exited"
    BY <1>2 DEF WriteInline, IInv, NoThread, Phases
  <2>2. produced = Len(written) + 1 /\ accepted = Len(written) + 1
    BY <1>0, <1>2, <2>1 DEF WriteInline, IInv, TypeOK, Accounting
  <2>3. QED
    BY <1>0, <1>2, <2>1, <2>2 DEF WriteInline, Stream!Next, Stream!Store, Stream!Break
<1>3. CASE Push
  <2>1. mode = "async" /\ ~error
    BY <1>3 DEF Push, IInv, NoThread, TypeOK
  <2>2. accepted - Len(written) < MaxPendingSnapshots + 1
    BY <1>0, <1>3, <2>1 DEF Push, MayProceed, IInv, Accounting, InHand
  <2>3. QED
    BY <1>0, <1>3, <2>2 DEF Push, Stream!Next, Stream!Accept
<1>4. CASE WriteItem
  <2>1. mode = "async" /\ ~error /\ item = Len(written) + 1 /\ outcome = "none"
    BY <1>4 DEF WriteItem, IInv, NoThread, Backlog, Accounting, Phases, InHand
  <2>2. Len(written) < accepted /\ simulationError # "write"
    BY <1>0, <1>4, <2>1 DEF WriteItem, IInv, Accounting, Phases, InHand
  <2>3. QED
    BY <1>4, <2>1, <2>2 DEF WriteItem, Stream!Next, Stream!Store, Stream!Break
<1>5. CASE Join
  <2>1. CASE error
    BY <1>0, <1>5, <2>1 DEF Join, FinishThrows, Stream!Next, Stream!Report
  <2>2. CASE ~error
    BY <1>5, <2>2 DEF Join, FinishThrows
  <2>3. QED
    BY <2>1, <2>2
<1>6. CASE CloseSeries
  <2>1. outcome = "none" /\ outcome' # "none" /\ ~error /\ drainPc = "exited"
        /\ simulationError \in {"none", "simulation", "write"}
    BY <1>6 DEF CloseSeries, IInv, Phases
  <2>2. CASE simulationError = "write"
    BY <1>6, <2>1, <2>2 DEF CloseSeries, Stream!Next, Stream!Report
  <2>3. CASE simulationError # "write"
    <3>1. mode = "async" => Len(written) = accepted
      BY <1>0, <1>6, <2>1, EmptySeq DEF CloseSeries, IInv, Accounting, Phases, InHand
    <3>2. mode # "async" => Len(written) = accepted
      BY <1>0, <1>6, <2>3, EmptySeq DEF CloseSeries, IInv, TypeOK, Accounting
    <3>3. QED
      BY <1>6, <2>1, <2>3, <3>1, <3>2 DEF CloseSeries, Stream!Next, Stream!Report
  <2>4. QED
    BY <2>2, <2>3
<1>7. CASE CatchError
  BY <1>7 DEF CatchError, AfterClear
<1>8. CASE EnqueueThrows
  BY <1>8 DEF EnqueueThrows, Refusal, IInv, Phases, Backlog, Accounting
<1>9. CASE SimulationEnds
  BY <1>9 DEF SimulationEnds, IInv, Phases
<1>10. CASE WaitForSpace \/ NotifyReady \/ RequestFinish \/ NotifyFinish
  BY <1>10 DEF WaitForSpace, NotifyReady, RequestFinish, NotifyFinish, WakeDrain
<1>11. CASE WaitForWork \/ Pop \/ NotifySpace \/ NotifyAll \/ SpuriousWakeup
  BY <1>11 DEF WaitForWork, Pop, Rest, NotifySpace, NotifyAll, SpuriousWakeup
<1>12. CASE Terminated \/ UNCHANGED vars
  BY <1>12 DEF Terminated, vars
<1>13. QED
  BY <1>1, <1>2, <1>3, <1>4, <1>5, <1>6, <1>7, <1>8, <1>9, <1>10, <1>11, <1>12
     DEF Next, CallerStep, DrainStep

\* SnapshotWriter implements the safety part of SnapshotStream.
THEOREM WriterImplementsStream == Spec => Stream!SafeSpec
<1>1. QED
  BY StreamInit, StreamStep, Inductive, PTL DEF Spec, Stream!SafeSpec
=============================================================================
