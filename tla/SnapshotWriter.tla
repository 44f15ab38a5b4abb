--------------------------- MODULE SnapshotWriter ---------------------------
(***************************************************************************)
(* AsyncSimulationSnapshotWriter (include/openpmd/SimulationSnapshotWriter *)
(* .hpp) together with its one caller, Parser::runCoreSimulation           *)
(* (src/openpmd/OpenPmdParser.cpp).                                        *)
(*                                                                         *)
(* Two threads share m_mutex: the simulation thread, which calls enqueue   *)
(* for every snapshot and finish once, and the writer thread, which runs   *)
(* drain.  A step is what one thread does while it holds the mutex, one    *)
(* notification, one write, or one join.  A condition variable is the set  *)
(* of threads whose program counter is "waiting"; a waiter may also wake   *)
(* up for no reason, and nothing may depend on that.                       *)
(*                                                                         *)
(* Snapshots are identified by their ordinal in the order of the calls.    *)
(***************************************************************************)
EXTENDS Naturals, Sequences

CONSTANTS
    NumSnapshots,         \* snapshots the simulation emits if nothing fails
    MaxPendingSnapshots   \* m_pending holds at most this many (1 in the code)

ASSUME NumSnapshotsAssumption == NumSnapshots \in Nat
ASSUME MaxPendingAssumption == MaxPendingSnapshots \in Nat \ {0}

VARIABLES
    mode,             \* "disabled", "sync" or "async": constructor arguments
    pc,               \* where the simulation thread is
    drainPc,          \* where the writer thread is
    pending,          \* m_pending
    item,             \* the snapshot drain took out of m_pending, 0 for none
    error,            \* m_error is set
    finishRequested,  \* m_finishRequested
    finished,         \* m_finished
    produced,         \* calls of enqueue the simulation has begun
    accepted,         \* calls of enqueue that handed their snapshot over
    written,          \* iterations in the output series, in order
    simulationError,  \* the exception runCoreSimulation caught
    outcome           \* how runCoreSimulation ended; "none" before that

callerVars == <<mode, produced, simulationError>>   \* the simulation's own
sharedVars == <<pending, error, finishRequested>>    \* guarded by m_mutex
vars == <<mode, pc, drainPc, pending, item, error, finishRequested, finished,
          produced, accepted, written, simulationError, outcome>>

Ordinals == 1..NumSnapshots

CallerPcs == {"running", "writing", "locking", "waiting", "notifying",
              "finishing", "notifyFinish", "joining", "closing", "returned"}
DrainPcs == {"locking", "waiting", "notifying", "writing", "catching",
             "notifyAll", "exited"}
-----------------------------------------------------------------------------
\* Only the head rank writes output, and MPI runs write synchronously; only
\* the asynchronous writer starts a thread.
Init ==
    /\ mode \in {"disabled", "sync", "async"}
    /\ pc = "running"
    /\ drainPc = IF mode = "async" THEN "locking" ELSE "exited"
    /\ pending = <<>>
    /\ item = 0
    /\ error = FALSE
    /\ finishRequested = FALSE
    /\ finished = FALSE
    /\ produced = 0
    /\ accepted = 0
    /\ written = <<>>
    /\ simulationError = "none"
    /\ outcome = "none"
-----------------------------------------------------------------------------
(* Slips in the code that the checked properties must catch.  None of them is  *)
(* part of Next; each stands for the definition it is named after.             *)
MoreToEmit_Slip == produced <= NumSnapshots                 \* one too many
MayProceed_Slip ==                                          \* <= for <
    Len(pending) <= MaxPendingSnapshots \/ error \/ finishRequested
FinishThrows_Slip == FALSE                                  \* error not rethrown
NoWork_Slip == pending = <<>> \/ finishRequested            \* exits with work left
Rest_Slip == pending                                        \* no pop_front
AfterClear_Slip == pending                                  \* no clear
WakeCaller_Slip == pc' = pc                                 \* no notification
-----------------------------------------------------------------------------
(* The simulation thread.                                                  *)

\* startTimeSteppedSimulation has another snapshot to emit.
MoreToEmit == produced < NumSnapshots

\* The snapshot callback enters enqueue.
EnterEnqueue ==
    /\ pc = "running"
    /\ MoreToEmit
    /\ produced' = produced + 1
    /\ pc' = CASE mode = "disabled" -> "running"
               [] mode = "sync"     -> "writing"
               [] mode = "async"    -> "locking"
    /\ accepted' = IF mode = "sync" THEN accepted + 1 ELSE accepted
    /\ UNCHANGED <<mode, drainPc, sharedVars, item, finished, written,
                   simulationError, outcome>>

\* enqueue calls m_writeSnapshot itself when the writer is synchronous.
WriteInline ==
    /\ pc = "writing"
    /\ \/ /\ written' = Append(written, produced)
          /\ pc' = "running"
          /\ UNCHANGED simulationError
       \/ /\ simulationError' = "write"
          /\ pc' = "finishing"
          /\ UNCHANGED written
    /\ UNCHANGED <<mode, drainPc, sharedVars, item, finished, produced,
                   accepted, outcome>>

\* The predicate of m_spaceAvailable.wait.
MayProceed == Len(pending) < MaxPendingSnapshots \/ error \/ finishRequested

\* Under the lock: wait for space, rethrow the writer's error, or push.
WaitForSpace ==
    /\ pc = "locking"
    /\ ~MayProceed
    /\ pc' = "waiting"
    /\ UNCHANGED <<callerVars, drainPc, sharedVars, item, finished, accepted,
                   written, outcome>>

\* m_error is rethrown before "cannot enqueue after finish was requested".
Refusal == IF error THEN "write" ELSE "logic"

EnqueueThrows ==
    /\ pc = "locking"
    /\ error \/ finishRequested
    /\ simulationError' = Refusal
    /\ pc' = "finishing"
    /\ UNCHANGED <<mode, produced, drainPc, sharedVars, item, finished,
                   accepted, written, outcome>>

Push ==
    /\ pc = "locking"
    /\ MayProceed
    /\ ~error
    /\ ~finishRequested
    /\ pending' = Append(pending, produced)
    /\ accepted' = accepted + 1
    /\ pc' = "notifying"
    /\ UNCHANGED <<callerVars, drainPc, item, error, finishRequested,
                   finished, written, outcome>>

\* m_ready.notify_one: the writer thread is the only one that waits for it.
WakeDrain == drainPc' = IF drainPc = "waiting" THEN "locking" ELSE drainPc

NotifyReady ==
    /\ pc = "notifying"
    /\ pc' = "running"
    /\ WakeDrain
    /\ UNCHANGED <<callerVars, sharedVars, item, finished, accepted, written,
                   outcome>>

\* startTimeSteppedSimulation returns, or throws before its last snapshot.
SimulationEnds ==
    /\ pc = "running"
    /\ \/ produced = NumSnapshots /\ UNCHANGED simulationError
       \/ produced < NumSnapshots /\ simulationError' = "simulation"
    /\ pc' = "finishing"
    /\ UNCHANGED <<mode, produced, drainPc, sharedVars, item, finished,
                   accepted, written, outcome>>

\* finish: nothing to wait for unless there is a writer thread.
RequestFinish ==
    /\ pc = "finishing"
    /\ finishRequested' = (finishRequested \/ mode = "async")
    /\ finished' = (mode = "sync")
    /\ pc' = IF mode = "async" THEN "notifyFinish" ELSE "closing"
    /\ UNCHANGED <<callerVars, drainPc, pending, error, item, accepted,
                   written, outcome>>

NotifyFinish ==
    /\ pc = "notifyFinish"
    /\ pc' = "joining"
    /\ WakeDrain
    /\ UNCHANGED <<callerVars, sharedVars, item, finished, accepted, written,
                   outcome>>

Joinable == drainPc = "exited"

\* finish rethrows m_error after the join; it then replaces any exception the
\* simulation ended with.
FinishThrows == error

Join ==
    /\ pc = "joining"
    /\ Joinable
    /\ finished' = TRUE
    /\ pc' = IF FinishThrows THEN "returned" ELSE "closing"
    /\ outcome' = IF FinishThrows THEN "write" ELSE outcome
    /\ UNCHANGED <<callerVars, drainPc, sharedVars, item, accepted, written>>

\* The series are closed, then the simulation's own exception is rethrown.
CloseSeries ==
    /\ pc = "closing"
    /\ pc' = "returned"
    /\ outcome' = IF simulationError = "none" THEN "ok" ELSE simulationError
    /\ UNCHANGED <<callerVars, drainPc, sharedVars, item, finished, accepted,
                   written>>

CallerStep ==
    \/ EnterEnqueue \/ WriteInline \/ WaitForSpace \/ EnqueueThrows \/ Push
    \/ NotifyReady \/ SimulationEnds \/ RequestFinish \/ NotifyFinish
    \/ Join \/ CloseSeries
-----------------------------------------------------------------------------
(* The writer thread.                                                      *)

\* The writer thread looks at finishRequested only when nothing is pending.
NoWork == pending = <<>>

\* m_pending.pop_front()
Rest == Tail(pending)

WaitForWork ==
    /\ drainPc = "locking"
    /\ NoWork
    /\ drainPc' = IF finishRequested THEN "exited" ELSE "waiting"
    /\ UNCHANGED <<callerVars, pc, sharedVars, item, finished, accepted,
                   written, outcome>>

Pop ==
    /\ drainPc = "locking"
    /\ pending # <<>>
    /\ item' = Head(pending)
    /\ pending' = Rest
    /\ drainPc' = "notifying"
    /\ UNCHANGED <<callerVars, pc, error, finishRequested, finished, accepted,
                   written, outcome>>

\* m_spaceAvailable has one waiter at most, so notify_one and notify_all wake
\* the same thread.
WakeCaller == pc' = IF pc = "waiting" THEN "locking" ELSE pc

NotifySpace ==
    /\ drainPc = "notifying"
    /\ drainPc' = "writing"
    /\ WakeCaller
    /\ UNCHANGED <<callerVars, sharedVars, item, finished, accepted, written,
                   outcome>>

\* m_writeSnapshot(item) runs without the lock, and may throw.
WriteItem ==
    /\ drainPc = "writing"
    /\ \/ /\ written' = Append(written, item)
          /\ drainPc' = "locking"
       \/ /\ drainPc' = "catching"
          /\ UNCHANGED written
    /\ item' = 0
    /\ UNCHANGED <<callerVars, pc, sharedVars, finished, accepted, outcome>>

\* m_pending.clear()
AfterClear == <<>>

CatchError ==
    /\ drainPc = "catching"
    /\ error' = TRUE
    /\ finishRequested' = TRUE
    /\ pending' = AfterClear
    /\ drainPc' = "notifyAll"
    /\ UNCHANGED <<callerVars, pc, item, finished, accepted, written, outcome>>

NotifyAll ==
    /\ drainPc = "notifyAll"
    /\ drainPc' = "exited"
    /\ WakeCaller
    /\ UNCHANGED <<callerVars, sharedVars, item, finished, accepted, written,
                   outcome>>

DrainStep ==
    WaitForWork \/ Pop \/ NotifySpace \/ WriteItem \/ CatchError \/ NotifyAll
-----------------------------------------------------------------------------
SpuriousWakeup ==
    /\ \/ pc = "waiting" /\ pc' = "locking" /\ UNCHANGED drainPc
       \/ drainPc = "waiting" /\ drainPc' = "locking" /\ UNCHANGED pc
    /\ UNCHANGED <<callerVars, sharedVars, item, finished, accepted, written,
                   outcome>>

Terminated == pc = "returned" /\ UNCHANGED vars

Next == CallerStep \/ DrainStep \/ SpuriousWakeup \/ Terminated

\* Both threads are scheduled by the operating system; spurious wakeups are
\* not promised by anyone.
Fairness == WF_vars(CallerStep) /\ WF_vars(DrainStep)

Spec == Init /\ [][Next]_vars
FairSpec == Spec /\ Fairness
-----------------------------------------------------------------------------
(* Properties.                                                             *)

TypeOK ==
    /\ mode \in {"disabled", "sync", "async"}
    /\ pc \in CallerPcs
    /\ drainPc \in DrainPcs
    /\ pending \in Seq(Ordinals)
    /\ item \in 0..NumSnapshots
    /\ error \in BOOLEAN
    /\ finishRequested \in BOOLEAN
    /\ finished \in BOOLEAN
    /\ produced \in 0..NumSnapshots
    /\ accepted \in 0..NumSnapshots
    /\ written \in Seq(Ordinals)
    /\ simulationError \in {"none", "simulation", "write", "logic"}
    /\ outcome \in {"none", "ok", "simulation", "write", "logic"}

\* Whatever the threads do, the output series holds the first snapshots of the
\* run, each once and in the order they were emitted (drain pops the front of
\* m_pending and writes outside the lock), and the writer thread has ended before
\* the series is closed or destroyed: no write can run on a closed series.
WrittenInOrder ==
    /\ Len(written) <= accepted
    /\ \A i \in 1..Len(written) : written[i] = i
    /\ pc \in {"closing", "returned"} => drainPc = "exited"

\* Backpressure: besides the snapshot enqueue was called with, the writer holds
\* no more than the queue and the one being written (maxPendingSnapshots).
BoundedBacklog ==
    accepted - Len(written) <= MaxPendingSnapshots + 1

\* runCoreSimulation returns normally only when every snapshot is in the file;
\* when the simulation itself threw, everything emitted before that is.
NothingLostSilently ==
    /\ outcome = "ok" /\ mode # "disabled" => Len(written) = NumSnapshots
    /\ outcome = "simulation" /\ mode # "disabled" => Len(written) = produced

\* Once a write has failed nothing more is queued or written, and the failure is
\* what the run reports, even if the simulation also failed.
FailureIsFinal ==
    [][error => pending' = <<>> /\ UNCHANGED written
                /\ outcome' \in {"none", "write"}]_vars

\* No wakeup is lost: the simulation thread is not left asleep in enqueue, nor
\* the writer thread in drain, and the run ends, whatever snapshot write fails.
RunEnds == <>(pc = "returned")

\* The inductive invariant behind the safety properties.  The snapshots taken
\* over are, in order, those written, the one in hand and those pending; the
\* program counters say which of the two threads may still change that.
InHand == IF drainPc \in {"notifying", "writing"} THEN 1 ELSE 0

NoThread ==
    mode # "async" =>
        /\ pending = <<>>
        /\ drainPc = "exited"
        /\ ~error
        /\ ~finishRequested
        /\ pc \notin {"locking", "waiting", "notifying", "notifyFinish", "joining"}

Backlog ==
    /\ Len(pending) <= MaxPendingSnapshots
    /\ \A i \in 1..Len(written) : written[i] = i
    /\ InHand = 1 => item = Len(written) + 1
    /\ InHand = 0 => item = 0
    /\ ~error => \A i \in 1..Len(pending) :
                    pending[i] = accepted - Len(pending) + i
    /\ error => pending = <<>> /\ finishRequested /\ mode = "async"
    /\ mode = "async" => pc # "writing"

Accounting ==
    /\ mode = "async" /\ ~error =>
         accepted = Len(written) + Len(pending)
                    + (IF drainPc = "catching" THEN 1 ELSE InHand)
    /\ error => /\ accepted >= Len(written) + 1
                /\ accepted <= Len(written) + MaxPendingSnapshots + 1
                /\ drainPc \in {"notifyAll", "exited"}
    /\ mode = "sync" =>
         accepted = Len(written) + (IF pc = "writing" \/ simulationError = "write"
                                    THEN 1 ELSE 0)
    /\ mode = "disabled" => accepted = 0 /\ written = <<>>
    /\ mode = "disabled" => simulationError # "write" /\ pc # "writing"
    /\ mode # "disabled" =>
         produced = accepted + (IF \/ pc \in {"locking", "waiting"}
                                   \/ mode = "async" /\ simulationError = "write"
                                THEN 1 ELSE 0)

Phases ==
    /\ finishRequested /\ ~error => pc \in {"notifyFinish", "joining", "closing", "returned"}
    /\ pc \in {"notifyFinish", "joining"} => finishRequested
    /\ drainPc \in {"notifyAll"} => error
    /\ mode = "async" /\ drainPc = "exited" => finishRequested /\ pending = <<>>
    /\ pc \in {"closing", "returned"} => drainPc = "exited"
    /\ pc = "closing" => ~error /\ (mode = "async" => finishRequested)
    /\ pc = "writing" => mode = "sync" /\ produced > 0
    /\ pc \in {"running", "writing", "locking", "waiting", "notifying"} => simulationError = "none"
    /\ simulationError = "none" /\ pc \in {"finishing", "notifyFinish", "joining", "closing", "returned"} =>
         produced = NumSnapshots
    /\ simulationError \in {"none", "simulation", "write"}
    /\ mode = "async" /\ simulationError = "write" => error
    /\ outcome = "none" <=> pc # "returned"
    /\ outcome \in {"none", "ok", "simulation", "write"}
    /\ outcome = "ok" => simulationError = "none" /\ ~error
    /\ outcome = "simulation" => simulationError = "simulation" /\ ~error
    /\ outcome = "write" => error \/ simulationError = "write"

IInv == TypeOK /\ NoThread /\ Backlog /\ Accounting /\ Phases

\* The writer implements the stream of snapshots its consumer relies on.
Broken == error \/ drainPc = "catching" \/ simulationError = "write"

Stream == INSTANCE SnapshotStream WITH
    Window <- MaxPendingSnapshots + 1,
    accepted <- accepted,
    stored <- written,
    broken <- Broken,
    verdict <- IF outcome = "none" THEN "running" ELSE outcome

StreamSpec == Stream!Spec
=============================================================================
