----------------------- MODULE GenerationBatchProofs -----------------------
(***************************************************************************)
(* Theorems about GenerationBatch for every number of pictures, every      *)
(* concurrency and every stop threshold.                                   *)
(***************************************************************************)
EXTENDS GenerationBatch, FiniteSetTheorems, WellFoundedInduction, TLAPS

USE BatchAssumption DEF BatchAssumption

-----------------------------------------------------------------------------
(* Sets of tasks.                                                          *)

(* There are finitely many tasks. *)
LEMMA TasksFinite ==
  /\ IsFiniteSet(Tasks) /\ Cardinality(Tasks) = Count
  /\ \A S \in SUBSET Tasks : IsFiniteSet(S) /\ Cardinality(S) \in Nat
<1>1. IsFiniteSet(Tasks) /\ Cardinality(Tasks) = Count
  BY FS_Interval DEF Tasks
<1>2. \A S \in SUBSET Tasks : IsFiniteSet(S) /\ Cardinality(S) \in Nat
  BY <1>1, FS_Subset, FS_CardinalityType
<1>3. QED
  BY <1>1, <1>2

(* Fewer tasks, a smaller cardinality; and a strictly smaller one when a   *)
(* task is missing.                                                        *)
LEMMA Fewer ==
  ASSUME NEW S \in SUBSET Tasks, NEW R \in SUBSET S
  PROVE  /\ Cardinality(R) <= Cardinality(S)
         /\ R # S => Cardinality(R) # Cardinality(S)
  BY TasksFinite, FS_Subset

(* The first n waiting tasks are waiting tasks, and not more than n: two   *)
(* of them never have the same number of predecessors.                     *)
LEMMA FirstDeferredBounded ==
  ASSUME NEW n \in Nat
  PROVE  /\ FirstDeferred(n) \in SUBSET With("deferred")
         /\ Cardinality(FirstDeferred(n)) <= n
<1> DEFINE R == FirstDeferred(n)
           Before(t) == {u \in With("deferred") : u < t}
           rank == [t \in R |-> Cardinality(Before(t))]
<1>1. R \in SUBSET With("deferred") /\ R \in SUBSET Tasks
  BY DEF FirstDeferred, With
<1>2. \A t \in R : /\ Before(t) \in SUBSET Tasks
                   /\ Cardinality(Before(t)) \in Nat /\ Cardinality(Before(t)) < n
  <2>1. \A t \in R : Before(t) \in SUBSET Tasks /\ Cardinality(Before(t)) < n
    BY DEF FirstDeferred, With
  <2>2. QED
    BY <2>1, TasksFinite
<1>3. rank \in [R -> 0..(n - 1)]
  BY <1>2
<1>4. ASSUME NEW x \in R, NEW y \in R, x < y
      PROVE  rank[x] # rank[y]
  <2>1. x \in Int /\ y \in Int /\ \A u \in With("deferred") : u \in Int
    BY <1>1 DEF Tasks, With
  <2>2. Before(x) \in SUBSET Before(y)
    BY <1>4, <2>1
  <2>3. x \in Before(y) /\ x \notin Before(x)
    BY <1>1, <1>4, <2>1
  <2>4. Before(x) # Before(y)
    BY <2>3
  <2>5. Cardinality(Before(x)) # Cardinality(Before(y))
    BY <1>2, <2>2, <2>4, Fewer
  <2>6. QED
    BY <2>5
<1>5. ~ \E x, y \in R : x # y /\ rank[x] = rank[y]
  <2>1. ASSUME NEW x \in R, NEW y \in R, x # y
        PROVE  rank[x] # rank[y]
    <3>1. x < y \/ y < x
      BY <1>1, <2>1 DEF Tasks
    <3>2. QED
      BY <1>4, <3>1
  <2>2. QED
    BY <2>1
<1>6. IsFiniteSet(R) /\ Cardinality(R) \in Nat
  BY <1>1, TasksFinite
<1>7. IsFiniteSet(0..(n - 1)) /\ Cardinality(0..(n - 1)) = n
  BY FS_Interval
<1>8. ~ n < Cardinality(R)
  <2> HIDE DEF R, rank
  <2>1. QED
    BY <1>3, <1>5, <1>6, <1>7, FS_PigeonHole
<1>9. QED
  BY <1>1, <1>6, <1>8

-----------------------------------------------------------------------------
(* Type correctness.                                                       *)

(* The rows a step does not touch keep their types. *)
LEMMA TypeFrame ==
  /\ TasksType /\ UNCHANGED taskRows => TasksType'
  /\ BatchType /\ UNCHANGED batchRow => BatchType'
  /\ LockType /\ UNCHANGED <<status, due, advancing>> => LockType'
  /\ JobType /\ UNCHANGED <<assist, assistRows, job, losses>> => JobType'
<1>1. TasksType /\ UNCHANGED taskRows => TasksType'
  BY DEF TasksType, taskRows
<1>2. BatchType /\ UNCHANGED batchRow => BatchType'
  BY DEF BatchType, batchRow
<1>3. LockType /\ UNCHANGED <<status, due, advancing>> => LockType'
  BY DEF LockType
<1>4. JobType /\ UNCHANGED <<assist, assistRows, job, losses>> => JobType'
  BY DEF JobType, assistRows
<1>5. QED
  BY <1>1, <1>2, <1>3, <1>4

(* The counts of an advance are natural numbers. *)
LEMMA CountsAreNaturals ==
  /\ \A s : With(s) \in SUBSET Tasks /\ Cardinality(With(s)) \in Nat
  /\ ActiveTasks \in SUBSET Tasks /\ Cardinality(ActiveTasks) \in Nat
<1>1. \A s : With(s) \in SUBSET Tasks
  BY DEF With
<1>2. ActiveTasks \in SUBSET Tasks
  BY DEF ActiveTasks
<1>3. QED
  BY <1>1, <1>2, TasksFinite

(* What an advance reads under the lock. *)
LEMMA LockedValues ==
  ASSUME TypeOK
  PROVE  /\ advancing.success \in Nat /\ advancing.failed \in Nat
         /\ advancing.active \in Nat /\ advancing.deferred \in Nat
         /\ Slots \in Nat
         /\ advancing.task # 0 => /\ advancing.task \in Tasks
                                 /\ status[advancing.task] \in Terminal
                                 /\ NextStreak \in Nat
  BY DEF TypeOK, LockType, BatchType, Slots, NextStreak

(* The initial states have the right types. *)
LEMMA InitType == Init => TypeOK
<1> SUFFICES ASSUME Init PROVE TypeOK
  OBVIOUS
<1>1. TasksType
  BY DEF Init, TasksType, Tasks, Active
<1>2. BatchType
  BY DEF Init, BatchType, Concluded
<1>3. LockType
  BY DEF Init, LockType, Unlocked
<1>4. JobType
  BY DEF Init, JobType, NoJob
<1>5. QED
  BY <1>1, <1>2, <1>3, <1>4 DEF TypeOK

(* Every step keeps the types. *)
LEMMA NextType == TypeOK /\ [Next]_vars => TypeOK'
<1> SUFFICES ASSUME TypeOK, [Next]_vars PROVE TypeOK'
  OBVIOUS
<1> USE TypeFrame DEF TypeOK, taskRows, batchRow, assistRows
<1>1. ASSUME NEW t \in Tasks, Start(t) PROVE TypeOK'
  <2>1. TasksType' /\ LockType'
    BY <1>1 DEF Start, SetStatus, TasksType, LockType, Active, Terminal
  <2>2. QED
    BY <1>1, <2>1 DEF Start
<1>2. ASSUME NEW t \in Tasks, Finalize(t) PROVE TypeOK'
  <2>1. TasksType' /\ LockType'
    BY <1>2 DEF Finalize, SetStatus, TasksType, LockType, Active, Terminal
  <2>2. QED
    BY <1>2, <2>1 DEF Finalize
<1>3. ASSUME NEW t \in Tasks, Succeed(t) PROVE TypeOK'
  <2>1. TasksType' /\ LockType'
    BY <1>3 DEF Succeed, SetStatus, TasksType, LockType, Active, Terminal
  <2>2. QED
    BY <1>3, <2>1 DEF Succeed
<1>4. ASSUME NEW t \in Tasks, Fail(t) PROVE TypeOK'
  <2>1. TasksType' /\ LockType'
    BY <1>4 DEF Fail, SetStatus, TasksType, LockType, Active, Terminal
  <2>2. QED
    BY <1>4, <2>1 DEF Fail
<1>5. ASSUME NEW t \in Tasks, Rewrite(t) PROVE TypeOK'
  <2>1. LockType'
    BY <1>5 DEF Rewrite, LockType
  <2>2. QED
    BY <1>5, <2>1 DEF Rewrite
<1>6. ASSUME NEW t \in Tasks, AdvanceAgain(t) PROVE TypeOK'
  <2>1. LockType'
    BY <1>6 DEF AdvanceAgain, LockType
  <2>2. QED
    BY <1>6, <2>1 DEF AdvanceAgain
<1>7. ASSUME NEW t \in Tasks, AdvanceCount(t) PROVE TypeOK'
  <2>1. LockType'
    BY <1>7, CountsAreNaturals DEF AdvanceCount, LockType
  <2>2. QED
    BY <1>7, <2>1 DEF AdvanceCount
<1>8. ASSUME NEW t \in Tasks, AdvanceError(t) PROVE TypeOK'
  <2>1. LockType'
    BY <1>8 DEF AdvanceError, LockType, Unlocked
  <2>2. JobType'
    BY <1>8 DEF AdvanceError, JobType
  <2>3. QED
    BY <1>8, <2>1, <2>2 DEF AdvanceError
<1>9. ASSUME NEW t \in Tasks, Dispatch(t) PROVE TypeOK'
  <2>1. TasksType' /\ LockType'
    BY <1>9 DEF Dispatch, SetStatus, TasksType, LockType, Active, Terminal
  <2>2. JobType'
    BY <1>9 DEF Dispatch, Continue, NoJob, JobType
  <2>3. QED
    BY <1>9, <2>1, <2>2 DEF Dispatch
<1>10. ASSUME NEW t \in Tasks, FailAssisted(t) PROVE TypeOK'
  <2>1. TasksType' /\ LockType'
    BY <1>10 DEF FailAssisted, SetStatus, TasksType, LockType, Active, Terminal
  <2>2. JobType'
    BY <1>10 DEF FailAssisted, Continue, NoJob, JobType
  <2>3. QED
    BY <1>10, <2>1, <2>2 DEF FailAssisted
<1>11. ASSUME AdvanceCommit PROVE TypeOK'
  <2>1. advancing.task \in Tasks /\ status[advancing.task] \in Terminal
    BY <1>11, LockedValues DEF AdvanceCommit
  <2>2. TasksType' /\ \A t \in Tasks : status[t] \in Terminal => status'[t] = status[t]
    <3>1. CASE StopDeferred
      BY <1>11, <3>1, CountsAreNaturals
      DEF AdvanceCommit, StopDeferred, RefundStopped, TasksType, Terminal
    <3>2. CASE ReleaseNext
      <4>1. \A n : FirstDeferred(n) \in SUBSET With("deferred")
        BY DEF FirstDeferred
      <4>2. QED
        BY <1>11, <3>2, <4>1 DEF AdvanceCommit, ReleaseNext, TasksType, With, Active, Terminal
    <3>3. QED
      BY <1>11, <3>1, <3>2 DEF AdvanceCommit
  <2>3. batchStatus' \in Concluded \cup {"running"} /\ failedCount' \in Nat
    <3>1. CASE StopDeferred
      BY <3>1, CountsAreNaturals, LockedValues DEF StopDeferred, Concluded
    <3>2. CASE ReleaseNext
      BY <3>2, LockedValues DEF ReleaseNext, Outcome, Concluded
    <3>3. QED
      BY <1>11, <3>1, <3>2 DEF AdvanceCommit
  <2>4. BatchType'
    BY <1>11, <2>1, <2>3, LockedValues DEF AdvanceCommit, BatchType
  <2>5. LockType'
    BY <1>11, <2>2 DEF AdvanceCommit, LockType, Unlocked
  <2>6. QED
    BY <1>11, <2>2, <2>4, <2>5 DEF AdvanceCommit
<1>12. ASSUME EnhanceDone PROVE TypeOK'
  <2>1. JobType'
    BY <1>12 DEF EnhanceDone, Continue, NoJob, JobType
  <2>2. QED
    BY <1>12, <2>1 DEF EnhanceDone
<1>13. ASSUME EnhanceFail PROVE TypeOK'
  <2>1. JobType'
    BY <1>13 DEF EnhanceFail, Continue, NoJob, JobType
  <2>2. QED
    BY <1>13, <2>1 DEF EnhanceFail
<1>14. ASSUME BackendCrash PROVE TypeOK'
  <2>1. LockType'
    BY <1>14 DEF BackendCrash, LockType, Unlocked
  <2>2. JobType'
    BY <1>14 DEF BackendCrash, NoJob, JobType
  <2>3. QED
    BY <1>14, <2>1, <2>2 DEF BackendCrash
<1>15. ASSUME ResumeAssist PROVE TypeOK'
  <2>1. JobType'
    BY <1>15 DEF ResumeAssist, Continue, NoJob, JobType
  <2>2. QED
    BY <1>15, <2>1 DEF ResumeAssist
<1>16. ASSUME UNCHANGED vars PROVE TypeOK'
  BY <1>16 DEF vars
<1>17. QED
  BY <1>1, <1>2, <1>3, <1>4, <1>5, <1>6, <1>7, <1>8, <1>9, <1>10, <1>11,
     <1>12, <1>13, <1>14, <1>15, <1>16 DEF Next, TaskNext

(* In every reachable state of a batch of any size the variables have      *)
(* their types; only settled tasks wait for their advance, and the advance *)
(* that holds the row lock is one of those.                                *)
THEOREM TypeCorrect == Spec => []TypeOK
<1>1. QED
  BY InitType, NextType, PTL DEF Spec

-----------------------------------------------------------------------------
(* What a step may do to the tasks.                                        *)

(* No task changes between deferred, active, succeeded and failed. *)
Kept ==
  /\ \A t \in Tasks : \/ status'[t] = status[t]
                      \/ status[t] \in Active /\ status'[t] \in Active
  /\ refunded' = refunded

(* One task is settled; a deferred one only by a failed prompt assist. *)
Settled(t, s) ==
  /\ status[t] \in Active \/ (status[t] = "deferred" /\ s = "failed" /\ job.phase = "fail")
  /\ status' = [status EXCEPT ![t] = s]
  /\ refunded' = IF s = "failed" THEN refunded \cup {t} ELSE refunded

(* What becomes of the row lock outside AdvanceCommit. *)
LockKept == advancing' = advancing \/ advancing' = Unlocked
Counted  == Kept /\ status' = status /\ \E t \in Tasks : AdvanceCount(t)

(* A step that is not the commit of an advance. *)
Quiet ==
  /\ UNCHANGED <<assist, batchRow>>
  /\ \/ Counted
     \/ LockKept /\ Kept
     \/ LockKept /\ \E t \in Tasks, s \in Terminal : Settled(t, s)

(* Every step commits an advance or is quiet. *)
LEMMA StepEffect == TypeOK /\ [Next]_vars => AdvanceCommit \/ Quiet
<1> SUFFICES ASSUME TypeOK, [Next]_vars, ~AdvanceCommit PROVE Quiet
  OBVIOUS
<1> USE DEF taskRows, assistRows
<1>1. ASSUME NEW t \in Tasks, Start(t) PROVE Quiet
  BY <1>1 DEF Start, SetStatus, Quiet, LockKept, Kept, TypeOK, TasksType, Active
<1>2. ASSUME NEW t \in Tasks, Finalize(t) PROVE Quiet
  BY <1>2 DEF Finalize, SetStatus, Quiet, LockKept, Kept, TypeOK, TasksType, Active
<1>3. ASSUME NEW t \in Tasks, Succeed(t) PROVE Quiet
  <2>1. Settled(t, "success")
    BY <1>3 DEF Succeed, SetStatus, Settled, Active
  <2>2. QED
    BY <1>3, <2>1 DEF Succeed, Quiet, LockKept, Terminal
<1>4. ASSUME NEW t \in Tasks, Fail(t) PROVE Quiet
  <2>1. Settled(t, "failed")
    BY <1>4 DEF Fail, SetStatus, Settled
  <2>2. QED
    BY <1>4, <2>1 DEF Fail, Quiet, LockKept, Terminal
<1>5. ASSUME NEW t \in Tasks, Rewrite(t) PROVE Quiet
  BY <1>5 DEF Rewrite, Quiet, LockKept, Kept
<1>6. ASSUME NEW t \in Tasks, AdvanceAgain(t) PROVE Quiet
  BY <1>6 DEF AdvanceAgain, Quiet, LockKept, Kept
<1>7. ASSUME NEW t \in Tasks, AdvanceCount(t) PROVE Quiet
  BY <1>7 DEF AdvanceCount, Quiet, Counted, Kept
<1>8. ASSUME NEW t \in Tasks, AdvanceError(t) PROVE Quiet
  BY <1>8 DEF AdvanceError, Quiet, LockKept, Kept
<1>9. ASSUME NEW t \in Tasks, Dispatch(t) PROVE Quiet
  <2>1. Kept
    BY <1>9 DEF Dispatch, SetStatus, Kept, TypeOK, TasksType, Active
  <2>2. QED
    BY <1>9, <2>1 DEF Dispatch, Quiet, LockKept
<1>10. ASSUME NEW t \in Tasks, FailAssisted(t) PROVE Quiet
  <2>1. CASE status[t] \in Terminal
    BY <1>10, <2>1 DEF FailAssisted, Quiet, LockKept, Kept
  <2>2. CASE status[t] \notin Terminal
    <3>1. Settled(t, "failed")
      BY <1>10, <2>2 DEF FailAssisted, SetStatus, Settled, TypeOK, TasksType
    <3>2. QED
      BY <1>10, <3>1 DEF FailAssisted, Quiet, LockKept, Terminal
  <2>3. QED
    BY <2>1, <2>2
<1>11. ASSUME EnhanceDone PROVE Quiet
  BY <1>11 DEF EnhanceDone, Quiet, LockKept, Kept
<1>12. ASSUME EnhanceFail PROVE Quiet
  BY <1>12 DEF EnhanceFail, Quiet, LockKept, Kept
<1>13. ASSUME BackendCrash PROVE Quiet
  BY <1>13 DEF BackendCrash, Quiet, LockKept, Kept
<1>14. ASSUME ResumeAssist PROVE Quiet
  BY <1>14 DEF ResumeAssist, Quiet, LockKept, Kept
<1>15. ASSUME UNCHANGED vars PROVE Quiet
  BY <1>15 DEF vars, Quiet, LockKept, Kept
<1>16. QED
  BY <1>1, <1>2, <1>3, <1>4, <1>5, <1>6, <1>7, <1>8, <1>9, <1>10, <1>11,
     <1>12, <1>13, <1>14, <1>15 DEF Next, TaskNext

(* The tasks R are released. *)
Released(R) ==
  /\ R \in SUBSET With("deferred")
  /\ Cardinality(R) <= Slots /\ Cardinality(R) <= advancing.deferred
  /\ status' = [t \in Tasks |-> IF t \in R THEN "queued" ELSE status[t]]
  /\ refunded' = refunded

(* An advance that does not stop releases no more tasks than have a place. *)
LEMMA ReleaseEffect == TypeOK /\ ReleaseNext => \E R \in SUBSET Tasks : Released(R)
<1> SUFFICES ASSUME TypeOK, ReleaseNext PROVE \E R \in SUBSET Tasks : Released(R)
  OBVIOUS
<1> DEFINE limit == IF advancing.deferred < Slots THEN advancing.deferred ELSE Slots
<1>1. limit \in Nat /\ limit <= Slots /\ limit <= advancing.deferred
  BY LockedValues
<1>2. /\ FirstDeferred(limit) \in SUBSET With("deferred")
      /\ FirstDeferred(limit) \in SUBSET Tasks
      /\ Cardinality(FirstDeferred(limit)) <= limit
  BY <1>1, FirstDeferredBounded, CountsAreNaturals
<1>3. Cardinality(FirstDeferred(limit)) \in Nat
  BY <1>2, TasksFinite
<1>4. Released(FirstDeferred(limit))
  BY <1>1, <1>2, <1>3, LockedValues DEF ReleaseNext, Released
<1>5. QED
  BY <1>2, <1>4

-----------------------------------------------------------------------------
(* Refunds.                                                                *)

(* Every step keeps the refunded tasks and the failed ones the same. *)
LEMMA NextRefunds ==
  TypeOK /\ RefundedIffFailed /\ [Next]_vars => RefundedIffFailed'
<1> SUFFICES ASSUME TypeOK, RefundedIffFailed, [Next]_vars PROVE RefundedIffFailed'
  OBVIOUS
<1> USE DEF RefundedIffFailed, With, TypeOK, TasksType
<1>1. CASE Kept
  BY <1>1 DEF Kept, Active
<1>2. ASSUME NEW t \in Tasks, NEW s \in Terminal, Settled(t, s) PROVE RefundedIffFailed'
  BY <1>2 DEF Settled, Active
<1>3. CASE AdvanceCommit /\ StopDeferred
  BY <1>3 DEF StopDeferred, RefundStopped
<1>4. CASE AdvanceCommit /\ ReleaseNext
  <2>1. PICK R \in SUBSET Tasks : Released(R)
    BY <1>4, ReleaseEffect
  <2>2. QED
    BY <2>1 DEF Released
<1>5. QED
  BY <1>1, <1>2, <1>3, <1>4, StepEffect DEF AdvanceCommit, Quiet, Counted

(* In a batch of any size the tasks whose charge was given back are at any *)
(* time exactly the failed ones: whoever fails a task, one at a time, as   *)
(* the tail of a stopped batch or after a failed prompt assist, refunds it *)
(* with the same transaction.                                              *)
THEOREM RefundCorrect == Spec => []RefundedIffFailed
<1>1. Init => RefundedIffFailed
  BY DEF Init, RefundedIffFailed, With
<1>2. QED
  BY <1>1, NextRefunds, TypeCorrect, PTL DEF Spec

-----------------------------------------------------------------------------
(* The window of active tasks.                                             *)

(* Between the count of an advance and its commit tasks may be settled,    *)
(* but none becomes active: the advance never undercounts.  Released tasks *)
(* fit into the places it computes although its count may be old.          *)
Window ==
  /\ ActiveWithinConcurrency
  /\ advancing.task # 0 => /\ Cardinality(ActiveTasks) <= advancing.active
                          /\ Cardinality(With("deferred")) <= advancing.deferred

(* Quiet steps make no task active and put none back. *)
LEMMA QuietShrinks ==
  TypeOK /\ TypeOK' /\ Quiet =>
    /\ ActiveTasks' \subseteq ActiveTasks
    /\ With("deferred")' \subseteq With("deferred")
    /\ Cardinality(ActiveTasks)' <= Cardinality(ActiveTasks)
    /\ Cardinality(With("deferred"))' <= Cardinality(With("deferred"))
<1> SUFFICES ASSUME TypeOK, TypeOK', Quiet
             PROVE  /\ ActiveTasks' \in SUBSET ActiveTasks
                    /\ With("deferred")' \in SUBSET With("deferred")
  BY CountsAreNaturals, Fewer
<1>1. CASE Kept
  BY <1>1 DEF Kept, ActiveTasks, With, Active
<1>2. ASSUME NEW t \in Tasks, NEW s \in Terminal, Settled(t, s)
      PROVE  /\ ActiveTasks' \in SUBSET ActiveTasks
             /\ With("deferred")' \in SUBSET With("deferred")
  BY <1>2 DEF Settled, ActiveTasks, With, Active, Terminal, TypeOK, TasksType
<1>3. QED
  BY <1>1, <1>2 DEF Quiet, Counted

(* The released tasks fit into the window. *)
LEMMA ReleaseFits ==
  ASSUME TypeOK, Window, AdvanceCommit, NEW R \in SUBSET Tasks, Released(R)
  PROVE  /\ ActiveTasks' = ActiveTasks \cup R
         /\ Cardinality(ActiveTasks \cup R) <= Concurrency
<1>1. ActiveTasks' = ActiveTasks \cup R
  BY DEF Released, ActiveTasks, With, Active, TypeOK, TasksType
<1>2. /\ IsFiniteSet(ActiveTasks) /\ IsFiniteSet(R)
      /\ Cardinality(ActiveTasks) \in Nat /\ Cardinality(R) \in Nat
      /\ ActiveTasks \cap R = {}
  BY TasksFinite, CountsAreNaturals DEF Released, ActiveTasks, With, Active
<1>3. Cardinality(ActiveTasks \cup R) = Cardinality(ActiveTasks) + Cardinality(R)
  BY <1>2, FS_Union, FS_EmptySet
<1>4. /\ Cardinality(ActiveTasks) <= Concurrency
      /\ Cardinality(ActiveTasks) <= advancing.active
      /\ Cardinality(R) <= Slots
      /\ advancing.active \in Nat /\ Concurrency \in Nat
  BY LockedValues DEF Window, ActiveWithinConcurrency, AdvanceCommit, Released
<1>5. QED
  BY <1>1, <1>2, <1>3, <1>4 DEF Slots

(* A stopped batch has the active tasks it had. *)
LEMMA StopKeepsActive == TypeOK /\ StopDeferred => ActiveTasks' = ActiveTasks
  BY DEF StopDeferred, ActiveTasks, Active, TypeOK, TasksType

(* In the beginning the first Concurrency tasks are active. *)
LEMMA InitWindow == Init => ActiveTasks = 1..Concurrency /\ Window
<1> SUFFICES ASSUME Init PROVE ActiveTasks = 1..Concurrency /\ Window
  OBVIOUS
<1>1. ActiveTasks = 1..Concurrency
  <2>1. \A t \in Tasks : status[t] \in Active <=> ~ t > Concurrency
    BY DEF Init, Active
  <2>2. \A t : t \in Tasks /\ ~ t > Concurrency <=> t \in 1..Concurrency
    BY DEF Tasks
  <2>3. QED
    BY <2>1, <2>2 DEF ActiveTasks
<1>2. Cardinality(1..Concurrency) = Concurrency
  BY FS_Interval
<1>3. advancing.task = 0
  BY DEF Init, Unlocked
<1>4. QED
  BY <1>1, <1>2, <1>3 DEF Window, ActiveWithinConcurrency

(* Every step respects the window. *)
LEMMA NextWindow == TypeOK /\ Window /\ [Next]_vars => Window'
<1> SUFFICES ASSUME TypeOK, Window, [Next]_vars PROVE Window'
  OBVIOUS
<1>1. TypeOK'
  BY NextType
<1>2. /\ Cardinality(ActiveTasks) \in Nat /\ Cardinality(ActiveTasks)' \in Nat
      /\ Cardinality(With("deferred")) \in Nat /\ Cardinality(With("deferred"))' \in Nat
  BY CountsAreNaturals, <1>1, TasksFinite DEF ActiveTasks, With
<1>3. CASE Quiet
  <2>1. /\ Cardinality(ActiveTasks)' <= Cardinality(ActiveTasks)
        /\ Cardinality(With("deferred"))' <= Cardinality(With("deferred"))
    BY <1>1, <1>3, QuietShrinks
  <2>2. ActiveWithinConcurrency'
    BY <1>2, <2>1 DEF Window, ActiveWithinConcurrency
  <2>3. CASE LockKept
    BY <1>1, <1>2, <2>1, <2>2, <2>3, LockedValues DEF LockKept, Window, Unlocked, TypeOK, LockType
  <2>4. CASE Counted
    <3>1. /\ advancing'.active = Cardinality(ActiveTasks)
          /\ advancing'.deferred = Cardinality(With("deferred"))
      BY <2>4 DEF Counted, AdvanceCount
    <3>2. QED
      BY <2>1, <2>2, <3>1 DEF Window
  <2>5. QED
    BY <1>3, <2>3, <2>4 DEF Quiet
<1>4. CASE AdvanceCommit
  <2>1. advancing'.task = 0
    BY <1>4 DEF AdvanceCommit, Unlocked
  <2>2. CASE StopDeferred
    BY <2>1, <2>2, StopKeepsActive DEF Window, ActiveWithinConcurrency
  <2>3. CASE ReleaseNext
    <3>1. PICK R \in SUBSET Tasks : Released(R)
      BY <2>3, ReleaseEffect
    <3>2. QED
      BY <1>4, <2>1, <3>1, ReleaseFits DEF Window, ActiveWithinConcurrency
  <2>4. QED
    BY <1>4, <2>2, <2>3 DEF AdvanceCommit
<1>5. QED
  BY <1>3, <1>4, StepEffect

(* A batch never has more active tasks than its concurrency. *)
LEMMA WindowCorrect == Spec => []Window
  BY InitWindow, NextWindow, TypeCorrect, PTL DEF Spec

(* A batch of any size never has more active tasks than its concurrency,   *)
(* although an advance releases tasks on counts that settlements without   *)
(* the row lock may have made old.                                         *)
THEOREM ConcurrencyCorrect == Spec => []ActiveWithinConcurrency
<1>1. Window => ActiveWithinConcurrency
  BY DEF Window
<1>2. QED
  BY <1>1, WindowCorrect, PTL

-----------------------------------------------------------------------------
(* The batch implements the abstract window.                               *)

(* The instance counts as this module does. *)
LEMMA SameCardinality == \A S : W!Cardinality(S) = Cardinality(S)
  BY DEF W!Cardinality, Cardinality

(* The initial phases are those of the abstract window. *)
LEMMA InitRefined == Init => W!Init
<1> SUFFICES ASSUME Init PROVE W!Init
  OBVIOUS
<1>1. TypeOK /\ Window
  BY InitType, InitWindow
<1>2. W!Phase("open") = ActiveTasks
  BY <1>1 DEF W!Phase, Phase, ActiveTasks, TypeOK, TasksType, Active
<1>3. Phase \in [Tasks -> {"waiting", "open"}]
  BY DEF Init, Phase, Active
<1>4. QED
  BY <1>1, <1>2, <1>3, SameCardinality DEF W!Init, Window, ActiveWithinConcurrency

(* The abstract sets of waiting and open tasks. *)
LEMMA PhaseSets ==
  TypeOK => /\ W!Phase("waiting") = With("deferred")
            /\ W!Phase("open") = ActiveTasks
  BY DEF W!Phase, Phase, With, ActiveTasks, TypeOK, TasksType, Active

(* Every step is a step of the abstract window or leaves it as it is. *)
LEMMA NextRefined == TypeOK /\ Window /\ [Next]_vars => [W!Next]_Phase
<1> SUFFICES ASSUME TypeOK, Window, [Next]_vars PROVE [W!Next]_Phase
  OBVIOUS
<1> USE PhaseSets DEF Phase, TypeOK, TasksType
<1>1. CASE Kept
  BY <1>1 DEF Kept, Active
<1>2. ASSUME NEW t \in Tasks, NEW s \in Terminal, Settled(t, s)
      PROVE  W!Close({t})
  <2>1. {t} \subseteq With("deferred") \cup ActiveTasks
    BY <1>2 DEF Settled, With, ActiveTasks
  <2>2. Phase' = [u \in Tasks |-> IF u \in {t} THEN "closed" ELSE Phase[u]]
    BY <1>2 DEF Settled, Active, Terminal
  <2>3. QED
    BY <2>1, <2>2 DEF W!Close, W!Move
<1>3. CASE StopDeferred
  <2>1. PICK S \in SUBSET Tasks : S = With("deferred")
    BY DEF With
  <2>2. Phase' = [u \in Tasks |-> IF u \in S THEN "closed" ELSE Phase[u]]
    BY <1>3, <2>1 DEF StopDeferred, With, Active
  <2>3. W!Close(S)
    BY <2>1, <2>2 DEF W!Close, W!Move
  <2>4. QED
    BY <2>3 DEF W!Next
<1>4. CASE AdvanceCommit /\ ReleaseNext
  <2>1. PICK R \in SUBSET Tasks : Released(R)
    BY <1>4, ReleaseEffect
  <2>2. Phase' = [u \in Tasks |-> IF u \in R THEN "open" ELSE Phase[u]]
    BY <2>1 DEF Released, With, Active
  <2>3. R \subseteq With("deferred") /\ Cardinality(ActiveTasks \cup R) <= Concurrency
    BY <1>4, <2>1, ReleaseFits DEF Released
  <2>4. W!Open(R)
    BY <2>2, <2>3, SameCardinality DEF W!Open, W!Move
  <2>5. QED
    BY <2>4 DEF W!Next
<1>5. QED
  <2>1. \A t \in Tasks : {t} \in SUBSET Tasks
    OBVIOUS
  <2>2. QED
    BY <1>1, <1>2, <1>3, <1>4, <2>1, StepEffect DEF AdvanceCommit, Quiet, Counted, W!Next

(* A batch of any size passes its tasks through the abstract window: no    *)
(* task is opened without room, and none that is settled is opened again.  *)
THEOREM WindowRefined == Spec => WindowRespected
<1>1. WindowRespected <=> W!Init /\ [][W!Next]_Phase
  BY DEF WindowRespected, W!Spec
<1>2. QED
  BY <1>1, InitRefined, NextRefined, TypeCorrect, WindowCorrect, PTL DEF Spec

-----------------------------------------------------------------------------
(* The stop rule.                                                          *)

FailureKeys == {k \in advanceKeys : k[2] = "failed"}

(* Every failure in the streak has left a key of its own, and the advance  *)
(* that holds the lock will add a new one: its key cannot appear while it  *)
(* waits, since only the holder of the lock writes keys and its task does  *)
(* not change its final status.                                            *)
StreakCovered ==
  /\ streak <= Cardinality(FailureKeys)
  /\ advancing.task # 0 => ~AlreadyAdvanced(advancing.task)

(* The keys are finitely many. *)
LEMMA KeysFinite ==
  \A K \in SUBSET (Tasks \X Terminal) : IsFiniteSet(K) /\ Cardinality(K) \in Nat
<1>1. IsFiniteSet({"success"}) /\ IsFiniteSet({"success"} \cup {"failed"})
  BY FS_Singleton, FS_AddElement
<1>2. IsFiniteSet(Terminal)
  <2>1. Terminal = {"success"} \cup {"failed"}
    BY DEF Terminal
  <2>2. QED
    BY <1>1, <2>1
<1>3. IsFiniteSet(Tasks \X Terminal)
  BY <1>2, TasksFinite, FS_Product
<1>4. QED
  BY <1>3, FS_Subset, FS_CardinalityType

(* A quiet step leaves settled tasks as they are. *)
LEMMA QuietKeepsSettled ==
  ASSUME TypeOK, Quiet, NEW t \in Tasks, status[t] \in Terminal
  PROVE  status'[t] = status[t]
  BY DEF Quiet, Counted, Kept, Settled, TypeOK, TasksType, Active, Terminal

(* A commit counts one more failure when its task has failed. *)
LEMMA CommitAddsKey ==
  ASSUME TypeOK, StreakCovered, AdvanceCommit
  PROVE  /\ NextStreak \in Nat
         /\ NextStreak <= Cardinality(FailureKeys')
<1> DEFINE key == <<advancing.task, status[advancing.task]>>
<1>1. /\ IsFiniteSet(FailureKeys) /\ Cardinality(FailureKeys) \in Nat
      /\ IsFiniteSet(FailureKeys') /\ Cardinality(FailureKeys') \in Nat
  <2>1. BatchType /\ BatchType'
    BY NextType DEF Next, TypeOK
  <2>2. FailureKeys \in SUBSET (Tasks \X Terminal) /\ FailureKeys' \in SUBSET (Tasks \X Terminal)
    BY <2>1 DEF BatchType, FailureKeys
  <2>3. QED
    BY <2>2, KeysFinite
<1>2. streak \in Nat /\ advancing.task # 0
  BY DEF TypeOK, BatchType, AdvanceCommit
<1>3. key \notin FailureKeys
  BY <1>2 DEF StreakCovered, AlreadyAdvanced, FailureKeys
<1>4. CASE status[advancing.task] = "failed"
  <2>1. FailureKeys' = FailureKeys \cup {key}
    BY <1>4 DEF AdvanceCommit, FailureKeys
  <2>2. Cardinality(FailureKeys') = Cardinality(FailureKeys) + 1
    BY <1>1, <1>3, <2>1, FS_AddElement
  <2>3. QED
    BY <1>1, <1>2, <1>4, <2>2 DEF NextStreak, StreakCovered
<1>5. CASE status[advancing.task] # "failed"
  BY <1>1, <1>5 DEF NextStreak
<1>6. QED
  BY <1>4, <1>5

(* Every step keeps the streak covered. *)
LEMMA NextStreakCovered == TypeOK /\ StreakCovered /\ [Next]_vars => StreakCovered'
<1> SUFFICES ASSUME TypeOK, StreakCovered, [Next]_vars PROVE StreakCovered'
  OBVIOUS
<1>1. CASE Quiet
  <2>1. (streak <= Cardinality(FailureKeys))' /\ advanceKeys' = advanceKeys
    BY <1>1 DEF Quiet, batchRow, StreakCovered, FailureKeys
  <2>2. CASE LockKept
    <3>1. ASSUME advancing'.task # 0
          PROVE  /\ advancing' = advancing
                 /\ advancing.task \in Tasks /\ status[advancing.task] \in Terminal
      BY <2>2, <3>1, LockedValues DEF LockKept, Unlocked
    <3>2. ASSUME advancing'.task # 0
          PROVE  status'[advancing'.task] = status[advancing.task]
      BY <1>1, <3>1, <3>2, QuietKeepsSettled
    <3>3. QED
      BY <2>1, <3>1, <3>2 DEF StreakCovered, AlreadyAdvanced
  <2>3. CASE Counted
    BY <2>1, <2>3 DEF Counted, AdvanceCount, StreakCovered, AlreadyAdvanced
  <2>4. QED
    BY <1>1, <2>2, <2>3 DEF Quiet
<1>2. CASE AdvanceCommit
  BY <1>2, CommitAddsKey DEF AdvanceCommit, StreakCovered, Unlocked
<1>3. QED
  BY <1>1, <1>2, StepEffect

(* A step that fails an unreleased task follows a failed prompt assist or  *)
(* commits an advance whose streak has reached the threshold.              *)
LEMMA StopStep ==
  TypeOK /\ StreakCovered /\ [Next]_vars =>
    ((\E t \in Tasks : status[t] = "deferred" /\ status'[t] = "failed")
       => \/ job.phase = "fail"
          \/ Cardinality({k \in advanceKeys' : k[2] = "failed"}) >= StopAfter)
<1> SUFFICES ASSUME TypeOK, StreakCovered, [Next]_vars, job.phase # "fail",
                    NEW t \in Tasks, status[t] = "deferred", status'[t] = "failed"
             PROVE  Cardinality({k \in advanceKeys' : k[2] = "failed"}) >= StopAfter
  OBVIOUS
<1>1. ~Quiet
  BY DEF Quiet, Counted, Kept, Settled, TypeOK, TasksType, Active
<1>2. AdvanceCommit
  BY <1>1, StepEffect
<1>3. ~ReleaseNext
  BY DEF ReleaseNext
<1>4. NextStreak >= StopAfter
  BY <1>2, <1>3 DEF AdvanceCommit, StopDeferred, Stopping
<1>5. NextStreak \in Nat /\ NextStreak <= Cardinality(FailureKeys') /\ StopAfter \in Nat
  BY <1>2, CommitAddsKey
<1>6. Cardinality(FailureKeys') \in Nat
  <2>1. BatchType'
    BY NextType DEF TypeOK
  <2>2. FailureKeys' \in SUBSET (Tasks \X Terminal)
    BY <2>1 DEF BatchType, FailureKeys
  <2>3. QED
    BY <2>2, KeysFinite
<1>7. QED
  BY <1>4, <1>5, <1>6 DEF FailureKeys

(* In a batch of any size and with any threshold, unreleased tasks are     *)
(* stopped only after as many different tasks have failed and advanced the *)
(* batch as the threshold demands, however often a terminal status is      *)
(* reported, unless the prompt assist of the batch has failed.             *)
THEOREM StopCorrect == Spec => StopNeedsFailures
<1>1. Init => StreakCovered
  <2>1. Init => streak = 0 /\ FailureKeys = {} /\ advancing.task = 0
    BY DEF Init, FailureKeys, Unlocked
  <2>2. QED
    BY <2>1, FS_EmptySet DEF StreakCovered
<1>2. TypeOK /\ StreakCovered /\ [Next]_vars =>
        [(\E t \in Tasks : status[t] = "deferred" /\ status'[t] = "failed")
          => \/ job.phase = "fail"
             \/ Cardinality({k \in advanceKeys' : k[2] = "failed"}) >= StopAfter]_vars
  BY StopStep
<1>3. QED
  BY <1>1, <1>2, NextStreakCovered, TypeCorrect, PTL DEF Spec, StopNeedsFailures

-----------------------------------------------------------------------------
(* The verdict.                                                            *)

(* The counts of the advance that holds the lock. *)
Exact ==
  /\ advancing.success = Cardinality(With("success"))
  /\ advancing.failed = Cardinality(With("failed"))
  /\ advancing.deferred = Cardinality(With("deferred"))

(* Once no task is active, only a prompt assist could change one: without  *)
(* it, counts taken then are still exact at the commit.                    *)
VerdictInv ==
  /\ OutcomeTruthful
  /\ assist = "off" => job.phase = "none"
  /\ assist = "off" /\ advancing.task # 0 /\ advancing.active = 0 => Exact

(* A task is deferred, active, succeeded or failed. *)
LEMMA Partition ==
  ASSUME NEW S \in SUBSET Tasks, NEW F \in SUBSET Tasks, S \cap F = {}, S \cup F = Tasks
  PROVE  /\ Cardinality(S) \in Nat /\ Cardinality(F) \in Nat
         /\ Cardinality(S) + Cardinality(F) = Count
<1>1. /\ IsFiniteSet(S) /\ IsFiniteSet(F)
      /\ Cardinality(S) \in Nat /\ Cardinality(F) \in Nat
  BY TasksFinite
<1>2. Cardinality(S \cup F) = Cardinality(S) + Cardinality(F)
  BY <1>1, FS_Union, FS_EmptySet
<1>3. QED
  BY <1>1, <1>2, TasksFinite

(* The counts of a batch whose tasks are all settled give its verdict. *)
LEMMA AllSettled ==
  ASSUME TypeOK, \A t \in Tasks : status[t] \in Terminal
  PROVE  /\ Cardinality(With("success")) \in Nat /\ Cardinality(With("failed")) \in Nat
         /\ Cardinality(With("success")) + Cardinality(With("failed")) = Count
<1>1. /\ With("success") \in SUBSET Tasks /\ With("failed") \in SUBSET Tasks
      /\ With("success") \cap With("failed") = {}
      /\ With("success") \cup With("failed") = Tasks
  BY DEF With, Terminal
<1>2. QED
  BY <1>1, Partition

(* Without prompt assist there is never a job. *)
LEMMA NextNoJob ==
  [Next]_vars => assist' = assist /\ (assist = "off" /\ job.phase = "none" => job'.phase = "none")
<1> SUFFICES ASSUME [Next]_vars
             PROVE  /\ assist' = assist
                    /\ assist = "off" /\ job.phase = "none" => job'.phase = "none"
  OBVIOUS
<1> USE DEF assistRows
<1>1. ASSUME NEW t \in Tasks, TaskNext(t)
      PROVE  assist' = assist /\ (job.phase = "none" => job'.phase = "none")
  BY <1>1 DEF TaskNext, Start, Finalize, Succeed, Fail, Rewrite, AdvanceAgain,
     AdvanceCount, AdvanceError, Dispatch, FailAssisted
<1>2. CASE AdvanceCommit
  BY <1>2 DEF AdvanceCommit
<1>3. CASE EnhanceDone \/ EnhanceFail \/ ResumeAssist
  BY <1>3 DEF EnhanceDone, EnhanceFail, ResumeAssist
<1>4. CASE BackendCrash
  BY <1>4 DEF BackendCrash, NoJob
<1>5. CASE UNCHANGED vars
  BY <1>5 DEF vars
<1>6. QED
  BY <1>1, <1>2, <1>3, <1>4, <1>5 DEF Next

(* A quiet step leaves a finished batch as it is, and one without active   *)
(* tasks too unless its prompt assist fails.                               *)
LEMMA QuietStatus ==
  ASSUME TypeOK, TypeOK', Quiet, ActiveTasks = {},
         job.phase = "none" \/ \A t \in Tasks : status[t] \in Terminal
  PROVE  status' = status
<1>1. \A t \in Tasks : status[t] \notin Active
  BY DEF ActiveTasks
<1>2. ~ \E t \in Tasks, s \in Terminal : Settled(t, s)
  BY <1>1 DEF Settled, Terminal
<1>3. \A t \in Tasks : status'[t] = status[t]
  BY <1>1, <1>2 DEF Quiet, Counted, Kept
<1>4. status \in [Tasks -> Active \cup Terminal \cup {"deferred"}]
      /\ status' \in [Tasks -> Active \cup Terminal \cup {"deferred"}]
  BY DEF TypeOK, TasksType
<1>5. QED
  BY <1>3, <1>4

(* The commit of an advance that finds nothing to do but to conclude. *)
LEMMA ReleaseVerdict ==
  ASSUME TypeOK, Window, VerdictInv, AdvanceCommit, ReleaseNext
  PROVE  OutcomeTruthful'
<1> SUFFICES ASSUME batchStatus' \in Concluded
             PROVE  /\ \A t \in Tasks : status'[t] \in Terminal
                    /\ assist' = "off" =>
                         /\ successCount' = Cardinality(With("success"))'
                         /\ failedCount' = Cardinality(With("failed"))'
                         /\ batchStatus' = CASE successCount' = Count -> "success"
                                             [] successCount' = 0     -> "failed"
                                             [] OTHER                -> "partial_success"
  BY DEF OutcomeTruthful
<1>1. PICK R \in SUBSET Tasks : Released(R)
  BY ReleaseEffect
<1>2. advancing.active = 0 /\ advancing.deferred = 0
  <2>1. ~ advancing.active + advancing.deferred > 0
    BY DEF ReleaseNext, Outcome, Concluded
  <2>2. QED
    BY <2>1, LockedValues
<1>3. ActiveTasks = {} /\ With("deferred") = {}
  <2>1. Cardinality(ActiveTasks) = 0 /\ Cardinality(With("deferred")) = 0
    BY <1>2, CountsAreNaturals DEF Window, AdvanceCommit
  <2>2. QED
    BY <2>1, CountsAreNaturals, TasksFinite, FS_EmptySet
<1>4. \A t \in Tasks : status[t] \in Terminal
  BY <1>3 DEF ActiveTasks, With, TypeOK, TasksType
<1>5. status' = status
  BY <1>1, <1>3 DEF Released, TypeOK, TasksType
<1>6. ASSUME assist' = "off"
      PROVE  /\ successCount' = Cardinality(With("success"))'
             /\ failedCount' = Cardinality(With("failed"))'
             /\ batchStatus' = CASE successCount' = Count -> "success"
                                 [] successCount' = 0     -> "failed"
                                 [] OTHER                -> "partial_success"
  <2>1. Exact
    BY <1>2, <1>6 DEF VerdictInv, AdvanceCommit
  <2>2. With("success")' = With("success") /\ With("failed")' = With("failed")
    BY <1>5 DEF With
  <2>3. /\ successCount' = advancing.success /\ failedCount' = advancing.failed
        /\ batchStatus' = Outcome(advancing.active + advancing.deferred, advancing.failed)
    BY DEF AdvanceCommit, ReleaseNext
  <2>4. /\ advancing.success \in Nat /\ advancing.failed \in Nat
        /\ advancing.success + advancing.failed = Count
    BY <1>4, <2>1, AllSettled DEF Exact
  <2>5. QED
    BY <1>2, <2>1, <2>2, <2>3, <2>4 DEF Exact, Outcome
<1>7. QED
  BY <1>4, <1>5, <1>6

(* The commit of an advance that stops the batch. *)
LEMMA StopVerdict ==
  ASSUME TypeOK, TypeOK', Window, VerdictInv, AdvanceCommit, StopDeferred
  PROVE  OutcomeTruthful'
<1> SUFFICES ASSUME batchStatus' \in Concluded
             PROVE  /\ \A t \in Tasks : status'[t] \in Terminal
                    /\ assist' = "off" =>
                         /\ successCount' = Cardinality(With("success"))'
                         /\ failedCount' = Cardinality(With("failed"))'
                         /\ batchStatus' = CASE successCount' = Count -> "success"
                                             [] successCount' = 0     -> "failed"
                                             [] OTHER                -> "partial_success"
  BY DEF OutcomeTruthful
<1>1. advancing.active = 0
  BY LockedValues DEF StopDeferred, Concluded
<1>2. ActiveTasks = {}
  <2>1. Cardinality(ActiveTasks) = 0
    BY <1>1, CountsAreNaturals DEF Window, AdvanceCommit
  <2>2. QED
    BY <2>1, CountsAreNaturals, TasksFinite, FS_EmptySet
<1>3. \A t \in Tasks : status'[t] \in Terminal
  BY <1>2 DEF StopDeferred, ActiveTasks, TypeOK, TasksType, Terminal
<1>4. ASSUME assist' = "off"
      PROVE  /\ successCount' = Cardinality(With("success"))'
             /\ failedCount' = Cardinality(With("failed"))'
             /\ batchStatus' = CASE successCount' = Count -> "success"
                                 [] successCount' = 0     -> "failed"
                                 [] OTHER                -> "partial_success"
  <2>1. Exact
    BY <1>1, <1>4 DEF VerdictInv, AdvanceCommit
  <2>2. /\ With("success")' = With("success")
        /\ With("failed")' = With("failed") \cup With("deferred")
    BY DEF StopDeferred, With
  <2>3. /\ Cardinality(With("failed") \cup With("deferred"))
             = Cardinality(With("failed")) + Cardinality(With("deferred"))
        /\ Cardinality(With("success")) \in Nat
        /\ Cardinality(With("failed")) \in Nat
        /\ Cardinality(With("deferred")) \in Nat
    <3>1. With("failed") \cap With("deferred") = {}
      BY DEF With
    <3>2. /\ IsFiniteSet(With("failed")) /\ IsFiniteSet(With("deferred"))
          /\ Cardinality(With("success")) \in Nat
          /\ Cardinality(With("failed")) \in Nat
          /\ Cardinality(With("deferred")) \in Nat
      BY CountsAreNaturals, TasksFinite
    <3>3. /\ Cardinality(With("failed") \cup With("deferred"))
               = Cardinality(With("failed")) + Cardinality(With("deferred"))
                 - Cardinality(With("failed") \cap With("deferred"))
          /\ Cardinality(With("failed") \cap With("deferred")) = 0
      BY <3>1, <3>2, FS_Union, FS_EmptySet
    <3>4. QED
      BY <3>2, <3>3
  <2>4. Cardinality(With("success")) + Cardinality(With("failed") \cup With("deferred")) = Count
    <3>1. /\ With("success") \in SUBSET Tasks
          /\ With("failed") \cup With("deferred") \in SUBSET Tasks
          /\ With("success") \cap (With("failed") \cup With("deferred")) = {}
          /\ With("success") \cup (With("failed") \cup With("deferred")) = Tasks
      BY <1>2 DEF With, ActiveTasks, Terminal, TypeOK, TasksType
    <3>2. QED
      BY <3>1, Partition
  <2>5. /\ advancing.deferred > 0
        /\ successCount' = advancing.success
        /\ failedCount' = advancing.failed + Cardinality(With("deferred"))
        /\ batchStatus' = IF advancing.success > 0 THEN "partial_success" ELSE "failed"
    BY <1>1 DEF AdvanceCommit, StopDeferred, Stopping
  <2>6. /\ successCount' = Cardinality(With("success"))
        /\ failedCount' = Cardinality(With("failed") \cup With("deferred"))
        /\ failedCount' = Cardinality(With("failed")) + Cardinality(With("deferred"))
        /\ Cardinality(With("deferred")) > 0
    BY <2>1, <2>3, <2>5 DEF Exact
  <2>7. successCount' \in Nat /\ successCount' # Count
    BY <2>3, <2>4, <2>6
  <2>8. batchStatus' = IF successCount' > 0 THEN "partial_success" ELSE "failed"
    BY <2>5
  <2>9. /\ Cardinality(With("success"))' = Cardinality(With("success"))
        /\ Cardinality(With("failed"))' = Cardinality(With("failed") \cup With("deferred"))
    BY <2>2
  <2>10. batchStatus' = CASE successCount' = Count -> "success"
                          [] successCount' = 0     -> "failed"
                          [] OTHER                -> "partial_success"
    BY <2>7, <2>8
  <2>11. QED
    BY <2>6, <2>9, <2>10
<1>5. QED
  BY <1>3, <1>4

(* Every step keeps the verdict. *)
LEMMA NextVerdict == TypeOK /\ Window /\ VerdictInv /\ [Next]_vars => VerdictInv'
<1> SUFFICES ASSUME TypeOK, Window, VerdictInv, [Next]_vars PROVE VerdictInv'
  OBVIOUS
<1>1. TypeOK' /\ assist' = assist /\ (assist' = "off" => job'.phase = "none")
  BY NextType, NextNoJob DEF VerdictInv
<1>2. CASE Quiet
  <2>1. OutcomeTruthful'
    <3>1. CASE batchStatus \in Concluded
      <4>1. \A t \in Tasks : status[t] \in Terminal
        BY <3>1 DEF VerdictInv, OutcomeTruthful
      <4>2. ActiveTasks = {}
        BY <4>1 DEF ActiveTasks, Active, Terminal
      <4>3. status' = status
        BY <1>1, <1>2, <4>1, <4>2, QuietStatus
      <4>4. \A s : With(s)' = With(s)
        BY <4>3 DEF With
      <4>5. UNCHANGED <<assist, batchStatus, successCount, failedCount>>
        BY <1>2 DEF Quiet, batchRow
      <4>6. QED
        BY <4>3, <4>4, <4>5 DEF VerdictInv, OutcomeTruthful
    <3>2. CASE batchStatus \notin Concluded
      BY <1>2, <3>2 DEF Quiet, batchRow, OutcomeTruthful
    <3>3. QED
      BY <3>1, <3>2
  <2>2. ASSUME assist' = "off", advancing'.task # 0, advancing'.active = 0
        PROVE  Exact'
    <3>1. CASE LockKept
      <4>1. advancing' = advancing
        BY <2>2, <3>1 DEF LockKept, Unlocked
      <4>2. Cardinality(ActiveTasks) = 0
        BY <2>2, <4>1, CountsAreNaturals DEF Window
      <4>3. ActiveTasks = {}
        BY <4>2, CountsAreNaturals, TasksFinite, FS_EmptySet
      <4>4. job.phase = "none"
        BY <1>1, <2>2 DEF VerdictInv
      <4>5. status' = status
        BY <1>1, <1>2, <4>3, <4>4, QuietStatus
      <4>6. \A s : With(s)' = With(s)
        BY <4>5 DEF With
      <4>7. Exact
        BY <1>1, <2>2, <4>1 DEF VerdictInv
      <4>8. QED
        BY <4>1, <4>6, <4>7 DEF Exact
    <3>2. CASE Counted
      <4>1. \A s : With(s)' = With(s)
        BY <3>2 DEF Counted, With
      <4>2. QED
        BY <3>2, <4>1 DEF Counted, AdvanceCount, Exact
    <3>3. QED
      BY <1>2, <3>1, <3>2 DEF Quiet
  <2>3. QED
    BY <1>1, <2>1, <2>2 DEF VerdictInv
<1>3. CASE AdvanceCommit
  <2>1. OutcomeTruthful'
    BY <1>1, <1>3, ReleaseVerdict, StopVerdict DEF AdvanceCommit
  <2>2. advancing'.task = 0
    BY <1>3 DEF AdvanceCommit, Unlocked
  <2>3. QED
    BY <1>1, <2>1, <2>2 DEF VerdictInv
<1>4. QED
  BY <1>2, <1>3, StepEffect

(* A batch of any size that is reported as finished has no unfinished task *)
(* and, without prompt assist, the counts and the verdict of its tasks,    *)
(* although they were counted before the advance committed them.           *)
THEOREM VerdictCorrect == Spec => []OutcomeTruthful
<1>1. Init => VerdictInv
  BY DEF Init, VerdictInv, OutcomeTruthful, Concluded, Unlocked, NoJob
<1>2. VerdictInv => OutcomeTruthful
  BY DEF VerdictInv
<1>3. QED
  BY <1>1, <1>2, NextVerdict, TypeCorrect, WindowCorrect, PTL DEF Spec
-----------------------------------------------------------------------------
(* Nobody waits for an advance that nobody makes.                          *)

(* No advance was lost and no prompt assist has failed. *)
Carried == losses = 0 /\ (assist = "off" \/ assistOpen # {} \/ enhanced # {})

(* A key stands for the final status of its task.                          *)
KeysInv == \A k \in advanceKeys : status[k[1]] = k[2]

(* Until an advance is lost, the prompt assist is that of all tasks.       *)
AssistInv ==
  losses = 0 =>
    /\ job.phase # "boot"
    /\ job.phase = "enhance" => /\ assist # "off" /\ job.tasks = Tasks
                                /\ assistOpen = Tasks /\ enhanced = {}
    /\ job.phase = "fail" => assist # "off" /\ assistOpen = {} /\ enhanced = {}

(* What the advance that holds the lock has counted as active has been     *)
(* settled meanwhile only by somebody who will advance next; the deferred  *)
(* tasks are still those it has counted.                                   *)
LockInv ==
  Carried /\ advancing.task # 0 =>
    /\ ActiveTasks = {} /\ (\A t \in due \ {advancing.task} : AlreadyAdvanced(t))
       => advancing.active = 0
    /\ advancing.deferred = Cardinality(With("deferred"))

PendingInv == AdvancePending /\ KeysInv /\ AssistInv /\ LockInv

(* The first of the waiting tasks is among the first n of them. *)
LEMMA FirstDeferredSome ==
  ASSUME NEW n \in Nat, n > 0, With("deferred") # {}
  PROVE  FirstDeferred(n) # {}
<1>1. With("deferred") \in SUBSET Nat
  BY DEF With, Tasks
<1>2. PICK t \in With("deferred") :
        \A u \in With("deferred") : <<u, t>> \notin OpToRel(<, Nat)
  BY <1>1, WFMin, NatLessThanWellFounded
<1>3. {u \in With("deferred") : u < t} = {}
  BY <1>1, <1>2 DEF OpToRel
<1>4. t \in FirstDeferred(n)
  BY <1>2, <1>3, FS_EmptySet DEF FirstDeferred
<1>5. QED
  BY <1>4

(* What a step of a batch that loses nothing does, but for the commit of   *)
(* an advance: whoever settles a task will advance.                        *)
Settling ==
  /\ Carried /\ UNCHANGED <<advanceKeys, batchStatus>>
  /\ \A t \in due : t \in due' \/ AlreadyAdvanced(t)
  /\ advancing' = advancing \/ Counted
  /\ \/ Kept
     \/ \E t \in Tasks, s \in Terminal :
          /\ status[t] \in Active /\ status' = [status EXCEPT ![t] = s]
          /\ t \in due' /\ advancing' = advancing

LEMMA StepSettles ==
  ASSUME TypeOK, AssistInv, Carried', [Next]_vars, ~AdvanceCommit
  PROVE  Settling
<1> USE DEF taskRows, batchRow, assistRows
<1>0. /\ losses' = 0 /\ (assist' = "off" \/ assistOpen' # {} \/ enhanced' # {})
      /\ losses \in Nat /\ status \in [Tasks -> Active \cup Terminal \cup {"deferred"}]
  BY DEF Carried, TypeOK, JobType, TasksType
<1>1. ASSUME NEW t \in Tasks, Start(t) PROVE Settling
  BY <1>0, <1>1 DEF Start, SetStatus, Settling, Kept, Active, Carried
<1>2. ASSUME NEW t \in Tasks, Finalize(t) PROVE Settling
  BY <1>0, <1>2 DEF Finalize, SetStatus, Settling, Kept, Active, Carried
<1>3. ASSUME NEW t \in Tasks, Succeed(t) PROVE Settling
  <2>1. "success" \in Terminal /\ status[t] \in Active
    BY <1>3 DEF Succeed, Terminal, Active
  <2>2. QED
    BY <1>0, <1>3, <2>1 DEF Succeed, SetStatus, Settling, Carried
<1>4. ASSUME NEW t \in Tasks, Fail(t) PROVE Settling
  <2>1. "failed" \in Terminal
    BY DEF Terminal
  <2>2. QED
    BY <1>0, <1>4, <2>1 DEF Fail, SetStatus, Settling, Carried
<1>5. ASSUME NEW t \in Tasks, Rewrite(t) PROVE Settling
  BY <1>0, <1>5 DEF Rewrite, Settling, Kept, Carried
<1>6. ASSUME NEW t \in Tasks, AdvanceAgain(t) PROVE Settling
  BY <1>0, <1>6 DEF AdvanceAgain, Settling, Kept, Carried
<1>7. ASSUME NEW t \in Tasks, AdvanceCount(t) PROVE Settling
  BY <1>0, <1>7 DEF AdvanceCount, Settling, Counted, Kept, Carried
<1>8. ASSUME NEW t \in Tasks, AdvanceError(t) PROVE FALSE
  BY <1>0, <1>8 DEF AdvanceError
<1>9. ASSUME NEW t \in Tasks, Dispatch(t) PROVE Settling
  BY <1>0, <1>9 DEF Dispatch, SetStatus, Settling, Kept, Active, Carried
<1>10. ASSUME NEW t \in Tasks, FailAssisted(t) PROVE FALSE
  BY <1>0, <1>10 DEF FailAssisted, AssistInv
<1>11. CASE EnhanceDone
  <2>1. Tasks # {}
    BY DEF Tasks
  <2>2. QED
    BY <1>0, <1>11, <2>1 DEF EnhanceDone, AssistInv, Settling, Kept, Carried
<1>12. CASE EnhanceFail
  BY <1>0, <1>12 DEF EnhanceFail, AssistInv
<1>13. CASE BackendCrash
  BY <1>0, <1>13 DEF BackendCrash
<1>14. CASE ResumeAssist
  BY <1>0, <1>14 DEF ResumeAssist, AssistInv
<1>15. CASE UNCHANGED vars
  BY <1>0, <1>15 DEF vars, Settling, Kept, Carried
<1>16. QED
  BY <1>1, <1>2, <1>3, <1>4, <1>5, <1>6, <1>7, <1>8, <1>9, <1>10, <1>11,
     <1>12, <1>13, <1>14, <1>15 DEF Next, TaskNext

(* Final statuses stay, and so do the keys that stand for them. *)
LEMMA KeysNext ==
  ASSUME TypeOK, KeysInv, [Next]_vars
  PROVE  /\ KeysInv'
         /\ \A t \in Tasks : status[t] \in Terminal => status'[t] = status[t]
<1>1. \A k \in advanceKeys : k[1] \in Tasks /\ k[2] \in Terminal
  BY DEF TypeOK, BatchType
<1>2. CASE Quiet
  <2>1. \A t \in Tasks : status[t] \in Terminal => status'[t] = status[t]
    BY <1>2, QuietKeepsSettled
  <2>2. advanceKeys' = advanceKeys
    BY <1>2 DEF Quiet, batchRow
  <2>3. QED
    BY <1>1, <2>1, <2>2 DEF KeysInv
<1>3. CASE AdvanceCommit
  <2>1. \A t \in Tasks : status[t] \in Terminal => status'[t] = status[t]
    BY <1>3 DEF AdvanceCommit, StopDeferred, ReleaseNext, FirstDeferred, With, Terminal
  <2>2. advancing.task \in Tasks /\ status[advancing.task] \in Terminal
    BY <1>3, LockedValues DEF AdvanceCommit
  <2>3. advanceKeys' = advanceKeys \cup {<<advancing.task, status[advancing.task]>>}
    BY <1>3 DEF AdvanceCommit
  <2>4. QED
    BY <1>1, <2>1, <2>2, <2>3 DEF KeysInv
<1>4. QED
  BY <1>2, <1>3, StepEffect

(* The prompt assist fails all tasks together or none. *)
LEMMA AssistNext == TypeOK /\ AssistInv /\ [Next]_vars => AssistInv'
<1> SUFFICES ASSUME TypeOK, AssistInv, [Next]_vars, losses' = 0 PROVE AssistInv'
  BY DEF AssistInv
<1> USE DEF assistRows, AssistInv
<1>0. losses \in Nat
  BY DEF TypeOK, JobType
<1>1. CASE UNCHANGED <<assist, assistRows, job, losses>>
  BY <1>1
<1>2. ASSUME NEW t \in Tasks, Dispatch(t) PROVE AssistInv'
  BY <1>2 DEF Dispatch, Continue, NoJob
<1>3. ASSUME NEW t \in Tasks, FailAssisted(t) PROVE AssistInv'
  BY <1>3 DEF FailAssisted, Continue, NoJob
<1>4. CASE EnhanceDone
  BY <1>4 DEF EnhanceDone, Continue, NoJob
<1>5. CASE EnhanceFail
  BY <1>5 DEF EnhanceFail, Continue, NoJob
<1>6. CASE ResumeAssist
  BY <1>6 DEF ResumeAssist
<1>7. ~BackendCrash /\ \A t \in Tasks : ~AdvanceError(t)
  BY <1>0 DEF BackendCrash, AdvanceError
<1>8. QED
  BY <1>1, <1>2, <1>3, <1>4, <1>5, <1>6, <1>7
  DEF Next, TaskNext, Start, Finalize, Succeed, Fail, Rewrite, AdvanceAgain,
      AdvanceCount, AdvanceCommit, vars

(* A settling step hands the batch over to whoever settles a task. *)
LEMMA SettlingPending ==
  ASSUME TypeOK, KeysInv, AdvancePending, LockInv, Settling,
         \A t \in Tasks : status[t] \in Terminal => status'[t] = status[t]
  PROVE  AdvancePending' /\ LockInv'
<1> DEFINE Fresh == \E t \in due : ~AlreadyAdvanced(t)
<1>1. /\ Carried /\ UNCHANGED <<advanceKeys, batchStatus>>
      /\ \A t \in due : t \in Tasks /\ status[t] \in Terminal
  BY DEF Settling, TypeOK, LockType
<1>2. AdvancePending => batchStatus \in Concluded \/ ActiveTasks # {} \/ Fresh
  BY <1>1 DEF AdvancePending, Carried, AlreadyAdvanced
<1>3. batchStatus' \in Concluded \/ ActiveTasks' # {} \/ Fresh' => AdvancePending'
  BY DEF AdvancePending, AlreadyAdvanced
<1>4. \A t \in due : (t \in due' /\ AlreadyAdvanced(t)' = AlreadyAdvanced(t)) \/ AlreadyAdvanced(t)
  BY <1>1 DEF Settling, AlreadyAdvanced
<1>5. CASE Kept
  <2>1. ActiveTasks' = ActiveTasks /\ With("deferred")' = With("deferred")
    BY <1>5 DEF Kept, ActiveTasks, With, Active
  <2>2. AdvancePending'
    BY <1>1, <1>2, <1>3, <1>4, <2>1
  <2>3. CASE advancing' = advancing
    BY <1>1, <1>4, <2>1, <2>2, <2>3 DEF LockInv
  <2>4. CASE Counted
    <3>1. /\ advancing'.active = Cardinality(ActiveTasks)
          /\ advancing'.deferred = Cardinality(With("deferred"))
      BY <2>4 DEF Counted, AdvanceCount
    <3>2. ActiveTasks = {} => Cardinality(ActiveTasks) = 0
      BY FS_EmptySet
    <3>3. Cardinality(With("deferred"))' = Cardinality(With("deferred"))
      BY <2>1
    <3>4. QED
      BY <2>1, <2>2, <3>1, <3>2, <3>3 DEF LockInv
  <2>5. QED
    BY <2>2, <2>3, <2>4 DEF Settling
<1>6. ASSUME NEW t \in Tasks, NEW s \in Terminal,
             status[t] \in Active, status' = [status EXCEPT ![t] = s],
             t \in due', advancing' = advancing
      PROVE  AdvancePending' /\ LockInv'
  <2>1. status'[t] = s /\ status[t] \notin Terminal
    BY <1>6 DEF TypeOK, TasksType, Active, Terminal
  <2>2. ~AlreadyAdvanced(t)'
    BY <1>1, <1>6, <2>1 DEF KeysInv, AlreadyAdvanced
  <2>3. AdvancePending'
    BY <1>3, <1>6, <2>2
  <2>4. With("deferred")' = With("deferred")
    BY <1>6 DEF With, Active, Terminal, TypeOK, TasksType
  <2>5. advancing'.task # 0 => t # advancing'.task
    BY <1>6, <2>1, LockedValues
  <2>6. LockInv'
    BY <1>1, <1>6, <2>2, <2>4, <2>5 DEF LockInv
  <2>7. QED
    BY <2>3, <2>6
<1>7. QED
  BY <1>5, <1>6 DEF Settling

(* An advance that counts nothing active ends the batch, releases tasks or *)
(* leaves it to somebody who has settled a task after its count.           *)
LEMMA CommitPending ==
  ASSUME TypeOK, KeysInv, LockInv, AdvanceCommit,
         \A t \in Tasks : status[t] \in Terminal => status'[t] = status[t]
  PROVE  AdvancePending'
<1> SUFFICES ASSUME Carried', batchStatus' \notin Concluded, ActiveTasks' = {},
                    \A t \in due' : AlreadyAdvanced(t)'
             PROVE  FALSE
  BY DEF AdvancePending, Carried, AlreadyAdvanced
<1> DEFINE a == advancing.task
           limit == IF advancing.deferred < Slots THEN advancing.deferred ELSE Slots
<1>1. /\ Carried /\ a # 0 /\ due' = due \ {a}
      /\ advanceKeys' = advanceKeys \cup {<<a, status[a]>>}
      /\ \A t \in due : t \in Tasks /\ status[t] \in Terminal
  BY DEF AdvanceCommit, Carried, assistRows, TypeOK, LockType
<1>2. ActiveTasks = {}
  <2>1. \A t \in Tasks : status[t] \in Active => status'[t] = status[t]
    BY DEF AdvanceCommit, StopDeferred, ReleaseNext, FirstDeferred, With, Active
  <2>2. QED
    BY <2>1 DEF ActiveTasks
<1>3. \A t \in due \ {a} : AlreadyAdvanced(t)
  BY <1>1 DEF AlreadyAdvanced
<1>4. advancing.active = 0 /\ advancing.deferred = Cardinality(With("deferred"))
  BY <1>1, <1>2, <1>3 DEF LockInv
<1>5. ReleaseNext
  BY <1>4 DEF AdvanceCommit, StopDeferred, Concluded
<1>6. advancing.deferred \in Nat /\ advancing.deferred # 0
  BY <1>4, <1>5, LockedValues DEF ReleaseNext, Outcome, Concluded
<1>7. With("deferred") # {}
  BY <1>4, <1>6, FS_EmptySet
<1>8. limit \in Nat /\ limit > 0
  BY <1>4, <1>6 DEF Slots
<1>9. PICK t \in FirstDeferred(limit) : TRUE
  BY <1>7, <1>8, FirstDeferredSome
<1>10. t \in Tasks
  BY DEF FirstDeferred, With
<1>11. status'[t] = "queued"
  BY <1>5, <1>9, <1>10 DEF ReleaseNext
<1>12. QED
  BY <1>10, <1>11 DEF ActiveTasks, Active

(* In the beginning the first tasks are active. *)
LEMMA InitPending == Init => PendingInv
<1> SUFFICES ASSUME Init PROVE PendingInv
  OBVIOUS
<1>1. AdvancePending
  <2>1. ActiveTasks = 1..Concurrency /\ 1 \in 1..Concurrency
    BY InitWindow
  <2>2. QED
    BY <2>1 DEF AdvancePending
<1>2. KeysInv /\ AssistInv /\ LockInv
  BY DEF Init, KeysInv, AssistInv, LockInv, NoJob, Unlocked
<1>3. QED
  BY <1>1, <1>2 DEF PendingInv

(* Every step leaves the batch to somebody. *)
LEMMA NextPending == TypeOK /\ PendingInv /\ [Next]_vars => PendingInv'
<1> SUFFICES ASSUME TypeOK, PendingInv, [Next]_vars PROVE PendingInv'
  OBVIOUS
<1> USE DEF PendingInv
<1>1. /\ KeysInv'
      /\ \A t \in Tasks : status[t] \in Terminal => status'[t] = status[t]
  BY KeysNext
<1>2. AssistInv'
  BY AssistNext
<1>3. AdvancePending' /\ LockInv'
  <2>1. CASE ~Carried'
    BY <2>1 DEF Carried, AdvancePending, LockInv
  <2>2. CASE AdvanceCommit
    <3>1. LockInv'
      BY <2>2 DEF AdvanceCommit, Unlocked, LockInv
    <3>2. QED
      BY <1>1, <2>2, <3>1, CommitPending
  <2>3. CASE Carried' /\ ~AdvanceCommit
    BY <1>1, <2>3, StepSettles, SettlingPending
  <2>4. QED
    BY <2>1, <2>2, <2>3
<1>4. QED
  BY <1>1, <1>2, <1>3

(* A batch of any size that is not finished is left to somebody at any     *)
(* time, whoever settles its tasks in whatever order and however old the   *)
(* counts of its advances are: a task of it is active, or settled by one   *)
(* whose advance is still to come, unless an advance was lost or the       *)
(* prompt assist has failed.                                               *)
THEOREM PendingCorrect == Spec => []AdvancePending
<1>1. PendingInv => AdvancePending
  BY DEF PendingInv
<1>2. QED
  BY <1>1, InitPending, NextPending, TypeCorrect, PTL DEF Spec

=============================================================================
