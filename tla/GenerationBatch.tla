--------------------------- MODULE GenerationBatch ---------------------------
(***************************************************************************)
(* A batch of several pictures.  Its tasks are created together, the first *)
(* Concurrency of them active, the others deferred; whoever settles a task *)
(* then advances the batch: it counts, releases the next tasks into the    *)
(* free places, or stops the batch after StopAfter failures in a row.      *)
(*                                                                         *)
(* The life of a single task is the subject of TaskLifecycle; here it is   *)
(* reduced to its status and to whether drawing has begun.  Modelled in    *)
(* full are the two transactions that settle a task and the one that       *)
(* advances the batch (which reads its counts before it acts on them), the *)
(* prompt assist that all tasks of a batch share, its recovery after a     *)
(* restart of the backend, and the loss of an advance between the commit   *)
(* of a settlement and its own.                                            *)
(***************************************************************************)
EXTENDS Naturals, FiniteSets

CONSTANTS
  Count,        \* pictures of the batch
  Concurrency,  \* drawing_multi_concurrency, at most Count
  StopAfter,    \* drawing_multi_stop_after_consecutive_failures
  AssistModes,  \* prompt assist of the batch, among "off" and "pending"
  MaxLosses     \* bound: failed advances and restarts of the backend

ASSUME BatchAssumption ==
  /\ Count \in Nat \ {0}
  /\ Concurrency \in 1..Count
  /\ StopAfter \in 1..Count
  /\ AssistModes \subseteq {"off", "pending"}
  /\ MaxLosses \in Nat

Tasks     == 1..Count
Active    == {"queued", "running", "finalizing"}
Terminal  == {"success", "failed"}
Concluded == {"success", "partial_success", "failed"}

VARIABLES
  assist,       \* was the batch created with a pending prompt assist?
  status,       \* status[t]: generation_tasks.status
  refunded,     \* tasks whose charge was given back
  drawn,        \* tasks whose drawing has begun (they have a dispatch sub task)
  admitted,     \* tasks that were ever active
  batchStatus,  \* generation_batches: status,
  streak,       \*   consecutive_failures,
  successCount, \*   success_count,
  failedCount,  \*   failed_count
  advanceKeys,  \* system configs batch_terminal_advance_<task>_<status>
  due,          \* tasks whose settlement committed and whose advance is to come
  advancing,    \* the advance that holds the row lock, with what it counted
  assistOpen,   \* tasks with a running prompt_assist sub task
  enhanced,     \* tasks with an effectivePrompt in their snapshot
  job,          \* runPromptAssistAndDispatch: its phase and remaining tasks
  losses        \* lost advances so far

taskRows   == <<status, refunded, drawn, admitted>>
batchRow   == <<batchStatus, streak, successCount, failedCount, advanceKeys>>
assistRows == <<assistOpen, enhanced>>
vars       == <<assist, taskRows, batchRow, due, advancing, assistRows, job, losses>>

With(s)     == {t \in Tasks : status[t] = s}
ActiveTasks == {t \in Tasks : status[t] \in Active}

(* No advance holds the row lock of the batch. *)
Unlocked == [task |-> 0, success |-> 0, failed |-> 0, active |-> 0, deferred |-> 0]
NoJob    == [phase |-> "none", tasks |-> {}]

(* createBatchIdempotently: tasks, charges and batch in one transaction. *)
Init ==
  /\ assist \in AssistModes
  /\ status = [t \in Tasks |-> IF t > Concurrency THEN "deferred"
                               ELSE IF assist = "off" THEN "queued" ELSE "running"]
  /\ refunded = {} /\ drawn = {}
  /\ admitted = 1..Concurrency
  /\ batchStatus = "running" /\ streak = 0
  /\ successCount = 0 /\ failedCount = 0 /\ advanceKeys = {}
  /\ due = {} /\ advancing = Unlocked
  /\ enhanced = {}
  /\ IF assist = "off"
     THEN assistOpen = {} /\ job = NoJob
     ELSE assistOpen = Tasks /\ job = [phase |-> "enhance", tasks |-> Tasks]
  /\ losses = 0

-----------------------------------------------------------------------------
(* The tasks: who settles one advances the batch afterwards.               *)

SetStatus(t, s) == status' = [status EXCEPT ![t] = s]

(* A worker takes a queued task, by itself or on the push of its dispatch. *)
Start(t) ==
  /\ status[t] = "queued"
  /\ SetStatus(t, "running")
  /\ drawn' = drawn \cup {t}
  /\ UNCHANGED <<assist, refunded, admitted, batchRow, due, advancing, assistRows,
                 job, losses>>

(* The picture of a bot task is saved: it waits for its delivery. *)
Finalize(t) ==
  /\ status[t] = "running" /\ t \in drawn
  /\ SetStatus(t, "finalizing")
  /\ UNCHANGED <<assist, refunded, drawn, admitted, batchRow, due, advancing,
                 assistRows, job, losses>>

(* updateTaskStatus by the worker, markBotTaskDelivered by the bot. *)
Succeed(t) ==
  /\ t \in drawn /\ status[t] \in {"running", "finalizing"}
  /\ SetStatus(t, "success")
  /\ due' = due \cup {t}
  /\ UNCHANGED <<assist, refunded, drawn, admitted, batchRow, advancing, assistRows,
                 job, losses>>

(* Mutant of Fail: the batch is not advanced. *)
FailSilently(t) ==
  /\ status[t] \in Active
  /\ SetStatus(t, "failed")
  /\ refunded' = refunded \cup {t}
  /\ UNCHANGED <<assist, drawn, admitted, batchRow, due, advancing, assistRows, job,
                 losses>>

(* updateTaskStatus with failed, by a worker, a dispatch that gave up, a   *)
(* sweep or the ops-worker.                                                *)
Fail(t) ==
  /\ status[t] \in Active
  /\ SetStatus(t, "failed")
  /\ refunded' = refunded \cup {t}
  /\ due' = due \cup {t}
  /\ UNCHANGED <<assist, drawn, admitted, batchRow, advancing, assistRows, job,
                 losses>>

(* A late or repeated terminal write changes no task, and advances again. *)
Rewrite(t) ==
  /\ t \in admitted /\ t \notin due
  /\ status[t] \in Terminal
  /\ due' = due \cup {t}
  /\ UNCHANGED <<assist, taskRows, batchRow, advancing, assistRows, job, losses>>

-----------------------------------------------------------------------------
(* advanceBatchAfterTaskTerminal.                                          *)

(* Mutant of AlreadyAdvanced: the key of the advance is not looked up. *)
NeverAdvanced(t) == FALSE

(* Mutant of AlreadyAdvanced: the key leaves out the task. *)
AdvancedForStatus(t) == \E u \in Tasks : <<u, status[t]>> \in advanceKeys

(* Every task advances the batch once per terminal status. *)
AlreadyAdvanced(t) == <<t, status[t]>> \in advanceKeys

AdvanceAgain(t) ==
  /\ t \in due /\ advancing.task = 0
  /\ AlreadyAdvanced(t)
  /\ due' = due \ {t}
  /\ UNCHANGED <<assist, taskRows, batchRow, advancing, assistRows, job, losses>>

(* The transaction locks the batch and counts; the tasks it does not lock. *)
AdvanceCount(t) ==
  /\ t \in due /\ advancing.task = 0
  /\ ~AlreadyAdvanced(t)
  /\ advancing' = [task     |-> t,
                   success  |-> Cardinality(With("success")),
                   failed   |-> Cardinality(With("failed")),
                   active   |-> Cardinality(ActiveTasks),
                   deferred |-> Cardinality(With("deferred"))]
  /\ UNCHANGED <<assist, taskRows, batchRow, due, assistRows, job, losses>>

NextStreak == IF status[advancing.task] = "failed" THEN streak + 1 ELSE 0
Stopping   == advancing.deferred > 0 /\ NextStreak >= StopAfter

(* Mutant of Slots: the places of the active tasks are not taken off. *)
SlotsOfAll == Concurrency

(* Places for further tasks. *)
Slots == IF Concurrency > advancing.active THEN Concurrency - advancing.active ELSE 0

(* Mutant of RefundStopped: stopped tasks keep their charge. *)
RefundNone == UNCHANGED refunded

RefundStopped == refunded' = refunded \cup With("deferred")

(* Mutant of Outcome: running tasks are forgotten. *)
OutcomeAtOnce(unfinished, failed) ==
  IF advancing.success = 0 THEN "failed"
  ELSE IF failed > 0 THEN "partial_success" ELSE "success"

Outcome(unfinished, failed) ==
  IF unfinished > 0 THEN "running"
  ELSE IF advancing.success = 0 THEN "failed"
  ELSE IF failed > 0 THEN "partial_success" ELSE "success"

(* Too many failures in a row: the tasks not yet released are failed and   *)
(* refunded within the same transaction.                                   *)
StopDeferred ==
  LET failed == advancing.failed + Cardinality(With("deferred"))
  IN /\ Stopping
     /\ status' = [t \in Tasks |-> IF status[t] = "deferred" THEN "failed" ELSE status[t]]
     /\ RefundStopped
     /\ batchStatus' = IF advancing.active > 0 THEN "running"
                       ELSE IF advancing.success > 0 THEN "partial_success" ELSE "failed"
     /\ failedCount' = failed
     /\ UNCHANGED admitted

(* The first n waiting tasks in the order of the batch, or all of them. *)
FirstDeferred(n) ==
  {t \in With("deferred") : Cardinality({u \in With("deferred") : u < t}) < n}

(* Otherwise the next tasks are put on the queue, as many as there are free *)
(* places.  What was active or deferred when it was counted is unfinished   *)
(* still, released or not.                                                  *)
ReleaseNext ==
  LET limit    == IF advancing.deferred < Slots THEN advancing.deferred ELSE Slots
      released == FirstDeferred(limit)
  IN /\ ~Stopping
     /\ status' = [t \in Tasks |-> IF t \in released THEN "queued" ELSE status[t]]
     /\ admitted' = admitted \cup released
     /\ batchStatus' = Outcome(advancing.active + advancing.deferred, advancing.failed)
     /\ failedCount' = advancing.failed
     /\ UNCHANGED refunded

AdvanceCommit ==
  /\ advancing.task # 0
  /\ advanceKeys' = advanceKeys \cup {<<advancing.task, status[advancing.task]>>}
  /\ streak' = NextStreak
  /\ successCount' = advancing.success
  /\ StopDeferred \/ ReleaseNext
  /\ due' = due \ {advancing.task}
  /\ advancing' = Unlocked
  /\ UNCHANGED <<assist, drawn, assistRows, job, losses>>

(* The transaction times out or fails and is rolled back.  Its handler     *)
(* answers an error to whoever settled the task.                           *)
AdvanceError(t) ==
  /\ t \in due /\ losses < MaxLosses
  /\ losses' = losses + 1
  /\ due' = due \ {t}
  /\ advancing' = IF advancing.task = t THEN Unlocked ELSE advancing
  /\ UNCHANGED <<assist, taskRows, batchRow, assistRows, job>>

-----------------------------------------------------------------------------
(* Prompt assist.                                                          *)

Continue(phase, tasks) ==
  job' = IF tasks = {} THEN NoJob ELSE [phase |-> phase, tasks |-> tasks]

(* completePromptAssist stores the prompt for every task of the job.  Only *)
(* the tasks that are active then are dispatched.                          *)
EnhanceDone ==
  /\ job.phase = "enhance"
  /\ enhanced' = enhanced \cup job.tasks
  /\ assistOpen' = assistOpen \ job.tasks
  /\ Continue("dispatch", {t \in job.tasks : status[t] \in {"queued", "running"}})
  /\ UNCHANGED <<assist, taskRows, batchRow, due, advancing, losses>>

(* Mutant of Dispatch: a task settled meanwhile is drawn nevertheless. *)
DispatchSettled(t) ==
  /\ job.phase = "dispatch" /\ t \in job.tasks
  /\ SetStatus(t, "running")
  /\ drawn' = drawn \cup {t}
  /\ Continue("dispatch", job.tasks \ {t})
  /\ UNCHANGED <<assist, refunded, admitted, batchRow, due, advancing, assistRows,
                 losses>>

(* A dispatch reaches a worker if the task has not been settled meanwhile, *)
(* or it is lost.                                                          *)
Dispatch(t) ==
  /\ job.phase = "dispatch" /\ t \in job.tasks
  /\ \/ /\ status[t] \in {"queued", "running"}
        /\ SetStatus(t, "running")
        /\ drawn' = drawn \cup {t}
     \/ UNCHANGED <<status, drawn>>
  /\ Continue("dispatch", job.tasks \ {t})
  /\ UNCHANGED <<assist, refunded, admitted, batchRow, due, advancing, assistRows,
                 losses>>

EnhanceFail ==
  /\ job.phase = "enhance"
  /\ assistOpen' = assistOpen \ job.tasks
  /\ Continue("fail", job.tasks)
  /\ UNCHANGED <<assist, taskRows, batchRow, due, advancing, enhanced, losses>>

(* The catch block fails the tasks one by one with failTaskAndRefund, not  *)
(* through updateTaskStatus: the batch is not advanced.                    *)
FailAssisted(t) ==
  /\ job.phase = "fail" /\ t \in job.tasks
  /\ \A u \in job.tasks : t <= u
  /\ IF status[t] \in Terminal
     THEN UNCHANGED <<status, refunded>>
     ELSE SetStatus(t, "failed") /\ refunded' = refunded \cup {t}
  /\ Continue("fail", job.tasks \ {t})
  /\ UNCHANGED <<assist, drawn, admitted, batchRow, due, advancing, assistRows,
                 losses>>

(* The backend restarts: what it held in memory is gone... *)
BackendCrash ==
  /\ losses < MaxLosses
  /\ losses' = losses + 1
  /\ due' = {} /\ advancing' = Unlocked
  /\ job' = IF assist = "off" THEN NoJob ELSE [phase |-> "boot", tasks |-> {}]
  /\ UNCHANGED <<assist, taskRows, batchRow, assistRows>>

(* ... and resumePendingPromptAssistTasks finds the tasks that still wait  *)
(* for their prompt.                                                       *)
ResumeAssist ==
  /\ job.phase = "boot"
  /\ Continue("enhance", {t \in assistOpen \ drawn : status[t] \in {"running", "deferred"}})
  /\ UNCHANGED <<assist, taskRows, batchRow, due, advancing, assistRows, losses>>

-----------------------------------------------------------------------------
TaskNext(t) ==
  \/ Start(t) \/ Finalize(t) \/ Succeed(t) \/ Fail(t) \/ Rewrite(t)
  \/ AdvanceAgain(t) \/ AdvanceCount(t) \/ AdvanceError(t)
  \/ Dispatch(t) \/ FailAssisted(t)

Next ==
  \/ \E t \in Tasks : TaskNext(t)
  \/ AdvanceCommit
  \/ EnhanceDone \/ EnhanceFail
  \/ BackendCrash \/ ResumeAssist

Spec == Init /\ [][Next]_vars

(* Every active task is settled (ChargeSettled of TaskLifecycle), and what *)
(* the backend has begun it ends, unless it restarts.                      *)
Fairness ==
  /\ \A t \in Tasks : /\ WF_vars(Succeed(t) \/ Fail(t))
                      /\ WF_vars(AdvanceCount(t))
                      /\ WF_vars(Dispatch(t)) /\ WF_vars(FailAssisted(t))
  /\ WF_vars(AdvanceCommit)
  /\ WF_vars(EnhanceDone \/ EnhanceFail) /\ WF_vars(ResumeAssist)

FairSpec == Spec /\ Fairness

-----------------------------------------------------------------------------
(* Properties.                                                             *)

(* Every variable keeps its type; what is to be advanced is settled. *)
TasksType == /\ status \in [Tasks -> Active \cup Terminal \cup {"deferred"}]
             /\ refunded \subseteq Tasks /\ drawn \subseteq Tasks
             /\ admitted \subseteq Tasks
BatchType == /\ batchStatus \in Concluded \cup {"running"}
             /\ streak \in Nat /\ successCount \in Nat /\ failedCount \in Nat
             /\ advanceKeys \subseteq Tasks \X Terminal
LockType  == /\ due \subseteq {t \in Tasks : status[t] \in Terminal}
             /\ advancing \in [task : Tasks \cup {0}, success : Nat, failed : Nat,
                               active : Nat, deferred : Nat]
             /\ advancing.task # 0 => advancing.task \in due
JobType   == /\ assist \in AssistModes
             /\ assistOpen \subseteq Tasks /\ enhanced \subseteq Tasks
             /\ job \in [phase : {"none", "boot", "enhance", "dispatch", "fail"},
                         tasks : SUBSET Tasks]
             /\ losses \in 0..MaxLosses

TypeOK == TasksType /\ BatchType /\ LockType /\ JobType

(* At most Concurrency tasks are active, although the advance counts and   *)
(* releases in two steps while other tasks are settled ("must not release  *)
(* all of the deferred tasks and exceed the concurrency").                 *)
ActiveWithinConcurrency == Cardinality(ActiveTasks) <= Concurrency

(* Every failed task was refunded, and no other: those that fail singly,   *)
(* those that are stopped unreleased and those whose prompt assist failed. *)
RefundedIffFailed == refunded = With("failed")

(* A batch that is reported as finished has no unfinished task, and unless *)
(* a prompt assist failed meanwhile its counts and its verdict are right.  *)
OutcomeTruthful ==
  batchStatus \in Concluded =>
    /\ \A t \in Tasks : status[t] \in Terminal
    /\ assist = "off" =>
         /\ successCount = Cardinality(With("success"))
         /\ failedCount = Cardinality(With("failed"))
         /\ batchStatus = CASE successCount = Count -> "success"
                            [] successCount = 0     -> "failed"
                            [] OTHER                -> "partial_success"

(* Unreleased tasks are stopped only after StopAfter tasks have failed and *)
(* advanced the batch, however often their writers repeat themselves.      *)
StopNeedsFailures ==
  [][(\E t \in Tasks : status[t] = "deferred" /\ status'[t] = "failed")
       => \/ job.phase = "fail"
          \/ Cardinality({k \in advanceKeys' : k[2] = "failed"}) >= StopAfter]_vars

(* As long as a batch is not finished somebody will advance it: one of its *)
(* tasks is active, or settled and not yet counted, unless an advance was  *)
(* lost or the prompt assist has failed.                                   *)
AdvancePending ==
  losses = 0 /\ (assist = "off" \/ assistOpen # {} \/ enhanced # {}) =>
    \/ batchStatus \in Concluded
    \/ ActiveTasks # {}
    \/ \E t \in due : <<t, status[t]>> \notin advanceKeys

(* A batch comes to its end, and stays there, unless an advance is lost or *)
(* the prompt assist fails.                                                *)
BatchConcludes ==
  <>[](batchStatus \in Concluded) \/ <>(losses > 0 \/ job.phase = "fail")

(* generations-repository.ts:541: after its tasks are final, a batch is    *)
(* advanced, be it that their prompt assist failed.                        *)
AlwaysConcludes == <>[](batchStatus \in Concluded)

(* The phases of the tasks as the abstract window sees them. *)
Phase == [t \in Tasks |-> CASE status[t] = "deferred" -> "waiting"
                            [] status[t] \in Active   -> "open"
                            [] OTHER                  -> "closed"]

W == INSTANCE BatchWindow WITH Width <- Concurrency, phase <- Phase

(* The batch implements the window. *)
WindowRespected == W!Spec
=============================================================================
