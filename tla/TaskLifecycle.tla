--------------------------- MODULE TaskLifecycle ---------------------------
(***************************************************************************)
(* The life of one generation task that is not part of a batch, from the   *)
(* commit of its creation (row inserted and price charged in one           *)
(* transaction) to its settlement.  Five programs act on it concurrently:  *)
(*                                                                         *)
(*   backend          owns the row of the task and its sub tasks; each of  *)
(*                    its transactions is one action, each handler that    *)
(*                    commits twice is two actions                         *)
(*   drawing-service  accepts a dispatched task and marks it running       *)
(*   drawing-worker   claims the task, calls the upstream, saves the       *)
(*                    picture, writes the status; several may be deployed  *)
(*   ops-worker       repairs tasks that stopped making progress           *)
(*   bot-service      delivers the picture of a bot task                   *)
(*                                                                         *)
(* They talk over HTTP with a timeout.  A caller that gives up leaves its  *)
(* request in `wire`: the backend may execute it later, or never.          *)
(***************************************************************************)
EXTENDS Naturals, FiniteSets

CONSTANTS
  Workers,      \* drawing-worker processes
  Sources,      \* the sources a task may have, among "web" and "bot"
  Sweeps,       \* sweeps of stuck tasks: "handler" is cleanup-stale, called
                \* by the loops of the workers, "timer" one of the backend
  MaxDispatch,  \* DRAWING_SERVICE_DISPATCH_ATTEMPTS
  MaxAttempts,  \* upstream attempts of one execution, 1..10 in the code
  MaxFaults,    \* bound: calls that a caller abandons
  MaxCrashes    \* bound: process crashes

ASSUME ConstantsAssumption ==
  /\ Sources \subseteq {"web", "bot"}
  /\ Sweeps \subseteq {"handler", "timer"}
  /\ MaxDispatch \in Nat \ {0}
  /\ MaxAttempts \in Nat \ {0}
  /\ MaxFaults \in Nat
  /\ MaxCrashes \in Nat

Statuses == {"queued", "running", "finalizing", "success", "failed"}
Terminal == {"success", "failed"}

(* Status writes and other requests a caller may have abandoned. *)
StatusWrites == {"running", "finalizing", "success", "failed"}
Requests == StatusWrites \cup {"attempt", "claim", "image", "finalizeTask"}

(* The timestamps the stale sweeps compare with their cutoff: two of the    *)
(* task row and started_at of its open upstream_attempt.                    *)
Clocks == {"updated_at", "started_at", "attempt"}

AcceptSteps == {"unsent", "dispatch", "running", "attempt", "accepted",
                "refused", "pushed"}
WorkerSteps == {"idle", "claim", "claimQueued", "claimRunning", "check", "call",
                "save", "report", "finish", "writeFailed", "finalizeTask",
                "reportSuccess", "reportFailed"}

VARIABLES
  source,      \* "web" or "bot"
  assisted,    \* its prompt is enhanced before it is dispatched
  status,      \* generation_tasks.status
  refunds,     \* how often the charge was given back
  old,         \* the timestamps that lie before the stale cutoff
  placeholder, \* the open upstream_attempt sub task: none, queued or running
  finalizes,   \* statuses of the finalize sub tasks of the timeline
  image,       \* system config task_image_<id>: "none" or "saved"
  dispatch,    \* backend's way to the dispatch: assist; its loop: send, wait,
               \* giveUp, done
  dispatched,  \* dispatch calls made
  accept,      \* accept[i]: drawing-service's handler of the i-th call
  pc,          \* pc[w]: where worker w is with this task
  tries,       \* tries[w]: attemptNo of its orchestrator
  pushed,      \* workers that have the task in their push queue
  reporting,   \* workers whose upstream_attempt report is under way
  cleaner,     \* cleaner[s]: step of sweep s: idle, fail, close
  ops,         \* repair of the ops-worker: idle, listed, fail, append
  bot,         \* bot-service: idle, sent, confirmed
  wire,        \* abandoned requests the backend may still execute
  faults,      \* abandoned calls so far
  crashes,     \* process crashes so far
  offers,      \* ghost: how often the task was made claimable
  claims       \* ghost: how often a claim was granted

order    == <<source, assisted>>
row      == <<status, refunds>>
timeline == <<placeholder, finalizes>>
service  == <<dispatch, dispatched, accept>>
workers  == <<pc, tries, pushed, reporting>>
sweepers == <<cleaner, ops>>
net      == <<wire, faults, crashes>>
ghost    == <<offers, claims>>
vars     == <<order, row, old, timeline, image, service, workers, sweepers, bot,
              net, ghost>>

(* A task whose prompt is to be enhanced is running from the start, with no *)
(* placeholder a worker could claim.                                        *)
Init ==
  /\ source \in Sources /\ assisted \in BOOLEAN
  /\ status = IF assisted THEN "running" ELSE "queued"
  /\ refunds = 0 /\ old = {}
  /\ placeholder = "none" /\ finalizes = {}
  /\ image = "none"
  /\ dispatch = (IF assisted THEN "assist" ELSE "send") /\ dispatched = 0
  /\ accept = [i \in 1..MaxDispatch |-> "unsent"]
  /\ pc = [w \in Workers |-> "idle"]
  /\ tries = [w \in Workers |-> 0]
  /\ pushed = {}
  /\ reporting = {}
  /\ cleaner = [s \in Sweeps |-> "idle"] /\ ops = "idle" /\ bot = "idle"
  /\ wire = {} /\ faults = 0 /\ crashes = 0
  /\ offers = (IF assisted THEN 0 ELSE 1) /\ claims = 0

-----------------------------------------------------------------------------
(* Transactions of the backend.  Each takes the row lock of the task.      *)

(* Mutant of SetStatus: late writes overwrite a settled task. *)
SetStatusUnguarded(s) ==
  /\ status' = s
  /\ old' = old \ {"updated_at"}
  /\ UNCHANGED refunds

(* updateTaskStatus of the repository: a terminal status is never          *)
(* overwritten; any other status is, whatever it was.  (The timestamps of a *)
(* settled task are looked at no more: old is emptied.)                     *)
SetStatus(s) ==
  IF status \in Terminal
  THEN UNCHANGED <<row, old>>
  ELSE /\ status' = s
       /\ old' = IF s \in Terminal THEN {} ELSE old \ {"updated_at"}
       /\ UNCHANGED refunds

(* Mutant of FailAndRefund: the refund is not bound to the first switch. *)
FailAndRefundAgain ==
  /\ status' = "failed"
  /\ refunds' = refunds + 1
  /\ old' = {}

(* failTaskAndRefund: only the first switch to failed gives money back. *)
FailAndRefund ==
  IF status \in Terminal
  THEN UNCHANGED <<row, old>>
  ELSE /\ status' = "failed"
       /\ refunds' = refunds + 1
       /\ old' = {}

(* updateTaskStatus of the service: failed goes through the refund. *)
WriteStatus(s) == IF s = "failed" THEN FailAndRefund ELSE SetStatus(s)

(* appendSubTaskOnce for a queued upstream_attempt: older open placeholders *)
(* are skipped, so the new one is the only open one.                        *)
AppendAttempt ==
  /\ placeholder' = "queued"
  /\ old' = old \ {"attempt"}
  /\ offers' = offers + 1
  /\ UNCHANGED <<finalizes, claims>>

(* ... and for the result of an upstream call, which closes the placeholder. *)
CloseAttempt ==
  /\ placeholder' = "none"
  /\ old' = old \ {"attempt"}
  /\ UNCHANGED finalizes

(* Mutant of TakeQueued: an update that trusts the status read before. *)
TakeQueuedBlindly ==
  /\ status' = "running"
  /\ old' = old \ {"updated_at", "started_at"}
  /\ claims' = claims + 1
  /\ UNCHANGED <<refunds, timeline, offers>>

(* Conditional update of claimTask, by the status the handler read before. *)
TakeQueued ==
  /\ status = "queued"
  /\ status' = "running"
  /\ old' = old \ {"updated_at", "started_at"}
  /\ claims' = claims + 1
  /\ UNCHANGED <<refunds, timeline, offers>>

TakePlaceholder ==
  /\ placeholder = "queued"
  /\ placeholder' = "running"
  /\ old' = old \ {"attempt"}
  /\ claims' = claims + 1
  /\ UNCHANGED <<row, finalizes, offers>>

AppendFinalize(s) ==
  /\ finalizes' = finalizes \cup {s}
  /\ UNCHANGED placeholder

(* finalizeTask: fails or keeps the task, then appends its actual status. *)
FailAndFinalize ==
  /\ FailAndRefund
  /\ AppendFinalize(status')

(* The caller's timeout fires; the request is still under way. *)
Abandon(request) ==
  /\ faults < MaxFaults
  /\ faults' = faults + 1
  /\ wire' = wire \cup {request}
  /\ UNCHANGED crashes

(* The backend executes a request whose caller gave up on it. *)
LateRequest(request) ==
  /\ request \in wire
  /\ wire' = wire \ {request}
  /\ \/ /\ request \in StatusWrites
        /\ WriteStatus(request)
        /\ UNCHANGED <<timeline, image, ghost>>
     \/ /\ request = "attempt"
        /\ AppendAttempt
        /\ UNCHANGED <<row, image>>
     \/ /\ request = "claim"
        /\ \/ TakeQueued
           \/ status = "running" /\ TakePlaceholder
        /\ UNCHANGED image
     \/ /\ request = "image"
        /\ image' = "saved"
        /\ UNCHANGED <<row, old, timeline, ghost>>
     \/ /\ request = "finalizeTask"
        /\ FailAndFinalize
        /\ UNCHANGED <<image, ghost>>
  /\ UNCHANGED <<order, service, workers, sweepers, bot, faults, crashes>>

-----------------------------------------------------------------------------
(* Dispatch: the backend's loop and drawing-service's handler.             *)

(* The prompt is enhanced, and the task dispatched if it is still alive:    *)
(* a sweep may have failed it meanwhile...                                  *)
PromptAssisted ==
  /\ dispatch = "assist"
  /\ dispatch' = IF status \in Terminal THEN "done" ELSE "send"
  /\ UNCHANGED <<order, row, old, timeline, image, dispatched, accept, workers,
                 sweepers, bot, net, ghost>>

(* ... or it is not, and the failure noted in the timeline comes before the *)
(* refund.                                                                  *)
PromptAssistFails ==
  /\ dispatch = "assist"
  /\ dispatch' = "giveUp"
  /\ UNCHANGED <<order, row, old, timeline, image, dispatched, accept, workers,
                 sweepers, bot, net, ghost>>

(* The route of the bot dispatches once, without waiting for the answer.    *)
ByBotRoute == source = "bot" /\ ~assisted

DispatchLimit == IF ByBotRoute THEN 1 ELSE MaxDispatch

SubmitTask ==
  /\ dispatch = "send"
  /\ dispatched' = dispatched + 1
  /\ accept' = [accept EXCEPT ![dispatched'] = "dispatch"]
  /\ dispatch' = "wait"
  /\ UNCHANGED <<order, row, old, timeline, image, workers, sweepers, bot, net, ghost>>

(* A task whose only dispatch failed is left to the polling workers. *)
DispatchRetry ==
  dispatch' = IF dispatched < DispatchLimit THEN "send"
              ELSE IF ByBotRoute THEN "done" ELSE "giveUp"

DispatchAnswered ==
  /\ dispatch = "wait"
  /\ \/ accept[dispatched] \in {"accepted", "pushed"} /\ dispatch' = "done"
     \/ accept[dispatched] = "refused" /\ DispatchRetry
  /\ UNCHANGED <<order, row, old, timeline, image, dispatched, accept, workers,
                 sweepers, bot, net, ghost>>

(* The call times out: its handler may still be running, or never started. *)
DispatchTimeout ==
  /\ dispatch = "wait" /\ faults < MaxFaults
  /\ faults' = faults + 1
  /\ DispatchRetry
  /\ \/ UNCHANGED accept
     \/ accept[dispatched] = "dispatch"
        /\ accept' = [accept EXCEPT ![dispatched] = "refused"]
  /\ UNCHANGED <<order, row, old, timeline, image, dispatched, workers, sweepers,
                 bot, wire, crashes, ghost>>

DispatchGiveUp ==
  /\ dispatch = "giveUp"
  /\ FailAndRefund
  /\ dispatch' = "done"
  /\ UNCHANGED <<order, timeline, image, dispatched, accept, workers, sweepers,
                 bot, net, ghost>>

(* acceptGenerationTask, one action per call it awaits.  The push to the   *)
(* worker starts after the third one and is not awaited.                   *)
AcceptDispatch(i) ==
  /\ accept[i] = "dispatch"
  /\ accept' = [accept EXCEPT ![i] = "running"]
  /\ UNCHANGED <<order, row, old, timeline, image, dispatch, dispatched, workers,
                 sweepers, bot, net, ghost>>

AcceptRunning(i) ==
  /\ accept[i] = "running"
  /\ SetStatus("running")
  /\ accept' = [accept EXCEPT ![i] = "attempt"]
  /\ UNCHANGED <<order, timeline, image, dispatch, dispatched, workers,
                 sweepers, bot, net, ghost>>

AcceptAttempt(i) ==
  /\ accept[i] = "attempt"
  /\ AppendAttempt
  /\ accept' = [accept EXCEPT ![i] = "accepted"]
  /\ UNCHANGED <<order, row, image, dispatch, dispatched, workers, sweepers,
                 bot, net>>

(* A call of the handler times out; the handler answers an error.  A lost *)
(* "dispatch" sub task changes nothing else.                              *)
AcceptTimeout(i) ==
  /\ \/ accept[i] \in {"running", "attempt"} /\ Abandon(accept[i])
     \/ /\ accept[i] = "dispatch" /\ faults < MaxFaults
        /\ faults' = faults + 1 /\ UNCHANGED <<wire, crashes>>
  /\ accept' = [accept EXCEPT ![i] = "refused"]
  /\ UNCHANGED <<order, row, old, timeline, image, dispatch, dispatched, workers,
                 sweepers, bot, ghost>>

(* enqueuePushedTask refuses a task the worker is processing or has queued. *)
PushToWorker(i, w) ==
  /\ accept[i] = "accepted"
  /\ accept' = [accept EXCEPT ![i] = "pushed"]
  /\ pushed' = IF pc[w] = "idle" THEN pushed \cup {w} ELSE pushed
  /\ UNCHANGED <<order, row, old, timeline, image, dispatch, dispatched, pc, tries,
                 reporting, sweepers, bot, net, ghost>>

(* A push that fails, or meets a full queue, is only logged. *)
PushFails(i) ==
  /\ accept[i] = "accepted"
  /\ accept' = [accept EXCEPT ![i] = "pushed"]
  /\ UNCHANGED <<order, row, old, timeline, image, dispatch, dispatched, workers,
                 sweepers, bot, net, ghost>>

-----------------------------------------------------------------------------
(* drawing-worker: one process works on the task at most once at a time.   *)

Goto(w, step) == pc' = [pc EXCEPT ![w] = step]

(* getPendingTasks: queued tasks, and running ones with a queued attempt. *)
Pending == status = "queued" \/ (status = "running" /\ placeholder = "queued")

(* One cycle of the loop takes the task from the push queue, or from a poll *)
(* that was answered while the task may also have been pushed...            *)
PickUp(w) ==
  /\ pc[w] = "idle"
  /\ \/ w \in pushed /\ pushed' = pushed \ {w}
     \/ Pending /\ UNCHANGED pushed
  /\ Goto(w, "claim")
  /\ UNCHANGED <<order, row, old, timeline, image, service, tries, reporting,
                 sweepers, bot, net, ghost>>

(* ... or drops it: it drained more than it has free slots, or a task that  *)
(* it is working on.                                                        *)
DropPushed(w) ==
  /\ w \in pushed
  /\ pushed' = pushed \ {w}
  /\ UNCHANGED <<order, row, old, timeline, image, service, pc, tries, reporting,
                 sweepers, bot, net, ghost>>

(* claimTask reads the status first and updates conditionally after. *)
ClaimRead(w) ==
  /\ pc[w] = "claim"
  /\ Goto(w, CASE status = "queued"  -> "claimQueued"
               [] status = "running" -> "claimRunning"
               [] OTHER              -> "idle")
  /\ UNCHANGED <<order, row, old, timeline, image, service, tries, pushed, reporting,
                 sweepers, bot, net, ghost>>

StartExecution(w) ==
  /\ Goto(w, "check")
  /\ tries' = [tries EXCEPT ![w] = 1]

EndExecution(w, step) ==
  /\ Goto(w, step)
  /\ tries' = [tries EXCEPT ![w] = 0]

ClaimUpdate(w) ==
  /\ \/ pc[w] = "claimQueued" /\ TakeQueued /\ StartExecution(w)
     \/ pc[w] = "claimRunning" /\ TakePlaceholder /\ StartExecution(w)
     \/ /\ \/ pc[w] = "claimQueued" /\ status # "queued"
           \/ pc[w] = "claimRunning" /\ placeholder # "queued"
        /\ Goto(w, "idle")
        /\ UNCHANGED <<row, old, timeline, tries, ghost>>
  /\ UNCHANGED <<order, image, service, pushed, reporting, sweepers, bot, net>>

(* The worker takes an unanswered claim for a refused one. *)
ClaimTimeout(w) ==
  /\ pc[w] \in {"claim", "claimQueued", "claimRunning"}
  /\ Abandon("claim")
  /\ Goto(w, "idle")
  /\ UNCHANGED <<order, row, old, timeline, image, service, tries, pushed, reporting,
                 sweepers, bot, ghost>>

(* RetryOrchestrator.execute: before every attempt it asks whether the task *)
(* is still running, and stops on a no.  It takes silence for a yes and an  *)
(* error response for a no.  With no usable site it fails the task.         *)
CheckStillRunning(w) ==
  LET StopRetrying == EndExecution(w, "reportFailed")
      TryOnce == \/ Goto(w, "call") /\ UNCHANGED tries
                 \/ EndExecution(w, "writeFailed")
  IN /\ pc[w] = "check"
     /\ \/ /\ IF status = "running" THEN TryOnce ELSE StopRetrying
           /\ UNCHANGED faults
        \/ /\ faults < MaxFaults /\ faults' = faults + 1
           /\ TryOnce \/ StopRetrying
     /\ UNCHANGED <<order, row, old, timeline, image, service, pushed, reporting,
                    sweepers, bot, wire, crashes, ghost>>

(* The upstream answers.  The result is reported without being awaited; a  *)
(* retryable error starts the next attempt while the budget lasts.         *)
Upstream(w) ==
  /\ pc[w] = "call"
  /\ reporting' = reporting \cup {w}
  /\ \/ EndExecution(w, "save")
     \/ /\ tries[w] < MaxAttempts
        /\ Goto(w, "check")
        /\ tries' = [tries EXCEPT ![w] = @ + 1]
     \/ EndExecution(w, "writeFailed")
  /\ UNCHANGED <<order, row, old, timeline, image, service, pushed, sweepers, bot,
                 net, ghost>>

ReportArrives(w) ==
  /\ w \in reporting
  /\ reporting' = reporting \ {w}
  /\ CloseAttempt
  /\ UNCHANGED <<order, row, image, service, pc, tries, pushed, sweepers, bot,
                 net, ghost>>

(* saveGeneratedImage: upload to media-service, then report-image, whose   *)
(* failure is only logged.                                                 *)
SaveImage(w) ==
  /\ pc[w] = "save"
  /\ Goto(w, "report") \/ Goto(w, "writeFailed")
  /\ UNCHANGED <<order, row, old, timeline, image, service, tries, pushed, reporting,
                 sweepers, bot, net, ghost>>

ReportImage(w) ==
  /\ pc[w] = "report"
  /\ \/ image' = "saved" /\ UNCHANGED net
     \/ Abandon("image") /\ UNCHANGED image
  /\ Goto(w, "finish")
  /\ UNCHANGED <<order, row, old, timeline, service, tries, pushed, reporting,
                 sweepers, bot, ghost>>

(* Mutant of FinishStatus: the worker does not wait for the delivery. *)
FinishStatusAtOnce == "success"

(* A bot task waits for its delivery, any other task is done.  An awaited  *)
(* write that times out throws, and the catch block fails the task.        *)
FinishStatus == IF source = "bot" THEN "finalizing" ELSE "success"

Finish(w) ==
  /\ pc[w] = "finish"
  /\ \/ /\ SetStatus(FinishStatus)
        /\ Goto(w, IF source = "bot" THEN "idle" ELSE "reportSuccess")
        /\ UNCHANGED net
     \/ Abandon(FinishStatus) /\ Goto(w, "finalizeTask") /\ UNCHANGED <<row, old>>
  /\ UNCHANGED <<order, timeline, image, service, tries, pushed, reporting,
                 sweepers, bot, ghost>>

WriteFailed(w) ==
  /\ pc[w] = "writeFailed"
  /\ \/ FailAndRefund /\ Goto(w, "reportFailed") /\ UNCHANGED net
     \/ Abandon("failed") /\ Goto(w, "finalizeTask") /\ UNCHANGED <<row, old>>
  /\ UNCHANGED <<order, timeline, image, service, tries, pushed, reporting,
                 sweepers, bot, ghost>>

FinalizeTask(w) ==
  /\ pc[w] = "finalizeTask"
  /\ \/ FailAndFinalize /\ UNCHANGED net
     \/ Abandon("finalizeTask") /\ UNCHANGED <<row, old, timeline>>
  /\ Goto(w, "idle")
  /\ UNCHANGED <<order, image, service, tries, pushed, reporting, sweepers, bot,
                 ghost>>

(* reportFinalize appends what the worker believes; it may be lost. *)
ReportFinalize(w) ==
  /\ \/ pc[w] = "reportSuccess" /\ AppendFinalize("success") /\ UNCHANGED faults
     \/ pc[w] = "reportFailed" /\ AppendFinalize("failed") /\ UNCHANGED faults
     \/ /\ pc[w] \in {"reportSuccess", "reportFailed"}
        /\ faults < MaxFaults /\ faults' = faults + 1 /\ UNCHANGED timeline
  /\ Goto(w, "idle")
  /\ UNCHANGED <<order, row, old, image, service, tries, pushed, reporting, sweepers,
                 bot, wire, crashes, ghost>>

(* The process ends and pm2 starts it again, with nothing in memory. *)
WorkerExit(w) ==
  /\ EndExecution(w, "idle")
  /\ pushed' = pushed \ {w}
  /\ reporting' = reporting \ {w}
  /\ UNCHANGED <<order, row, old, timeline, image, service, sweepers, bot, ghost>>

WorkerCrash(w) ==
  /\ pc[w] # "idle" \/ w \in pushed \/ w \in reporting
  /\ crashes < MaxCrashes
  /\ crashes' = crashes + 1
  /\ UNCHANGED <<wire, faults>>
  /\ WorkerExit(w)

(* The rejection of the report nobody awaits is handled nowhere: Node ends *)
(* the process.                                                            *)
ReportRejected(w) ==
  /\ w \in reporting
  /\ faults < MaxFaults
  /\ faults' = faults + 1
  /\ UNCHANGED <<wire, crashes>>
  /\ WorkerExit(w)

-----------------------------------------------------------------------------
(* Stale tasks.                                                            *)

(* More than every cutoff (10 and 30 minutes) passes without a write. *)
HalfHour ==
  /\ status \notin Terminal
  /\ old' = {"updated_at"}
            \cup (IF status = "queued" THEN {} ELSE {"started_at"})
            \cup (IF placeholder = "running" THEN {"attempt"} ELSE {})
  /\ old' # old
  /\ UNCHANGED <<order, row, timeline, image, service, workers, sweepers, bot,
                 net, ghost>>

(* The sweeps select without a lock: cleanupStaleTasks looks for an attempt *)
(* that still runs, the timer of the backend does not...                    *)
Stale(s) ==
  \/ s = "handler" /\ status = "queued" /\ "updated_at" \in old
  \/ /\ s = "handler" /\ status = "running" /\ "started_at" \in old
     /\ placeholder = "running" => "attempt" \in old
  \/ s = "timer" /\ status = "running" /\ "updated_at" \in old

CleanupSelect(s) ==
  /\ cleaner[s] = "idle"
  /\ Stale(s)
  /\ cleaner' = [cleaner EXCEPT ![s] = "fail"]
  /\ UNCHANGED <<order, row, old, timeline, image, service, workers, ops, bot, net,
                 ghost>>

(* ... then fail what they selected, whatever it has become meanwhile... *)
CleanupFail(s) ==
  /\ cleaner[s] = "fail"
  /\ FailAndRefund
  /\ cleaner' = [cleaner EXCEPT ![s] = "close"]
  /\ UNCHANGED <<order, timeline, image, service, workers, ops, bot, net, ghost>>

(* ... and close the running sub tasks. *)
CleanupClose(s) ==
  /\ cleaner[s] = "close"
  /\ cleaner' = [cleaner EXCEPT ![s] = "idle"]
  /\ IF placeholder = "running" THEN CloseAttempt ELSE UNCHANGED <<old, timeline>>
  /\ UNCHANGED <<order, row, image, service, workers, ops, bot, net, ghost>>

(* Mutant of Repairable: finalizing tasks are left to the bot altogether. *)
RepairableUnlessFinalizing == status \in {"queued", "running"}

(* getStaleTasks leaves a finalizing task with a picture to the bot... *)
Repairable == status \notin Terminal /\ ~(status = "finalizing" /\ image = "saved")

OpsList ==
  /\ ops = "idle"
  /\ "updated_at" \in old /\ Repairable
  /\ ops' = "listed"
  /\ UNCHANGED <<order, row, old, timeline, image, service, workers, cleaner, bot,
                 net, ghost>>

(* ... repairStaleTask reads again, without the age and without a lock... *)
OpsRead ==
  /\ ops = "listed"
  /\ ops' = IF Repairable THEN "fail" ELSE "idle"
  /\ UNCHANGED <<order, row, old, timeline, image, service, workers, cleaner, bot,
                 net, ghost>>

(* ... fails the task and appends a finalize sub task. *)
OpsFail ==
  /\ ops = "fail"
  /\ FailAndRefund
  /\ ops' = "append"
  /\ UNCHANGED <<order, timeline, image, service, workers, cleaner, bot, net,
                 ghost>>

OpsAppend ==
  /\ ops = "append"
  /\ AppendFinalize("failed")
  /\ ops' = "idle"
  /\ UNCHANGED <<order, row, old, image, service, workers, cleaner, bot, net, ghost>>

(* The backend restarts: the handlers and the dispatch loop it was running *)
(* are gone, what they committed stays.  The enhancement of a task that is *)
(* still running is taken up again.                                        *)
BackendCrash ==
  /\ crashes < MaxCrashes
  /\ \/ dispatch # "done" \/ ops # "idle"
     \/ \E s \in Sweeps : cleaner[s] # "idle"
  /\ crashes' = crashes + 1
  /\ dispatch' = IF dispatch = "assist" /\ status = "running" THEN "assist" ELSE "done"
  /\ ops' = "idle"
  /\ cleaner' = [s \in Sweeps |-> "idle"]
  /\ UNCHANGED <<order, row, old, timeline, image, dispatched, accept, workers, bot,
                 wire, faults, ghost>>

-----------------------------------------------------------------------------
(* bot-service, reduced to what the backend sees of it: it sends the        *)
(* picture of a finalizing task, then confirms until the backend agrees.    *)

BotSend ==
  /\ source = "bot" /\ bot = "idle"
  /\ status = "finalizing" /\ image = "saved"
  /\ bot' = "sent"
  /\ UNCHANGED <<order, row, old, timeline, image, service, workers, sweepers, net,
                 ghost>>

(* markBotTaskDelivered: refused for a failed task, success from any other. *)
BotConfirm ==
  /\ bot = "sent" /\ image = "saved"
  /\ status # "failed"
  /\ bot' = "confirmed"
  /\ SetStatus("success")
  /\ IF status = "success" THEN UNCHANGED timeline ELSE AppendFinalize("success")
  /\ UNCHANGED <<order, image, service, workers, sweepers, net, ghost>>

-----------------------------------------------------------------------------
AcceptNext(i) ==
  \/ AcceptDispatch(i) \/ AcceptRunning(i) \/ AcceptAttempt(i)
  \/ AcceptTimeout(i) \/ PushFails(i)
  \/ \E w \in Workers : PushToWorker(i, w)

WorkerNext(w) ==
  \/ PickUp(w) \/ DropPushed(w)
  \/ ClaimRead(w) \/ ClaimUpdate(w) \/ ClaimTimeout(w)
  \/ CheckStillRunning(w) \/ Upstream(w) \/ ReportArrives(w)
  \/ SaveImage(w) \/ ReportImage(w) \/ Finish(w) \/ WriteFailed(w)
  \/ FinalizeTask(w) \/ ReportFinalize(w)
  \/ WorkerCrash(w) \/ ReportRejected(w)

Next ==
  \/ PromptAssisted \/ PromptAssistFails
  \/ SubmitTask \/ DispatchAnswered \/ DispatchTimeout \/ DispatchGiveUp
  \/ \E i \in 1..MaxDispatch : AcceptNext(i)
  \/ \E w \in Workers : WorkerNext(w)
  \/ \E r \in Requests : LateRequest(r)
  \/ HalfHour
  \/ \E s \in Sweeps : CleanupSelect(s) \/ CleanupFail(s) \/ CleanupClose(s)
  \/ OpsList \/ OpsRead \/ OpsFail \/ OpsAppend
  \/ BackendCrash
  \/ BotSend \/ BotConfirm

Spec == Init /\ [][Next]_vars

(* What the deployment keeps alive: time passes, the ops-worker's timer and *)
(* the bot's recovery loop run again and again, a handler of the backend    *)
(* that was started ends.  Nothing is assumed of the drawing-workers or of  *)
(* drawing-service, which may be down for good.                             *)
Fairness ==
  /\ WF_vars(HalfHour)
  /\ WF_vars(OpsList) /\ WF_vars(OpsRead) /\ WF_vars(OpsFail) /\ WF_vars(OpsAppend)
  /\ WF_vars(BotSend) /\ WF_vars(BotConfirm)

FairSpec == Spec /\ Fairness

-----------------------------------------------------------------------------
(* Properties.                                                             *)

(* Every variable keeps its type; the counters stay within their bounds. *)
RowType      == status \in Statuses /\ refunds \in Nat /\ old \subseteq Clocks
TimelineType == /\ placeholder \in {"none", "queued", "running"}
                /\ finalizes \subseteq Statuses
ServiceType  == /\ dispatch \in {"assist", "send", "wait", "giveUp", "done"}
                /\ dispatched \in 0..MaxDispatch
                /\ dispatch = "assist" => dispatched = 0
                /\ dispatch = "send" => dispatched < MaxDispatch
                /\ dispatch = "wait" => dispatched > 0
                /\ accept \in [1..MaxDispatch -> AcceptSteps]
WorkerType   == /\ pc \in [Workers -> WorkerSteps]
                /\ tries \in [Workers -> 0..MaxAttempts]
                /\ pushed \subseteq Workers /\ reporting \subseteq Workers
SweeperType  == /\ cleaner \in [Sweeps -> {"idle", "fail", "close"}]
                /\ ops \in {"idle", "listed", "fail", "append"}
NetType      == /\ wire \subseteq Requests
                /\ faults \in 0..MaxFaults /\ crashes \in 0..MaxCrashes
GhostType    == offers \in Nat /\ claims \in Nat

TypeOK ==
  /\ source \in Sources /\ assisted \in BOOLEAN
  /\ image \in {"none", "saved"} /\ bot \in {"idle", "sent", "confirmed"}
  /\ RowType /\ TimelineType /\ ServiceType /\ WorkerType
  /\ SweeperType /\ NetType /\ GhostType

(* The charge is given back exactly once when the task failed, and never    *)
(* otherwise, however many of the dispatch loop, the workers, the cleanup,  *)
(* the repair and late requests fail the task.                              *)
RefundedIffFailed == refunds = IF status = "failed" THEN 1 ELSE 0

(* A settled task stays as it was settled (the comment of updateTaskStatus: *)
(* late write-backs of a worker must not turn failed into success).         *)
TerminalIsFinal == [][(status \in Terminal) => (status' = status)]_vars

(* Every granted claim consumes one offer of the task, so two workers never *)
(* hold a claim for the same queued task or the same queued attempt.        *)
ClaimsWithinOffers ==
  claims + (IF status = "queued" THEN 1 ELSE 0)
         + (IF placeholder = "queued" THEN 1 ELSE 0) <= offers

(* A bot task succeeds only when its picture is saved and was sent, even    *)
(* though any of its status writes may arrive late.                         *)
BotSuccessDelivered ==
  source = "bot" /\ status = "success" => image = "saved" /\ bot = "confirmed"

(* The charge of a task as the abstract specification sees it; "twice" is a *)
(* state that specification does not have.                                  *)
Charge == CASE refunds = 0 /\ status = "success" -> "earned"
            [] refunds = 0 /\ status # "success" -> "held"
            [] refunds = 1 /\ status = "failed"  -> "returned"
            [] OTHER                             -> "twice"

S == INSTANCE Settlement WITH charge <- Charge

(* The task implements the promise about its charge, step by step. *)
ChargeSettledOnce == S!SafeSpec

(* The ops-worker and the bot alone settle every task, whatever happens to  *)
(* the drawing programs: no charge is held for ever.                        *)
ChargeSettled == S!Spec
=============================================================================
