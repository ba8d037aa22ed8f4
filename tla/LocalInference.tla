--------------------------- MODULE LocalInference ---------------------------
(***************************************************************************)
(* One image job of the local platform.  Its API reserves the price at the *)
(* main platform, its scheduler repeats what the API could not confirm and *)
(* hands out the GPU, its inference worker enhances the prompt, draws,     *)
(* commits or releases the reservation and publishes the image.            *)
(*                                                                         *)
(* API, scheduler and worker are three processes over one database; apart  *)
(* from the claims of the worker none of their writes looks at the status  *)
(* it replaces.  A call to the main platform is an action of its own, and  *)
(* so is every database transaction between two calls.  The database does  *)
(* not fail.                                                               *)
(***************************************************************************)
EXTENDS Integers

CONSTANTS
  Worlds,       \* the circumstances a behaviour may have, see World
  MaxAttempts,  \* maxAttempts of the model version
  MaxFaults,    \* bound: faults of the environment in one behaviour
  QueueCap,     \* bound: entries for the job in the Redis list
  AttemptCap    \* bound: attempts the model counts

(***************************************************************************)
(* `cancel': the user may ask to cancel.  `races': which of the API's      *)
(* requests may run next to other processes ("reserve": the reservation of *)
(* a new job next to the scheduler's; "cancel": a cancellation next to     *)
(* anything).  `faults': what may fail ("main": calls to the main          *)
(* platform, "body": their answers break off, "redis": pushes, "lease":    *)
(* the worker leaves a lease unused until it expires, "worker",            *)
(* "scheduler", "api": the process dies; "price": not a failure, but the   *)
(* administration publishes prices).                                       *)
(* `funds': the wallet can pay.  `draws': how ComfyUI may answer.          *)
(***************************************************************************)
World == [cancel : BOOLEAN, races : SUBSET {"reserve", "cancel"},
          faults : SUBSET {"main", "body", "price", "redis", "lease", "worker",
                           "scheduler", "api"},
          funds : BOOLEAN, draws : SUBSET {"ok", "retryable", "fatal"},
          enhance : BOOLEAN, gallery : BOOLEAN]

ASSUME LocalAssumption ==
  /\ Worlds \subseteq World
  /\ MaxAttempts \in Nat \ {0} /\ MaxFaults \in Nat
  /\ QueueCap \in Nat \ {0} /\ AttemptCap \in Nat

VARIABLES
  world,     \* the circumstances, fixed
  price,     \* the price version of the job is active
  job,       \* inference_jobs.status
  mirror,    \* billing_reservation_mirrors.status
  artifact,  \* the image is saved
  attempts,  \* rows of inference_attempts
  effective, \* effectivePrompt is set
  stage,     \* the stage PROMPT_ENHANCEMENT
  gallery,   \* gallery_publication_mirrors.status
  lease,     \* the GPU lease of the job
  main,      \* the reservation at the main platform
  late,      \* calls given up that the main platform may still execute
  queued,    \* entries for the job in the Redis list
  timer,     \* the worker will push the job in 15 seconds
  worker, scheduler, \* where the two loops are
  api,       \* where the requests of the API are
  faults     \* faults so far

plan  == <<world, price>>
rows  == <<artifact, attempts, effective, stage, gallery>>
money == <<main, late>>
vars  == <<plan, job, mirror, rows, lease, money, queued, timer, worker,
           scheduler, api, faults>>

Ended    == {"SUCCEEDED", "FAILED", "CANCELLED"}
Requests == {"create", "cancel"}

Jobs      == {"RESERVING", "READY", "RUNNING"} \cup Ended
Mirrors   == {"PENDING", "RESERVED", "COMMITTED", "RELEASED", "FAILED"}
Stages    == {"none", "PENDING", "RUNNING", "SUCCEEDED", "FAILED", "CANCELLED"}
Galleries == {"none", "PENDING", "PUBLISHING", "PUBLISHED", "FAILED"}
Leases    == {"none", "OFFERED", "STALE", "RUNNING"}
Calls     == {"reserve", "commit", "release"}
Answers   == {"ok", "refused", "unconfirmed"}
Mains     == {"none", "reserved", "committed", "released"}

WorkerPlaces ==
  {"down", "recover", "recovering", "idle", "stage", "enhance", "unenhanced",
   "refund stage", "refunded stage", "unrefunded stage", "claim", "draw", "commit",
   "committed", "uncommitted", "refund", "refunded", "unrefunded", "retry refund",
   "retry refunded", "unlease", "unlease done", "publish", "publishing"}
SchedulerPlaces == {"scan", "call", "reserved", "leases", "assign", "enqueue"}
ApiPlaces == {"idle", "ensure", "call", "reserved", "refused", "unconfirmed", "push",
              "refresh", "release", "cancel"}

TypeOK ==
  /\ world \in Worlds /\ price \in BOOLEAN
  /\ job \in Jobs /\ mirror \in Mirrors
  /\ artifact \in BOOLEAN /\ attempts \in 0..AttemptCap /\ effective \in BOOLEAN
  /\ stage \in Stages /\ gallery \in Galleries /\ lease \in Leases
  /\ main \in Mains /\ late \subseteq Calls
  /\ queued \in 0..QueueCap /\ timer \in BOOLEAN
  /\ worker \in WorkerPlaces /\ scheduler \in SchedulerPlaces
  /\ api \in [Requests -> ApiPlaces]
  /\ faults \in 0..MaxFaults

(* createInferenceJob has committed the job and its mirror.                *)
Init ==
  /\ world \in Worlds /\ price = TRUE
  /\ job = "RESERVING" /\ mirror = "PENDING"
  /\ artifact = FALSE /\ attempts = 0
  /\ effective = ~world.enhance
  /\ stage = (IF world.enhance THEN "PENDING" ELSE "none")
  /\ gallery = "none" /\ lease = "none"
  /\ main = "none" /\ late = {}
  /\ queued = 0 /\ timer = FALSE
  /\ worker = "idle" /\ scheduler = "scan"
  /\ api = [r \in Requests |-> IF r = "create" THEN "ensure" ELSE "idle"]
  /\ faults = 0

(***************************************************************************)
(* The environment.                                                        *)
(***************************************************************************)
Fault(kind) == kind \in world.faults /\ faults < MaxFaults /\ faults' = faults + 1

(* The reservation after the main platform has executed a call, and its    *)
(* answer: with a price version that is not active no reservation is made  *)
(* nor returned (404), with one that is, an existing reservation is        *)
(* returned whatever became of it; a commit or release is repeated with    *)
(* the same key, and neither replaces the other (409).                     *)
Effect(call) ==
  CASE call = "reserve" /\ price /\ main = "none" /\ world.funds -> "reserved"
    [] call = "commit"  /\ main = "reserved"            -> "committed"
    [] call = "release" /\ main = "reserved"            -> "released"
    [] OTHER                                            -> main

Answer(call) ==
  LET agreed == CASE call = "reserve" -> price /\ Effect(call) # "none"
                  [] call = "commit"  -> Effect(call) = "committed"
                  [] call = "release" -> Effect(call) = "released"
  IN  IF agreed THEN "ok" ELSE "refused"

(* requestMain: the answer, or after 15 seconds an error that leaves open  *)
(* whether the call was executed, is yet to be, or never will be.  An      *)
(* answer cut off in its body keeps its status, which is below 500.        *)
Call(call, answer) ==
  \/ /\ answer = Answer(call)
     /\ main' = Effect(call)
     /\ UNCHANGED <<late, faults>>
  \/ /\ answer = "unconfirmed"
     /\ Fault("main")
     /\ \/ main' = Effect(call) /\ UNCHANGED late
        \/ late' = late \cup {call} /\ UNCHANGED main
        \/ UNCHANGED money
  \/ /\ answer = "refused"
     /\ Fault("body")
     /\ main' = Effect(call) /\ UNCHANGED late

LateCall(call) ==
  /\ call \in late
  /\ main' = Effect(call)
  /\ late' = late \ {call}
  /\ UNCHANGED <<plan, job, mirror, rows, lease, queued, timer, worker, scheduler,
                 api, faults>>

(* publishPrice: another version takes the place of that of the job, or    *)
(* that of the job is published again.                                     *)
PublishPrice ==
  /\ Fault("price")
  /\ price' = ~price
  /\ UNCHANGED <<world, job, mirror, rows, lease, money, queued, timer, worker,
                 scheduler, api>>

(* InferenceQueue.push                                                     *)
Push == queued' = IF queued < QueueCap THEN queued + 1 ELSE queued

(* Who may take a step, if the world excludes races with the API.          *)
NoReserveRace == "reserve" \in world.races
                 \/ (api["create"] = "idle" /\ scheduler \notin {"call", "reserved"})
NoCancelRace  == "cancel" \in world.races \/ api["cancel"] = "idle"
Others == worker \in {"idle", "down"} /\ scheduler = "scan" /\ api["create"] = "idle"

(***************************************************************************)
(* The API.  Both a submission and a cancellation run                      *)
(* ensureMainReservation, from "ensure" on.                                *)
(***************************************************************************)
Goto(r, place) == api' = [api EXCEPT ![r] = place]
(* What follows when ensureMainReservation returns.                        *)
Ensured(r) == IF r = "create" THEN "idle" ELSE "refresh"

(* The same submission again, while the job has no reservation yet.        *)
Resubmit ==
  /\ api["create"] = "idle" /\ job = "RESERVING"
  /\ NoCancelRace /\ NoReserveRace
  /\ Goto("create", "ensure")
  /\ UNCHANGED <<plan, job, mirror, rows, lease, money, queued, timer, worker,
                 scheduler, faults>>

EnsureReads(r) ==
  /\ api[r] = "ensure"
  /\ mirror # "RESERVED"
  /\ Goto(r, "call")
  /\ UNCHANGED <<plan, job, mirror, rows, lease, money, queued, timer, worker,
                 scheduler, faults>>

(* The reservation is there: the job is only pushed.                       *)
EnsureWakes(r) ==
  /\ api[r] = "ensure"
  /\ mirror = "RESERVED"
  /\ \/ Push /\ Goto(r, Ensured(r)) /\ UNCHANGED faults
     \/ Fault("redis") /\ Goto(r, "idle") /\ UNCHANGED queued
  /\ UNCHANGED <<plan, job, mirror, rows, lease, money, timer, worker, scheduler>>

EnsureCalls(r) ==
  /\ api[r] = "call"
  /\ \E answer \in Answers :
       /\ Call("reserve", answer)
       /\ Goto(r, IF answer = "ok" THEN "reserved" ELSE answer)
  /\ UNCHANGED <<plan, job, mirror, rows, lease, queued, timer, worker, scheduler>>

EnsureReserved(r) ==
  /\ api[r] = "reserved"
  /\ mirror' = "RESERVED" /\ job' = "READY"
  /\ Goto(r, "push")
  /\ UNCHANGED <<plan, rows, lease, money, queued, timer, worker, scheduler, faults>>

(* A push that fails is caught with the errors of the reservation: it is   *)
(* not a temporary error of the main platform.                             *)
EnsurePushes(r) ==
  /\ api[r] = "push"
  /\ \/ Push /\ Goto(r, Ensured(r)) /\ UNCHANGED faults
     \/ Fault("redis") /\ Goto(r, "refused") /\ UNCHANGED queued
  /\ UNCHANGED <<plan, job, mirror, rows, lease, money, timer, worker, scheduler>>

EnsureFails(r) ==
  /\ api[r] \in {"refused", "unconfirmed"}
  /\ IF api[r] = "unconfirmed" THEN mirror' = "PENDING" /\ job' = "RESERVING"
                               ELSE mirror' = "FAILED" /\ job' = "FAILED"
  /\ Goto(r, "idle")
  /\ UNCHANGED <<plan, rows, lease, money, queued, timer, worker, scheduler, faults>>

(* cancelInferenceJob: a job that has ended or runs is not cancelled.      *)
CancelReads ==
  /\ world.cancel /\ api["cancel"] = "idle"
  /\ "cancel" \in world.races \/ Others
  /\ job \in {"RESERVING", "READY"}
  /\ Goto("cancel", IF job = "RESERVING" THEN "ensure" ELSE "refresh")
  /\ UNCHANGED <<plan, job, mirror, rows, lease, money, queued, timer, worker,
                 scheduler, faults>>

CancelRefreshes ==
  /\ api["cancel"] = "refresh"
  /\ Goto("cancel", IF mirror = "RESERVED" THEN "release" ELSE "cancel")
  /\ UNCHANGED <<plan, job, mirror, rows, lease, money, queued, timer, worker,
                 scheduler, faults>>

(* Mutant of CancelReleases: nothing is written after the refund. *)
CancelForgets ==
  /\ api["cancel"] = "release"
  /\ \E answer \in Answers : Call("release", answer)
  /\ Goto("cancel", "idle")
  /\ UNCHANGED <<plan, job, mirror, rows, lease, queued, timer, worker, scheduler>>

CancelReleases ==
  /\ api["cancel"] = "release"
  /\ \E answer \in Answers :
       /\ Call("release", answer)
       /\ Goto("cancel", IF answer = "ok" THEN "cancel" ELSE "idle")
  /\ UNCHANGED <<plan, job, mirror, rows, lease, queued, timer, worker, scheduler>>

CancelWrites ==
  /\ api["cancel"] = "cancel"
  /\ job' = "CANCELLED" /\ mirror' = "RELEASED"
  /\ stage' = IF stage \in {"PENDING", "RUNNING"} THEN "CANCELLED" ELSE stage
  /\ Goto("cancel", "idle")
  /\ UNCHANGED <<plan, artifact, attempts, effective, gallery, lease, money,
                 queued, timer, worker, scheduler, faults>>

ApiCrashes ==
  /\ \E r \in Requests : api[r] # "idle"
  /\ Fault("api")
  /\ api' = [r \in Requests |-> "idle"]
  /\ UNCHANGED <<plan, job, mirror, rows, lease, money, queued, timer, worker, scheduler>>

(***************************************************************************)
(* The scheduler: one pass of runScheduler after another.                  *)
(***************************************************************************)
SchedulerScans ==
  /\ scheduler = "scan" /\ NoCancelRace
  /\ IF mirror = "PENDING" /\ job = "RESERVING"
     THEN NoReserveRace /\ scheduler' = "call"
     ELSE scheduler' = "leases"
  /\ UNCHANGED <<plan, job, mirror, rows, lease, money, queued, timer, worker, api, faults>>

(* Anything but a reservation is only noted.                               *)
SchedulerCalls ==
  /\ scheduler = "call" /\ NoCancelRace
  /\ \E answer \in Answers :
       /\ Call("reserve", answer)
       /\ scheduler' = IF answer = "ok" THEN "reserved" ELSE "leases"
  /\ UNCHANGED <<plan, job, mirror, rows, lease, queued, timer, worker, api>>

SchedulerReserves ==
  /\ scheduler = "reserved" /\ NoCancelRace
  /\ mirror' = "RESERVED" /\ job' = "READY"
  /\ scheduler' = "leases"
  /\ UNCHANGED <<plan, rows, lease, money, queued, timer, worker, api, faults>>

(* reconcileGpuLeases: a lease of the worker's has no expiry here.         *)
ReconcileGpuLeases ==
  /\ scheduler = "leases" /\ NoCancelRace
  /\ lease' = IF lease = "STALE" \/ job \in Ended THEN "none" ELSE lease
  /\ scheduler' = "assign"
  /\ UNCHANGED <<plan, job, mirror, rows, money, queued, timer, worker, api, faults>>

AssignGpuLeases ==
  /\ scheduler = "assign" /\ NoCancelRace
  /\ lease' = IF job = "READY" /\ effective /\ ~artifact /\ lease = "none"
              THEN "OFFERED" ELSE lease
  /\ scheduler' = "enqueue"
  /\ UNCHANGED <<plan, job, mirror, rows, money, queued, timer, worker, api, faults>>

EnqueueReadyJobs ==
  /\ scheduler = "enqueue" /\ NoCancelRace
  /\ IF job = "READY" /\ (artifact \/ stage = "PENDING" \/ lease = "OFFERED")
     THEN \/ Push /\ UNCHANGED faults
          \/ Fault("redis") /\ UNCHANGED queued
     ELSE UNCHANGED <<queued, faults>>
  /\ scheduler' = "scan"
  /\ UNCHANGED <<plan, job, mirror, rows, lease, money, timer, worker, api>>

SchedulerCrashes ==
  /\ scheduler # "scan"
  /\ Fault("scheduler")
  /\ scheduler' = "scan"
  /\ UNCHANGED <<plan, job, mirror, rows, lease, money, queued, timer, worker, api>>

LeaseExpires ==
  /\ lease = "OFFERED"
  /\ Fault("lease")
  /\ lease' = "STALE"
  /\ UNCHANGED <<plan, job, mirror, rows, money, queued, timer, worker, scheduler, api>>

(***************************************************************************)
(* The worker: runWorker handles one queue entry after another, and looks  *)
(* for refunds and publications to repeat when there is none.              *)
(***************************************************************************)
Work(from, to) == worker = from /\ worker' = to /\ NoCancelRace

(* Mutant of Pop: the lease is looked at before the image. *)
PopUnaware ==
  /\ queued > 0 /\ queued' = queued - 1
  /\ Work("idle", CASE job # "READY" \/ mirror # "RESERVED" -> "idle"
                    [] OTHER -> IF ~effective THEN "stage"
                                ELSE IF lease = "OFFERED" THEN "claim"
                                ELSE IF artifact THEN "commit" ELSE "idle")
  /\ UNCHANGED <<plan, job, mirror, rows, lease, money, timer, scheduler, api, faults>>

(* processJob reads the job; all that follows goes by what it saw here.    *)
Pop ==
  /\ queued > 0 /\ queued' = queued - 1
  /\ Work("idle", CASE job # "READY" \/ mirror # "RESERVED" -> "idle"
                    [] OTHER -> IF ~effective THEN "stage"
                                ELSE IF artifact THEN "commit"
                                ELSE IF lease = "OFFERED" THEN "claim" ELSE "idle")
  /\ UNCHANGED <<plan, job, mirror, rows, lease, money, timer, scheduler, api, faults>>

(* processPromptEnhancement                                                *)
ClaimStage ==
  /\ Work("stage", IF stage = "PENDING" THEN "enhance" ELSE "idle")
  /\ stage' = IF stage = "PENDING" THEN "RUNNING" ELSE stage
  /\ UNCHANGED <<plan, job, mirror, artifact, attempts, effective, gallery, lease,
                 money, queued, timer, scheduler, api, faults>>

Enhanced ==
  /\ Work("enhance", "idle")
  /\ effective' = (effective \/ job = "READY")
  /\ stage' = IF job = "READY" THEN "SUCCEEDED" ELSE "CANCELLED"
  /\ UNCHANGED <<plan, job, mirror, artifact, attempts, gallery, lease, money,
                 queued, timer, scheduler, api, faults>>

(* The prompt service fails.                                               *)
EnhanceFails ==
  /\ "fatal" \in world.draws
  /\ Work("enhance", "unenhanced")
  /\ UNCHANGED <<plan, job, mirror, rows, lease, money, queued, timer, scheduler,
                 api, faults>>

(* failPromptEnhancementJob                                                *)
StageFails ==
  /\ Work("unenhanced", IF job = "CANCELLED" THEN "idle" ELSE "refund stage")
  /\ stage' = IF job = "CANCELLED" THEN "CANCELLED" ELSE stage
  /\ UNCHANGED <<plan, job, mirror, artifact, attempts, effective, gallery, lease,
                 money, queued, timer, scheduler, api, faults>>

(* releaseMainBilling by the worker; what it threw is only logged.         *)
Refund(from, done, notDone) ==
  /\ \E answer \in Answers :
       /\ Call("release", answer)
       /\ Work(from, IF answer = "ok" THEN done ELSE notDone)
  /\ UNCHANGED <<plan, job, mirror, rows, lease, queued, timer, scheduler, api>>

RefundStage == Refund("refund stage", "refunded stage", "unrefunded stage")

(* Failing job and mirror is one transaction, before the lease is given    *)
(* back.                                                                   *)
Fail(from, refunded) ==
  /\ Work(from, "unlease")
  /\ job' = "FAILED"
  /\ mirror' = IF refunded THEN "RELEASED" ELSE "RESERVED"
  /\ UNCHANGED <<plan, artifact, attempts, effective, gallery, lease, money, queued,
                 timer, scheduler, api, faults>>

FailPromptEnhancementJob ==
  /\ Fail("refunded stage", TRUE) \/ Fail("unrefunded stage", FALSE)
  /\ stage' = "FAILED"

(* The claim: a conditional update of the job with the lease and a row for *)
(* the attempt.  The lease goes by its id, whatever became of it.          *)
Claim ==
  /\ attempts < AttemptCap
  /\ Work("claim", IF job = "READY" THEN "draw" ELSE "idle")
  /\ IF job = "READY"
     THEN job' = "RUNNING" /\ lease' = "RUNNING" /\ attempts' = attempts + 1
     ELSE UNCHANGED <<job, lease, attempts>>
  /\ UNCHANGED <<plan, mirror, artifact, effective, stage, gallery, money, queued,
                 timer, scheduler, api, faults>>

(* Mutant of Drawn: the image is not saved before the commit. *)
DrawnUnsaved ==
  /\ "ok" \in world.draws
  /\ Work("draw", "commit")
  /\ UNCHANGED <<plan, job, mirror, rows, lease, money, queued, timer, scheduler,
                 api, faults>>

(* ComfyUI has drawn and the image is saved.                               *)
Drawn ==
  /\ "ok" \in world.draws
  /\ Work("draw", "commit")
  /\ artifact' = TRUE
  /\ UNCHANGED <<plan, job, mirror, attempts, effective, stage, gallery, lease,
                 money, queued, timer, scheduler, api, faults>>

(* retryGeneratedJob                                                       *)
RetryGeneratedJob ==
  /\ "retryable" \in world.draws /\ attempts < MaxAttempts
  /\ Work("draw", "unlease")
  /\ job' = "READY"
  /\ UNCHANGED <<plan, mirror, rows, lease, money, queued, timer, scheduler, api, faults>>

DrawFails ==
  /\ "fatal" \in world.draws \/ ("retryable" \in world.draws /\ attempts >= MaxAttempts)
  /\ Work("draw", "refund")
  /\ UNCHANGED <<plan, job, mirror, rows, lease, money, queued, timer, scheduler,
                 api, faults>>

(* failGeneratedJob                                                        *)
RefundDraw == Refund("refund", "refunded", "unrefunded")

FailGeneratedJob ==
  /\ Fail("refunded", TRUE) \/ Fail("unrefunded", FALSE)
  /\ UNCHANGED stage

(* Mutant of Commit: an error of the call is taken for success. *)
CommitUnanswered ==
  /\ \E answer \in Answers : Call("commit", answer)
  /\ Work("commit", "committed")
  /\ UNCHANGED <<plan, job, mirror, rows, lease, queued, timer, scheduler, api>>

(* finalizeSuccessfulJob                                                   *)
Commit ==
  /\ \E answer \in Answers :
       /\ Call("commit", answer)
       /\ Work("commit", IF answer = "ok" THEN "committed" ELSE "uncommitted")
  /\ UNCHANGED <<plan, job, mirror, rows, lease, queued, timer, scheduler, api>>

Succeed ==
  /\ Work("committed", "unlease done")
  /\ mirror' = "COMMITTED" /\ job' = "SUCCEEDED"
  /\ UNCHANGED <<plan, rows, lease, money, queued, timer, scheduler, api, faults>>

CommitPending ==
  /\ Work("uncommitted", "unlease")
  /\ job' = "READY" /\ timer' = TRUE
  /\ UNCHANGED <<plan, mirror, rows, lease, money, queued, scheduler, api, faults>>

(* The timer of 15 seconds; a push that fails is ignored.                  *)
DelayedPush ==
  /\ timer /\ timer' = FALSE /\ NoCancelRace
  /\ \/ Push /\ UNCHANGED faults
     \/ Fault("redis") /\ UNCHANGED queued
  /\ UNCHANGED <<plan, job, mirror, rows, lease, money, worker, scheduler, api>>

(* releaseJobLeases, and where the callers go on.                          *)
ReleaseJobLeases ==
  /\ \/ Work("unlease", "idle")
     \/ Work("unlease done", IF world.gallery THEN "publish" ELSE "idle")
  /\ lease' = "none"
  /\ UNCHANGED <<plan, job, mirror, rows, money, queued, timer, scheduler, api, faults>>

(* ensureGalleryPublication: the row, then PUBLISHING, then the call.      *)
Publish ==
  /\ IF gallery \in {"none", "PUBLISHED"}
     THEN Work("publish", IF gallery = "none" THEN "publish" ELSE "idle")
     ELSE Work("publish", "publishing")
  /\ gallery' = CASE gallery = "none"      -> "PENDING"
                  [] gallery = "PUBLISHED" -> "PUBLISHED"
                  [] OTHER                 -> "PUBLISHING"
  /\ UNCHANGED <<plan, job, mirror, artifact, attempts, effective, stage, lease,
                 money, queued, timer, scheduler, api, faults>>

(* The main platform publishes what is paid.                               *)
Published ==
  /\ Work("publishing", "idle")
  /\ \/ gallery' = (IF main = "committed" THEN "PUBLISHED" ELSE "FAILED") /\ UNCHANGED faults
     \/ gallery' = "FAILED" /\ Fault("main")
  /\ UNCHANGED <<plan, job, mirror, artifact, attempts, effective, stage, lease,
                 money, queued, timer, scheduler, api>>

(* Mutant of ReconcileFailed: failed jobs are forgotten. *)
ReconcileCancelled ==
  /\ queued = 0
  /\ job = "CANCELLED" /\ mirror = "RESERVED"
  /\ Work("idle", "retry refund")
  /\ UNCHANGED <<plan, job, mirror, rows, lease, money, queued, timer, scheduler,
                 api, faults>>

(* reconcileFailedReservations, when the queue has been empty for 5 s.     *)
ReconcileFailed ==
  /\ queued = 0
  /\ job \in {"FAILED", "CANCELLED"} /\ mirror = "RESERVED"
  /\ Work("idle", "retry refund")
  /\ UNCHANGED <<plan, job, mirror, rows, lease, money, queued, timer, scheduler,
                 api, faults>>

RetryRefund == Refund("retry refund", "retry refunded", "idle")

RefundRetried ==
  /\ Work("retry refunded", "idle")
  /\ mirror' = "RELEASED"
  /\ UNCHANGED <<plan, job, rows, lease, money, queued, timer, scheduler, api, faults>>

(* reconcileGalleryPublications                                            *)
ReconcileGallery ==
  /\ queued = 0
  /\ job = "SUCCEEDED" /\ mirror = "COMMITTED" /\ world.gallery
  /\ gallery \in {"none", "PENDING", "FAILED"}
  /\ Work("idle", "publish")
  /\ UNCHANGED <<plan, job, mirror, rows, lease, money, queued, timer, scheduler,
                 api, faults>>

WorkerCrashes ==
  /\ worker # "down"
  /\ Fault("worker")
  /\ worker' = "down" /\ timer' = FALSE
  /\ UNCHANGED <<plan, job, mirror, rows, lease, money, queued, scheduler, api>>

(* recoverInterruptedJobs: the stage, then the list of running jobs, then  *)
(* lease, job and queue for each.                                          *)
Recover ==
  /\ Work("down", "recover")
  /\ stage' = IF stage = "RUNNING" /\ job = "READY" /\ ~effective THEN "PENDING" ELSE stage
  /\ UNCHANGED <<plan, job, mirror, artifact, attempts, effective, gallery, lease,
                 money, queued, timer, scheduler, api, faults>>

RecoverReads ==
  /\ Work("recover", IF job = "RUNNING" /\ mirror = "RESERVED" THEN "recovering" ELSE "idle")
  /\ UNCHANGED <<plan, job, mirror, rows, lease, money, queued, timer, scheduler,
                 api, faults>>

(* A push that fails here ends the process.                                *)
RecoverWrites ==
  /\ \/ Work("recovering", "idle") /\ Push /\ UNCHANGED faults
     \/ Work("recovering", "down") /\ Fault("redis") /\ UNCHANGED queued
  /\ job' = "READY" /\ lease' = "none"
  /\ UNCHANGED <<plan, mirror, rows, money, timer, scheduler, api>>

(***************************************************************************)
(* The specification.                                                      *)
(***************************************************************************)
RequestSteps ==
  \/ \E r \in Requests : \/ EnsureReads(r) \/ EnsureWakes(r) \/ EnsureCalls(r)
                         \/ EnsureReserved(r) \/ EnsurePushes(r) \/ EnsureFails(r)
  \/ CancelRefreshes \/ CancelReleases \/ CancelWrites

SchedulerSteps ==
  \/ SchedulerScans \/ SchedulerCalls \/ SchedulerReserves
  \/ ReconcileGpuLeases \/ AssignGpuLeases \/ EnqueueReadyJobs

WorkerSteps ==
  \/ Pop \/ ClaimStage \/ Enhanced \/ EnhanceFails \/ StageFails \/ RefundStage
  \/ FailPromptEnhancementJob \/ Claim \/ Drawn \/ RetryGeneratedJob \/ DrawFails
  \/ RefundDraw \/ FailGeneratedJob \/ Commit \/ Succeed \/ CommitPending
  \/ ReleaseJobLeases \/ Publish \/ Published
  \/ ReconcileFailed \/ RetryRefund \/ RefundRetried \/ ReconcileGallery
  \/ Recover \/ RecoverReads \/ RecoverWrites

Environment ==
  \/ \E call \in Calls : LateCall(call)
  \/ PublishPrice \/ Resubmit \/ CancelReads \/ LeaseExpires
  \/ ApiCrashes \/ SchedulerCrashes \/ WorkerCrashes

Next == RequestSteps \/ SchedulerSteps \/ WorkerSteps \/ DelayedPush \/ Environment

Spec == Init /\ [][Next]_vars

(* Every process takes its next step in the end (the timers and the        *)
(* processes that restart the others see to it); what users do and what    *)
(* fails has no fairness.                                                  *)
FairSpec ==
  Spec /\ WF_vars(RequestSteps) /\ WF_vars(SchedulerSteps) /\ WF_vars(WorkerSteps)
       /\ WF_vars(DelayedPush)

(***************************************************************************)
(* Properties.                                                             *)
(***************************************************************************)

(* A job is shown as a success, and its mirror as committed, only when the *)
(* money has been taken and an image is there.                             *)
SucceededPaid ==
  job = "SUCCEEDED" \/ mirror = "COMMITTED" => main = "committed" /\ artifact

(* Money is taken only for an image that is saved, however late the main   *)
(* platform executes a commit; and only a paid image is published.         *)
CommittedDrawn ==
  /\ main = "committed" => artifact
  /\ gallery = "PUBLISHED" => main = "committed"

(* processJob: with an image, only the commit is repeated.                 *)
DrawnOnce == [][artifact => artifact' /\ attempts' = attempts]_vars

(* The circumstances in which no reservation is forgotten.  Outside them   *)
(* the code forgets some: a push that fails and an answer that breaks off  *)
(* are taken for refusals; a reservation whose answer was lost cannot be   *)
(* asked for again when another price has been published; a cancellation   *)
(* whose refund is not confirmed leaves the job to the worker; a worker    *)
(* that dies between refund and failure draws again, one that dies while   *)
(* publishing never does.                                                  *)
Recoverable ==
  /\ world.faults \cap {"redis", "body"} = {}
  /\ world.cancel => world.races = {} /\ world.faults \subseteq {"lease", "price"}
  /\ "price" \in world.faults => world.faults \cap {"main", "scheduler", "api"} = {}
  /\ world.races # {} => /\ world.races = {"reserve"} /\ world.draws = {"ok"}
                         /\ world.faults \subseteq {"lease"}
  /\ "worker" \in world.faults => world.draws = {"ok"} /\ ~world.gallery
  /\ ~world.funds => world.faults = {}

(* The GPU works only for a job whose price is still reserved, a refund    *)
(* the user is told of has happened, and a job that failed or was          *)
(* cancelled has its price back, unless the worker still finds it among    *)
(* those to refund: nobody else looks for it.                              *)
ReservationHonest ==
  Recoverable =>
    /\ worker = "draw" => main = "reserved"
    /\ mirror = "RELEASED" => main = "released"
    /\ job \in {"FAILED", "CANCELLED"} /\ mirror # "RESERVED" => main \in {"none", "released"}

(* The job ends, with the price taken and the image published, or with the *)
(* price returned.                                                         *)
Settled ==
  \/ /\ job = "SUCCEEDED" /\ main = "committed"
     /\ world.gallery => gallery = "PUBLISHED"
  \/ job \in {"FAILED", "CANCELLED"} /\ main \in {"none", "released"}

JobSettles == Recoverable => <>[]Settled

(* docs/interfaces/README.md:137: only jobs that do not run are cancelled. *)
OnlyIdleCancelled == [][job = "RUNNING" => job' # "CANCELLED"]_vars
=============================================================================
