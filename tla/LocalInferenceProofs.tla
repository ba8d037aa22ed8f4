------------------------ MODULE LocalInferenceProofs ------------------------
(***************************************************************************)
(* Theorems about LocalInference in every world: whatever is cancelled,    *)
(* races or fails, any number of times.                                    *)
(***************************************************************************)
EXTENDS LocalInference, TLAPS

USE LocalAssumption DEF LocalAssumption
USE DEF vars, plan, rows, money, Requests, Ended, Goto, Push, Fault, Work

-----------------------------------------------------------------------------
(* A call and an answer to it: the reservation moves forward only, and     *)
(* only by the call.                                                       *)
LEMMA CallEffect ==
  ASSUME NEW call \in Calls, NEW answer,
         main \in Mains,
         faults \in 0..MaxFaults, Call(call, answer)
  PROVE  /\ main' \in Mains
         /\ late' \subseteq late \cup {call}
         /\ faults' \in 0..MaxFaults
         /\ answer \in Answers
         /\ main = "committed" => main' = "committed"
         /\ main' = "committed" => main = "committed" \/ call = "commit"
         /\ call = "commit" /\ answer = "ok" => main' = "committed"
<1>1. Effect(call) \in Mains
  BY DEF Effect, Mains
<1>2. /\ main = "committed" => Effect(call) = "committed"
      /\ Effect(call) = "committed" => main = "committed" \/ call = "commit"
  BY DEF Effect
<1>3. /\ Answer(call) \in {"ok", "refused"}
      /\ call = "commit" /\ Answer(call) = "ok" => Effect(call) = "committed"
  BY DEF Answer, Calls
<1>4. QED
  BY <1>1, <1>2, <1>3 DEF Call, Answers

-----------------------------------------------------------------------------
(* Types.                                                                  *)

LEMMA RequestTypes ==
  ASSUME TypeOK, RequestSteps PROVE TypeOK'
<1> USE DEF TypeOK
<1>1. ASSUME NEW r \in Requests,
             EnsureReads(r) \/ EnsureReserved(r) \/ EnsureFails(r)
      PROVE  TypeOK'
  BY <1>1 DEF EnsureReads, EnsureReserved, EnsureFails, ApiPlaces, Jobs, Mirrors
<1>2. ASSUME NEW r \in Requests, EnsureWakes(r) \/ EnsurePushes(r) PROVE TypeOK'
  BY <1>2 DEF EnsureWakes, EnsurePushes, Ensured, ApiPlaces
<1>3. ASSUME NEW r \in Requests, EnsureCalls(r) PROVE TypeOK'
  <2>1. PICK answer \in Answers :
          /\ Call("reserve", answer)
          /\ Goto(r, IF answer = "ok" THEN "reserved" ELSE answer)
    BY <1>3 DEF EnsureCalls
  <2>2. /\ main' \in Mains /\ late' \subseteq late \cup {"reserve"}
        /\ faults' \in 0..MaxFaults
    BY <2>1, CallEffect, "reserve" \in Calls DEF Calls
  <2>3. late' \subseteq Calls
    BY <2>2 DEF Calls
  <2>4. api' \in [Requests -> ApiPlaces]
    BY <2>1 DEF Answers, ApiPlaces
  <2>5. QED
    BY <1>3, <2>2, <2>3, <2>4 DEF EnsureCalls
<1>4. CASE CancelReleases
  BY <1>4, CallEffect DEF CancelReleases, Calls, ApiPlaces
<1>5. CASE CancelRefreshes \/ CancelWrites
  BY <1>5 DEF CancelRefreshes, CancelWrites, ApiPlaces, Jobs, Mirrors, Stages
<1>6. QED
  BY <1>1, <1>2, <1>3, <1>4, <1>5 DEF RequestSteps

LEMMA SchedulerTypes ==
  ASSUME TypeOK, SchedulerSteps PROVE TypeOK'
<1> USE DEF TypeOK
<1>1. CASE SchedulerCalls
  BY <1>1, CallEffect DEF SchedulerCalls, Calls, SchedulerPlaces
<1>2. CASE EnqueueReadyJobs
  BY <1>2 DEF EnqueueReadyJobs, SchedulerPlaces
<1>3. CASE SchedulerScans \/ SchedulerReserves \/ ReconcileGpuLeases \/ AssignGpuLeases
  BY <1>3 DEF SchedulerScans, SchedulerReserves, ReconcileGpuLeases, AssignGpuLeases,
     SchedulerPlaces, Jobs, Mirrors, Leases
<1>4. QED
  BY <1>1, <1>2, <1>3 DEF SchedulerSteps

LEMMA WorkerTypes ==
  ASSUME TypeOK, WorkerSteps PROVE TypeOK'
<1> USE DEF TypeOK
<1>1. CASE Commit
  BY <1>1, CallEffect DEF Commit, Calls, WorkerPlaces
<1>2. CASE RefundStage \/ RefundDraw \/ RetryRefund
  BY <1>2, CallEffect DEF RefundStage, RefundDraw, RetryRefund, Refund, Calls, WorkerPlaces
<1>3. CASE FailPromptEnhancementJob \/ FailGeneratedJob
  BY <1>3 DEF FailPromptEnhancementJob, FailGeneratedJob, Fail, Jobs, Mirrors, Stages,
     WorkerPlaces
<1>4. CASE Pop
  BY <1>4 DEF Pop, WorkerPlaces
<1>5. CASE ClaimStage \/ Enhanced \/ EnhanceFails \/ StageFails
  BY <1>5 DEF ClaimStage, Enhanced, EnhanceFails, StageFails, Stages, WorkerPlaces
<1>6. CASE Claim
  BY <1>6 DEF Claim, Jobs, Leases, WorkerPlaces
<1>7. CASE Drawn \/ RetryGeneratedJob \/ DrawFails \/ Succeed \/ CommitPending
  <2>1. CASE Drawn \/ RetryGeneratedJob \/ DrawFails
    BY <2>1 DEF Drawn, RetryGeneratedJob, DrawFails, Jobs, WorkerPlaces
  <2>2. CASE Succeed \/ CommitPending
    BY <2>2 DEF Succeed, CommitPending, Jobs, Mirrors, WorkerPlaces
  <2>3. QED
    BY <1>7, <2>1, <2>2
<1>8. CASE ReleaseJobLeases \/ Publish \/ Published
  <2>1. CASE ReleaseJobLeases
    BY <2>1 DEF ReleaseJobLeases, Leases, WorkerPlaces
  <2>2. CASE Publish
    BY <2>2 DEF Publish, Galleries, WorkerPlaces
  <2>3. CASE Published
    BY <2>3 DEF Published, Galleries, WorkerPlaces
  <2>4. QED
    BY <1>8, <2>1, <2>2, <2>3
<1>9. CASE ReconcileFailed \/ RefundRetried \/ ReconcileGallery
  BY <1>9 DEF ReconcileFailed, RefundRetried, ReconcileGallery, Mirrors,
     WorkerPlaces
<1>10. CASE Recover \/ RecoverReads \/ RecoverWrites
  <2>1. CASE Recover
    BY <2>1 DEF Recover, Stages, WorkerPlaces
  <2>2. CASE RecoverReads
    BY <2>2 DEF RecoverReads, WorkerPlaces
  <2>3. CASE RecoverWrites
    <3>1. queued' \in 0..QueueCap /\ faults' \in 0..MaxFaults
      BY <2>3 DEF RecoverWrites
    <3>2. job' \in Jobs /\ lease' \in Leases /\ worker' \in WorkerPlaces
      BY <2>3 DEF RecoverWrites, Jobs, Leases, WorkerPlaces
    <3>3. UNCHANGED <<plan, mirror, rows, money, timer, scheduler, api>>
      BY <2>3 DEF RecoverWrites
    <3>4. QED
      BY <3>1, <3>2, <3>3
  <2>4. QED
    BY <1>10, <2>1, <2>2, <2>3
<1>11. QED
  BY <1>1, <1>2, <1>3, <1>4, <1>5, <1>6, <1>7, <1>8, <1>9, <1>10 DEF WorkerSteps

LEMMA EnvironmentTypes ==
  ASSUME TypeOK, Environment \/ DelayedPush PROVE TypeOK'
<1> USE DEF TypeOK
<1>1. ASSUME NEW call \in Calls, LateCall(call)
      PROVE  TypeOK'
  BY <1>1 DEF LateCall, Effect, Mains
<1>2. CASE PublishPrice \/ Resubmit \/ CancelReads \/ LeaseExpires
  <2>1. CASE PublishPrice
    <3>1. price' \in BOOLEAN /\ faults' \in 0..MaxFaults
      BY <2>1 DEF PublishPrice
    <3>2. UNCHANGED <<world, job, mirror, rows, lease, money, queued, timer, worker,
                      scheduler, api>>
      BY <2>1 DEF PublishPrice
    <3>3. QED
      BY <3>1, <3>2
  <2>2. CASE Resubmit \/ CancelReads \/ LeaseExpires
    BY <2>2 DEF Resubmit, CancelReads, LeaseExpires, ApiPlaces, Leases
  <2>3. QED
    BY <1>2, <2>1, <2>2
<1>3. CASE ApiCrashes \/ SchedulerCrashes \/ WorkerCrashes
  <2>1. CASE ApiCrashes
    BY <2>1 DEF ApiCrashes, ApiPlaces
  <2>2. CASE SchedulerCrashes
    BY <2>2 DEF SchedulerCrashes, SchedulerPlaces
  <2>3. CASE WorkerCrashes
    <3>1. worker' \in WorkerPlaces
      BY <2>3 DEF WorkerCrashes, WorkerPlaces
    <3>2. faults' \in 0..MaxFaults
      BY <2>3 DEF WorkerCrashes
    <3>3. timer' \in BOOLEAN
      BY <2>3 DEF WorkerCrashes
    <3>4. UNCHANGED <<plan, job, mirror, rows, lease, money, queued, scheduler, api>>
      BY <2>3 DEF WorkerCrashes
    <3>5. QED
      BY <3>1, <3>2, <3>3, <3>4
  <2>4. QED
    BY <1>3, <2>1, <2>2, <2>3
<1>4. CASE DelayedPush
  <2>1. queued' \in 0..QueueCap /\ faults' \in 0..MaxFaults
    BY <1>4 DEF DelayedPush
  <2>2. timer' \in BOOLEAN
    BY <1>4 DEF DelayedPush
  <2>3. UNCHANGED <<plan, job, mirror, rows, lease, money, worker, scheduler, api>>
    BY <1>4 DEF DelayedPush
  <2>4. QED
    BY <2>1, <2>2, <2>3
<1>5. QED
  BY <1>1, <1>2, <1>3, <1>4 DEF Environment

(* Every variable keeps its type: in particular no process is ever at a    *)
(* place, and no row in a status, that the code does not know.             *)
THEOREM TypeCorrect == Spec => []TypeOK
<1>1. Init => TypeOK
  <2> SUFFICES ASSUME Init PROVE TypeOK
    OBVIOUS
  <2>1. world \in Worlds /\ price \in BOOLEAN /\ world.enhance \in BOOLEAN
    BY DEF Init, World
  <2>2. api \in [Requests -> ApiPlaces]
    BY DEF Init, ApiPlaces
  <2>3. stage \in Stages /\ effective \in BOOLEAN
    BY <2>1 DEF Init, Stages
  <2>4. /\ job \in Jobs /\ mirror \in Mirrors /\ gallery \in Galleries
        /\ lease \in Leases /\ main \in Mains
    BY DEF Init, Jobs, Mirrors, Galleries, Leases, Mains
  <2>5. worker \in WorkerPlaces /\ scheduler \in SchedulerPlaces
    BY DEF Init, WorkerPlaces, SchedulerPlaces
  <2>6. artifact \in BOOLEAN /\ timer \in BOOLEAN
    BY DEF Init
  <2>7. attempts \in 0..AttemptCap /\ queued \in 0..QueueCap /\ faults \in 0..MaxFaults
    BY DEF Init
  <2>8. late \subseteq Calls
    BY DEF Init
  <2>9. QED
    BY <2>1, <2>2, <2>3, <2>4, <2>5, <2>6, <2>7, <2>8 DEF TypeOK
<1>2. TypeOK /\ [Next]_vars => TypeOK'
  <2> SUFFICES ASSUME TypeOK, [Next]_vars PROVE TypeOK'
    OBVIOUS
  <2>1. CASE UNCHANGED vars
    BY <2>1 DEF TypeOK
  <2>2. QED
    BY <2>1, RequestTypes, SchedulerTypes, WorkerTypes, EnvironmentTypes DEF Next
<1>3. QED
  BY <1>1, <1>2, PTL DEF Spec

-----------------------------------------------------------------------------
(* Money and images.                                                       *)

(* The strengthening.  An image precedes every commit, those still on      *)
(* their way to the main platform included, and what follows a commit in   *)
(* the worker finds it executed; a worker on its way to draw has seen no   *)
(* image, and nobody else draws.                                           *)
MoneyInv ==
  /\ main = "committed" \/ "commit" \in late \/ worker = "commit" => artifact
  /\ \/ job = "SUCCEEDED" \/ mirror = "COMMITTED" \/ worker = "committed"
     \/ gallery = "PUBLISHED"
     => main = "committed"
  /\ worker \in {"claim", "draw"} => ~artifact

LEMMA RequestMoney ==
  ASSUME TypeOK, MoneyInv, RequestSteps PROVE MoneyInv'
<1> USE DEF MoneyInv
<1>1. ASSUME NEW r \in Requests,
             \/ EnsureReads(r) \/ EnsureReserved(r) \/ EnsureFails(r)
             \/ EnsureWakes(r) \/ EnsurePushes(r)
      PROVE  MoneyInv'
  BY <1>1 DEF EnsureReads, EnsureReserved, EnsureFails, EnsureWakes, EnsurePushes
<1>2. ASSUME NEW r \in Requests, EnsureCalls(r) PROVE MoneyInv'
  BY <1>2, CallEffect DEF EnsureCalls, TypeOK, Calls
<1>3. CASE CancelReleases
  BY <1>3, CallEffect DEF CancelReleases, TypeOK, Calls
<1>4. CASE CancelRefreshes \/ CancelWrites
  BY <1>4 DEF CancelRefreshes, CancelWrites
<1>5. QED
  BY <1>1, <1>2, <1>3, <1>4 DEF RequestSteps

LEMMA SchedulerMoney ==
  ASSUME TypeOK, MoneyInv, SchedulerSteps PROVE MoneyInv'
<1> USE DEF MoneyInv
<1>1. CASE SchedulerCalls
  BY <1>1, CallEffect DEF SchedulerCalls, TypeOK, Calls
<1>2. CASE \/ SchedulerScans \/ SchedulerReserves \/ ReconcileGpuLeases
           \/ AssignGpuLeases \/ EnqueueReadyJobs
  BY <1>2 DEF SchedulerScans, SchedulerReserves, ReconcileGpuLeases, AssignGpuLeases,
     EnqueueReadyJobs
<1>3. QED
  BY <1>1, <1>2 DEF SchedulerSteps

LEMMA WorkerMoney ==
  ASSUME TypeOK, MoneyInv, WorkerSteps PROVE MoneyInv'
<1> USE DEF MoneyInv
<1>1. CASE Commit
  BY <1>1, CallEffect DEF Commit, TypeOK, Calls
<1>2. CASE RefundStage \/ RefundDraw \/ RetryRefund
  BY <1>2, CallEffect DEF RefundStage, RefundDraw, RetryRefund, Refund, TypeOK, Calls
<1>3. CASE FailPromptEnhancementJob \/ FailGeneratedJob
  BY <1>3 DEF FailPromptEnhancementJob, FailGeneratedJob, Fail
<1>4. CASE Pop
  BY <1>4 DEF Pop
<1>5. CASE ClaimStage \/ Enhanced \/ EnhanceFails \/ StageFails
  BY <1>5 DEF ClaimStage, Enhanced, EnhanceFails, StageFails
<1>6. CASE Claim
  BY <1>6 DEF Claim
<1>7. CASE Drawn \/ RetryGeneratedJob \/ DrawFails \/ Succeed \/ CommitPending
  BY <1>7 DEF Drawn, RetryGeneratedJob, DrawFails, Succeed, CommitPending
<1>8. CASE ReleaseJobLeases \/ Publish \/ Published
  BY <1>8 DEF ReleaseJobLeases, Publish, Published
<1>9. CASE ReconcileFailed \/ RefundRetried \/ ReconcileGallery
  BY <1>9 DEF ReconcileFailed, RefundRetried, ReconcileGallery
<1>10. CASE Recover \/ RecoverReads \/ RecoverWrites
  BY <1>10 DEF Recover, RecoverReads, RecoverWrites
<1>11. QED
  BY <1>1, <1>2, <1>3, <1>4, <1>5, <1>6, <1>7, <1>8, <1>9, <1>10 DEF WorkerSteps

LEMMA EnvironmentMoney ==
  ASSUME TypeOK, MoneyInv, Environment \/ DelayedPush PROVE MoneyInv'
<1> USE DEF MoneyInv
<1>1. ASSUME NEW call \in Calls, LateCall(call) PROVE MoneyInv'
  BY <1>1 DEF LateCall, Effect
<1>2. CASE PublishPrice \/ Resubmit \/ CancelReads \/ LeaseExpires \/ DelayedPush
  BY <1>2 DEF PublishPrice, Resubmit, CancelReads, LeaseExpires, DelayedPush
<1>3. CASE ApiCrashes \/ SchedulerCrashes \/ WorkerCrashes
  BY <1>3 DEF ApiCrashes, SchedulerCrashes, WorkerCrashes
<1>4. QED
  BY <1>1, <1>2, <1>3 DEF Environment

LEMMA MoneyInvariant == Spec => []MoneyInv
<1>1. Init => MoneyInv
  BY DEF Init, MoneyInv
<1>2. TypeOK /\ MoneyInv /\ [Next]_vars => MoneyInv'
  <2> SUFFICES ASSUME TypeOK, MoneyInv, [Next]_vars PROVE MoneyInv'
    OBVIOUS
  <2>1. CASE UNCHANGED vars
    BY <2>1 DEF MoneyInv
  <2>2. QED
    BY <2>1, RequestMoney, SchedulerMoney, WorkerMoney, EnvironmentMoney DEF Next
<1>3. QED
  BY <1>1, <1>2, TypeCorrect, PTL DEF Spec

(* A success, and a mirror that shows the price as taken, are paid and     *)
(* have an image.                                                          *)
THEOREM SuccessCorrect == Spec => []SucceededPaid
<1>1. MoneyInv => SucceededPaid
  BY DEF MoneyInv, SucceededPaid
<1>2. QED
  BY <1>1, MoneyInvariant, PTL

(* No money without an image, no publication without money.                *)
THEOREM CommitCorrect == Spec => []CommittedDrawn
<1>1. MoneyInv => CommittedDrawn
  BY DEF MoneyInv, CommittedDrawn
<1>2. QED
  BY <1>1, MoneyInvariant, PTL

(* A job with an image is never drawn again, whoever wakes it how often.   *)
THEOREM DrawnCorrect == Spec => DrawnOnce
<1>1. TypeOK /\ MoneyInv /\ [Next]_vars
      => [artifact => artifact' /\ attempts' = attempts]_vars
  <2> SUFFICES ASSUME MoneyInv, Next, artifact
               PROVE  artifact' /\ attempts' = attempts
    OBVIOUS
  <2>1. CASE RequestSteps
    BY <2>1 DEF RequestSteps, EnsureReads, EnsureWakes, EnsureCalls, EnsureReserved,
       EnsurePushes, EnsureFails, CancelRefreshes, CancelReleases, CancelWrites
  <2>2. CASE SchedulerSteps
    BY <2>2 DEF SchedulerSteps, SchedulerScans, SchedulerCalls, SchedulerReserves,
       ReconcileGpuLeases, AssignGpuLeases, EnqueueReadyJobs
  <2>3. CASE Claim \/ Drawn
    BY <2>3 DEF Claim, Drawn, MoneyInv
  <2>4. CASE WorkerSteps /\ ~(Claim \/ Drawn)
    BY <2>4 DEF WorkerSteps, Pop, ClaimStage, Enhanced, EnhanceFails, StageFails,
       RefundStage, FailPromptEnhancementJob, RetryGeneratedJob, DrawFails, RefundDraw,
       FailGeneratedJob, Commit, Succeed, CommitPending, ReleaseJobLeases, Publish,
       Published, ReconcileFailed, RetryRefund, RefundRetried, ReconcileGallery,
       Recover, RecoverReads, RecoverWrites, Refund, Fail
  <2>5. CASE Environment \/ DelayedPush
    BY <2>5 DEF Environment, LateCall, PublishPrice, Resubmit, CancelReads, LeaseExpires,
       ApiCrashes, SchedulerCrashes, WorkerCrashes, DelayedPush
  <2>6. QED
    BY <2>1, <2>2, <2>3, <2>4, <2>5 DEF Next
<1>2. QED
  BY <1>1, TypeCorrect, MoneyInvariant, PTL DEF Spec, DrawnOnce
-----------------------------------------------------------------------------
(* The reservation behind the work.                                        *)

(* In every world: what is ready, runs or is about to be made ready has    *)
(* been reserved.                                                          *)
Backed ==
  \/ job \in {"READY", "RUNNING"} \/ scheduler = "reserved"
  \/ api["create"] = "reserved" \/ api["cancel"] = "reserved"
  \/ worker \in {"draw", "commit", "committed", "uncommitted", "recovering"}
  => main # "none"

(* A worker that always gets its image never refunds, and without a user   *)
(* who cancels there is no cancellation.                                   *)
Refunding == {"unenhanced", "refund stage", "refunded stage", "unrefunded stage",
              "refund", "refunded", "unrefunded"}

Quiet ==
  /\ "fatal" \notin world.draws /\ "retryable" \notin world.draws
     => worker \notin Refunding
  /\ ~world.cancel => api["cancel"] = "idle"

(* Without races, whoever holds the job finds it as it has left it: the    *)
(* places of the three processes tell the status of job and mirror.        *)
Alone ==
  /\ job = "RESERVING" => mirror = "PENDING"
  /\ job \in {"READY", "RUNNING"} => mirror = "RESERVED"
  /\ scheduler \in {"call", "reserved"} => job = "RESERVING" /\ api["create"] = "idle"
  /\ \A r \in Requests :
       api[r] \in {"ensure", "call", "reserved", "refused", "unconfirmed"}
       => job = "RESERVING"
  /\ api["cancel"] # "idle" => Others
  /\ api["cancel"] \in {"push", "refresh", "release", "cancel"} => job = "READY"
  /\ worker \in {"stage", "enhance", "unenhanced", "refund stage", "refunded stage",
                 "unrefunded stage", "claim"} => job = "READY"
  /\ worker \in {"draw", "refund", "refunded", "unrefunded", "recovering"}
     => job = "RUNNING"
  /\ worker \in {"commit", "committed", "uncommitted"} => job \in {"READY", "RUNNING"}
  /\ worker \in {"retry refund", "retry refunded"} => job \in {"FAILED", "CANCELLED"}
  /\ job \in {"FAILED", "CANCELLED"} => mirror \in {"RESERVED", "RELEASED", "FAILED"}

(* Without races, a refund that is noted has happened, and one that may    *)
(* have happened, or may still, is one of a job nobody goes on with.       *)
Refunds ==
  /\ \/ mirror = "RELEASED" \/ api["cancel"] = "cancel"
     \/ worker \in {"refunded", "refunded stage", "retry refunded"}
     => main = "released"
  /\ main = "released" \/ "release" \in late
     => \/ job \in {"FAILED", "CANCELLED"}
        \/ worker \in {"refunded", "refunded stage", "unrefunded", "unrefunded stage"}
        \/ api["cancel"] = "cancel"

(* Where API and scheduler race for the reservation, nothing is refunded.  *)
Unrefunded ==
  /\ main # "released" /\ "release" \notin late /\ mirror # "RELEASED"
  /\ job # "CANCELLED" /\ (job = "FAILED" => mirror = "FAILED")
  /\ worker \notin {"retry refund", "retry refunded"}

(* Nothing is reserved without funds, and with them nothing is refused     *)
(* unless a push or an answer is lost or a price published.                *)
Funded ==
  /\ ~world.funds => main = "none"
  /\ "price" \notin world.faults => price
  /\ world.funds /\ Recoverable /\ "price" \notin world.faults
     => mirror # "FAILED" /\ api["create"] # "refused" /\ api["cancel"] # "refused"

(* Where prices are published, whoever is refused finds no reservation:    *)
(* every reservation that was made has been answered, and its answer is    *)
(* being written or was.                                                   *)
Priced ==
  "price" \in world.faults =>
    /\ late = {} /\ \A r \in Requests : api[r] # "unconfirmed"
    /\ job = "RESERVING" /\ scheduler # "reserved" /\ (\A r \in Requests : api[r] # "reserved")
       => main = "none"
    /\ mirror = "FAILED" => main = "none"

HonestInv ==
  /\ Backed /\ Quiet /\ Funded
  /\ Recoverable => IF world.races = {} THEN Alone /\ Refunds /\ Priced ELSE Unrefunded

(* A reservation that was made stays made, one returned stays returned,    *)
(* only a release returns it, and a main platform that does not fail       *)
(* answers a release by its outcome.                                       *)
LEMMA CallRefund ==
  ASSUME NEW call \in Calls, NEW answer, Call(call, answer)
  PROVE  /\ main # "none" => main' # "none"
         /\ call = "reserve" /\ answer = "ok" => main' # "none"
         /\ main = "released" => main' = "released"
         /\ main' = "released" => main = "released" \/ call = "release"
         /\ call = "release" /\ answer = "ok" => main' = "released"
         /\ late' \subseteq late \cup {call}
         /\ "main" \notin world.faults => answer # "unconfirmed" /\ late' = late
         /\ call = "release" /\ answer = "refused" /\ "body" \notin world.faults
            => (main' = "released" => main = "released")
         /\ answer \in Answers
<1>1. /\ main # "none" => Effect(call) # "none"
      /\ main = "released" => Effect(call) = "released"
      /\ Effect(call) = "released" => main = "released" \/ call = "release"
  BY DEF Effect
<1>2. /\ Answer(call) \in {"ok", "refused"}
      /\ call = "reserve" /\ Answer(call) = "ok" => Effect(call) # "none"
      /\ call = "release" => (Answer(call) = "ok" <=> Effect(call) = "released")
  BY DEF Answer, Calls
<1>3. QED
  BY <1>1, <1>2 DEF Call, Answers

(* Funds and the price decide on a reservation; a refusal reserves nothing *)
(* and neither commit nor release does.                                    *)
LEMMA CallFunded ==
  ASSUME NEW call \in Calls, NEW answer, Call(call, answer)
  PROVE  /\ ~world.funds /\ main = "none" => main' = "none"
         /\ world.funds /\ price /\ call = "reserve" /\ "body" \notin world.faults
            => answer # "refused"
         /\ call # "reserve" /\ main = "none" => main' = "none"
         /\ call = "reserve" /\ answer = "refused" /\ "body" \notin world.faults
            => (main = "none" => main' = "none")
<1>1. /\ ~world.funds /\ main = "none" => Effect(call) = "none"
      /\ call # "reserve" /\ main = "none" => Effect(call) = "none"
  BY DEF Effect
<1>2. /\ world.funds /\ price /\ call = "reserve" => Answer(call) = "ok"
      /\ call = "reserve" /\ Answer(call) = "refused"
         => (main = "none" => Effect(call) = "none")
  BY DEF Answer, Effect
<1>3. QED
  BY <1>1, <1>2 DEF Call

(* A call executed late. *)
LEMMA LateRefund ==
  ASSUME NEW call \in Calls, LateCall(call)
  PROVE  /\ main # "none" => main' # "none"
         /\ ~world.funds /\ main = "none" => main' = "none"
         /\ main = "released" => main' = "released"
         /\ main' = "released" => main = "released" \/ "release" \in late
         /\ late' \subseteq late
         /\ UNCHANGED <<plan, job, mirror, worker, scheduler, api>>
BY DEF LateCall, Effect

-----------------------------------------------------------------------------
(* Backed, Quiet and Alone.                                                *)

LEMMA RequestBacked ==
  ASSUME TypeOK, Backed, RequestSteps PROVE Backed'
<1> USE DEF Backed
<1>0. api \in [Requests -> ApiPlaces]
  BY DEF TypeOK
<1>1. ASSUME NEW r \in Requests, EnsureCalls(r) PROVE Backed'
  <2>1. PICK answer \in Answers :
          /\ Call("reserve", answer)
          /\ Goto(r, IF answer = "ok" THEN "reserved" ELSE answer)
    BY <1>1 DEF EnsureCalls
  <2>2. /\ main # "none" => main' # "none"
        /\ answer = "ok" => main' # "none"
    BY <2>1, CallRefund, "reserve" \in Calls DEF Calls
  <2>3. UNCHANGED <<world, job, worker, scheduler>> /\ api[r] = "call"
    BY <1>1 DEF EnsureCalls
  <2>4. /\ \A x \in Requests \ {r} : api'[x] = api[x]
        /\ api'[r] = "reserved" => answer = "ok"
    BY <1>0, <2>1 DEF Answers
  <2>5. QED
    BY <2>2, <2>3, <2>4
<1>2. ASSUME NEW r \in Requests,
             EnsureReads(r) \/ EnsureReserved(r) \/ EnsureFails(r)
      PROVE  Backed'
  BY <1>0, <1>2 DEF EnsureReads, EnsureReserved, EnsureFails
<1>3. ASSUME NEW r \in Requests, EnsureWakes(r) \/ EnsurePushes(r)
      PROVE  Backed'
  BY <1>0, <1>3 DEF EnsureWakes, EnsurePushes, Ensured
<1>4. CASE CancelReleases
  BY <1>0, <1>4, CallRefund DEF CancelReleases, Calls
<1>5. CASE CancelRefreshes \/ CancelWrites
  BY <1>0, <1>5 DEF CancelRefreshes, CancelWrites
<1>6. QED
  BY <1>1, <1>2, <1>3, <1>4, <1>5 DEF RequestSteps

LEMMA SchedulerBacked ==
  ASSUME TypeOK, Backed, SchedulerSteps PROVE Backed'
<1> USE DEF Backed
<1>1. CASE SchedulerCalls
  BY <1>1, CallRefund DEF SchedulerCalls, Calls
<1>2. CASE \/ SchedulerScans \/ SchedulerReserves \/ ReconcileGpuLeases
           \/ AssignGpuLeases \/ EnqueueReadyJobs
  BY <1>2 DEF SchedulerScans, SchedulerReserves, ReconcileGpuLeases, AssignGpuLeases,
     EnqueueReadyJobs
<1>3. QED
  BY <1>1, <1>2 DEF SchedulerSteps

LEMMA WorkerBacked ==
  ASSUME TypeOK, Backed, WorkerSteps PROVE Backed'
<1> USE DEF Backed
<1>1. CASE Commit
  BY <1>1, CallRefund DEF Commit, Calls
<1>2. CASE RefundStage \/ RefundDraw \/ RetryRefund
  BY <1>2, CallRefund DEF RefundStage, RefundDraw, RetryRefund, Refund, Calls
<1>3. CASE FailPromptEnhancementJob \/ FailGeneratedJob
  BY <1>3 DEF FailPromptEnhancementJob, FailGeneratedJob, Fail
<1>4. CASE Pop
  BY <1>4 DEF Pop
<1>5. CASE ClaimStage \/ Enhanced \/ EnhanceFails \/ StageFails
  BY <1>5 DEF ClaimStage, Enhanced, EnhanceFails, StageFails
<1>6. CASE Claim
  BY <1>6 DEF Claim
<1>7. CASE Drawn \/ RetryGeneratedJob \/ DrawFails \/ Succeed \/ CommitPending
  BY <1>7 DEF Drawn, RetryGeneratedJob, DrawFails, Succeed, CommitPending
<1>8. CASE ReleaseJobLeases \/ Publish \/ Published
  BY <1>8 DEF ReleaseJobLeases, Publish, Published
<1>9. CASE ReconcileFailed \/ RefundRetried \/ ReconcileGallery
  BY <1>9 DEF ReconcileFailed, RefundRetried, ReconcileGallery
<1>10. CASE Recover \/ RecoverReads \/ RecoverWrites
  BY <1>10 DEF Recover, RecoverReads, RecoverWrites
<1>11. QED
  BY <1>1, <1>2, <1>3, <1>4, <1>5, <1>6, <1>7, <1>8, <1>9, <1>10 DEF WorkerSteps

LEMMA EnvironmentBacked ==
  ASSUME TypeOK, Backed, Environment \/ DelayedPush PROVE Backed'
<1> USE DEF Backed
<1>1. ASSUME NEW call \in Calls, LateCall(call) PROVE Backed'
  BY <1>1, LateRefund
<1>2. CASE PublishPrice \/ Resubmit \/ CancelReads \/ LeaseExpires \/ DelayedPush
  BY <1>2 DEF PublishPrice, Resubmit, CancelReads, LeaseExpires, DelayedPush, TypeOK
<1>3. CASE ApiCrashes \/ SchedulerCrashes \/ WorkerCrashes
  BY <1>3 DEF ApiCrashes, SchedulerCrashes, WorkerCrashes
<1>4. QED
  BY <1>1, <1>2, <1>3 DEF Environment

LEMMA QuietNext ==
  ASSUME TypeOK, Quiet, Next PROVE Quiet'
<1> USE DEF Quiet
<1>0. api \in [Requests -> ApiPlaces]
  BY DEF TypeOK
<1>1. CASE RequestSteps
  BY <1>0, <1>1 DEF RequestSteps, EnsureReads, EnsureWakes, EnsureCalls, EnsureReserved,
     EnsurePushes, EnsureFails, CancelRefreshes, CancelReleases, CancelWrites
<1>2. CASE SchedulerSteps
  BY <1>2 DEF SchedulerSteps, SchedulerScans, SchedulerCalls, SchedulerReserves,
     ReconcileGpuLeases, AssignGpuLeases, EnqueueReadyJobs
<1>3. CASE WorkerSteps
  <2>1. UNCHANGED <<world, api>>
    BY <1>3 DEF WorkerSteps, Pop, ClaimStage, Enhanced, EnhanceFails, StageFails,
       RefundStage, FailPromptEnhancementJob, Claim, Drawn, RetryGeneratedJob, DrawFails,
       RefundDraw, FailGeneratedJob, Commit, Succeed, CommitPending, ReleaseJobLeases,
       Publish, Published, ReconcileFailed, RetryRefund, RefundRetried, ReconcileGallery,
       Recover, RecoverReads, RecoverWrites, Refund, Fail
  <2>2. ASSUME "fatal" \notin world.draws, "retryable" \notin world.draws
        PROVE  worker' \notin Refunding
    BY <1>3, <2>2 DEF WorkerSteps, Pop, ClaimStage, Enhanced, EnhanceFails, StageFails,
       RefundStage, FailPromptEnhancementJob, Claim, Drawn, RetryGeneratedJob, DrawFails,
       RefundDraw, FailGeneratedJob, Commit, Succeed, CommitPending, ReleaseJobLeases,
       Publish, Published, ReconcileFailed, RetryRefund, RefundRetried, ReconcileGallery,
       Recover, RecoverReads, RecoverWrites, Refund, Fail, Refunding
  <2>3. QED
    BY <2>1, <2>2
<1>4. CASE Environment \/ DelayedPush
  BY <1>0, <1>4, LateRefund DEF Environment, PublishPrice, Resubmit, CancelReads, LeaseExpires,
     DelayedPush, ApiCrashes, SchedulerCrashes, WorkerCrashes, Refunding
<1>5. QED
  BY <1>1, <1>2, <1>3, <1>4 DEF Next

LEMMA RequestAlone ==
  ASSUME TypeOK, Alone, "redis" \notin world.faults, RequestSteps PROVE Alone'
<1> USE DEF Alone, Others
<1>0. api \in [Requests -> ApiPlaces]
  BY DEF TypeOK
<1>1. ASSUME NEW r \in Requests, EnsureReads(r) PROVE Alone'
  BY <1>0, <1>1 DEF EnsureReads
<1>2. ASSUME NEW r \in Requests, EnsureWakes(r) PROVE Alone'
  BY <1>0, <1>2 DEF EnsureWakes
<1>3. ASSUME NEW r \in Requests, EnsureCalls(r) PROVE Alone'
  BY <1>0, <1>3 DEF EnsureCalls, Answers
<1>4. ASSUME NEW r \in Requests, EnsureReserved(r) PROVE Alone'
  BY <1>0, <1>4 DEF EnsureReserved
<1>5. ASSUME NEW r \in Requests, EnsurePushes(r) PROVE Alone'
  BY <1>0, <1>5 DEF EnsurePushes, Ensured
<1>6. ASSUME NEW r \in Requests, EnsureFails(r) PROVE Alone'
  BY <1>0, <1>6 DEF EnsureFails
<1>7. CASE CancelRefreshes
  BY <1>0, <1>7 DEF CancelRefreshes
<1>8. CASE CancelReleases
  BY <1>0, <1>8 DEF CancelReleases
<1>9. CASE CancelWrites
  BY <1>0, <1>9 DEF CancelWrites
<1>10. QED
  BY <1>1, <1>2, <1>3, <1>4, <1>5, <1>6, <1>7, <1>8, <1>9 DEF RequestSteps

LEMMA SchedulerAlone ==
  ASSUME TypeOK, Alone, world.races = {}, SchedulerSteps PROVE Alone'
<1> USE DEF Alone, Others, NoCancelRace
<1>1. CASE SchedulerScans
  BY <1>1 DEF SchedulerScans, NoReserveRace
<1>2. CASE SchedulerCalls
  BY <1>2 DEF SchedulerCalls
<1>3. CASE SchedulerReserves
  BY <1>3 DEF SchedulerReserves, TypeOK
<1>4. CASE ReconcileGpuLeases \/ AssignGpuLeases \/ EnqueueReadyJobs
  BY <1>4 DEF ReconcileGpuLeases, AssignGpuLeases, EnqueueReadyJobs
<1>5. QED
  BY <1>1, <1>2, <1>3, <1>4 DEF SchedulerSteps

LEMMA WorkerAlone ==
  ASSUME TypeOK, Alone, world.races = {}, WorkerSteps PROVE Alone'
<1>1. api["cancel"] = "idle"
  BY DEF WorkerSteps, Pop, ClaimStage, Enhanced, EnhanceFails, StageFails,
     RefundStage, FailPromptEnhancementJob, Claim, Drawn, RetryGeneratedJob, DrawFails,
     RefundDraw, FailGeneratedJob, Commit, Succeed, CommitPending, ReleaseJobLeases,
     Publish, Published, ReconcileFailed, RetryRefund, RefundRetried, ReconcileGallery,
     Recover, RecoverReads, RecoverWrites, Refund, Fail, NoCancelRace
<1> USE DEF Alone
<1>2. CASE Commit
  BY <1>1, <1>2 DEF Commit
<1>3. CASE RefundStage \/ RefundDraw \/ RetryRefund
  BY <1>1, <1>3 DEF RefundStage, RefundDraw, RetryRefund, Refund
<1>4. CASE FailPromptEnhancementJob \/ FailGeneratedJob
  BY <1>1, <1>4 DEF FailPromptEnhancementJob, FailGeneratedJob, Fail
<1>5. CASE Pop
  BY <1>1, <1>5 DEF Pop
<1>6. CASE ClaimStage \/ Enhanced \/ EnhanceFails \/ StageFails
  BY <1>1, <1>6 DEF ClaimStage, Enhanced, EnhanceFails, StageFails
<1>7. CASE Claim
  BY <1>1, <1>7 DEF Claim
<1>8. CASE Drawn \/ RetryGeneratedJob \/ DrawFails \/ Succeed \/ CommitPending
  BY <1>1, <1>8 DEF Drawn, RetryGeneratedJob, DrawFails, Succeed, CommitPending
<1>9. CASE ReleaseJobLeases \/ Publish \/ Published
  BY <1>1, <1>9 DEF ReleaseJobLeases, Publish, Published
<1>10. CASE ReconcileFailed \/ RefundRetried \/ ReconcileGallery
  BY <1>1, <1>10 DEF ReconcileFailed, RefundRetried, ReconcileGallery
<1>11. CASE Recover \/ RecoverReads \/ RecoverWrites
  BY <1>1, <1>11 DEF Recover, RecoverReads, RecoverWrites
<1>12. QED
  BY <1>2, <1>3, <1>4, <1>5, <1>6, <1>7, <1>8, <1>9, <1>10, <1>11 DEF WorkerSteps

LEMMA EnvironmentAlone ==
  ASSUME TypeOK, Alone, world.races = {}, Environment \/ DelayedPush PROVE Alone'
<1> USE DEF Alone, Others
<1>0. api \in [Requests -> ApiPlaces]
  BY DEF TypeOK
<1>1. ASSUME NEW call \in Calls, LateCall(call) PROVE Alone'
  BY <1>1, LateRefund
<1>2. CASE Resubmit
  BY <1>0, <1>2 DEF Resubmit, NoCancelRace, NoReserveRace
<1>3. CASE CancelReads
  BY <1>0, <1>3 DEF CancelReads
<1>4. CASE PublishPrice \/ LeaseExpires \/ DelayedPush
  BY <1>4 DEF PublishPrice, LeaseExpires, DelayedPush
<1>5. CASE ApiCrashes
  BY <1>5 DEF ApiCrashes
<1>6. CASE SchedulerCrashes \/ WorkerCrashes
  BY <1>6 DEF SchedulerCrashes, WorkerCrashes
<1>7. QED
  BY <1>1, <1>2, <1>3, <1>4, <1>5, <1>6 DEF Environment

-----------------------------------------------------------------------------
(* Refunds.                                                                *)

(* What Recoverable excludes. *)
LEMMA Circumstances ==
  ASSUME Recoverable
  PROVE  /\ "redis" \notin world.faults /\ "body" \notin world.faults
         /\ "main" \in world.faults \/ "api" \in world.faults => ~world.cancel
         /\ "worker" \in world.faults
            => ~world.cancel /\ "fatal" \notin world.draws /\ "retryable" \notin world.draws
         /\ "price" \in world.faults
            => /\ "main" \notin world.faults /\ "api" \notin world.faults
               /\ "scheduler" \notin world.faults
         /\ world.races # {}
            => /\ ~world.cancel /\ "worker" \notin world.faults
               /\ "price" \notin world.faults
               /\ "fatal" \notin world.draws /\ "retryable" \notin world.draws
BY DEF Recoverable

LEMMA RequestRefunds ==
  ASSUME TypeOK, Recoverable, Quiet, Alone, Refunds, RequestSteps
  PROVE  Refunds'
<1> USE DEF Refunds
<1>0. api \in [Requests -> ApiPlaces]
  BY DEF TypeOK
<1>1. ASSUME NEW r \in Requests, EnsureCalls(r) PROVE Refunds'
  <2>1. PICK answer \in Answers :
          /\ Call("reserve", answer)
          /\ Goto(r, IF answer = "ok" THEN "reserved" ELSE answer)
    BY <1>1 DEF EnsureCalls
  <2>2. /\ main = "released" => main' = "released"
        /\ main' = "released" => main = "released"
        /\ "release" \in late' => "release" \in late
    BY <2>1, CallRefund, "reserve" \in Calls DEF Calls
  <2>3. api'["cancel"] = "cancel" <=> api["cancel"] = "cancel"
    BY <1>0, <1>1, <2>1 DEF EnsureCalls, Answers
  <2>4. QED
    BY <1>1, <2>2, <2>3 DEF EnsureCalls
<1>2. ASSUME NEW r \in Requests, EnsureReads(r) \/ EnsureWakes(r) \/ EnsurePushes(r)
      PROVE  Refunds'
  BY <1>0, <1>2 DEF EnsureReads, EnsureWakes, EnsurePushes, Ensured
<1>3. ASSUME NEW r \in Requests, EnsureReserved(r) \/ EnsureFails(r)
      PROVE  Refunds'
  BY <1>0, <1>3 DEF EnsureReserved, EnsureFails, Alone, Others
<1>4. CASE CancelRefreshes
  BY <1>0, <1>4 DEF CancelRefreshes, Alone
<1>5. CASE CancelReleases
  <2>1. PICK answer \in Answers :
          /\ Call("release", answer)
          /\ Goto("cancel", IF answer = "ok" THEN "cancel" ELSE "idle")
    BY <1>5 DEF CancelReleases
  <2>2. "main" \notin world.faults /\ "body" \notin world.faults
    BY <1>5, Circumstances DEF CancelReleases, Quiet
  <2>3. /\ answer = "ok" => main' = "released"
        /\ main = "released" => main' = "released"
        /\ answer # "ok" => (main' = "released" => main = "released")
        /\ late' = late
    BY <2>1, <2>2, CallRefund, "release" \in Calls DEF Calls, Answers
  <2>4. /\ answer = "ok" => api'["cancel"] = "cancel"
        /\ api'["cancel"] = "cancel" => answer = "ok"
    BY <1>0, <2>1
  <2>5. /\ UNCHANGED <<job, mirror, worker>>
        /\ api["cancel"] = "release" /\ job = "READY" /\ worker \in {"idle", "down"}
    BY <1>5 DEF CancelReleases, Alone, Others
  <2>6. QED
    BY <2>3, <2>4, <2>5
<1>6. CASE CancelWrites
  BY <1>0, <1>6 DEF CancelWrites, Alone, Others
<1>7. QED
  BY <1>1, <1>2, <1>3, <1>4, <1>5, <1>6 DEF RequestSteps

LEMMA SchedulerRefunds ==
  ASSUME TypeOK, Alone, Refunds, SchedulerSteps
  PROVE  Refunds'
<1> USE DEF Refunds
<1>1. CASE SchedulerCalls
  BY <1>1, CallRefund DEF SchedulerCalls, Calls
<1>2. CASE SchedulerReserves
  BY <1>2 DEF SchedulerReserves, Alone
<1>3. CASE SchedulerScans \/ ReconcileGpuLeases \/ AssignGpuLeases \/ EnqueueReadyJobs
  BY <1>3 DEF SchedulerScans, ReconcileGpuLeases, AssignGpuLeases, EnqueueReadyJobs
<1>4. QED
  BY <1>1, <1>2, <1>3 DEF SchedulerSteps

LEMMA WorkerRefunds ==
  ASSUME TypeOK, world.races = {}, Alone, Refunds, WorkerSteps
  PROVE  Refunds'
<1> USE DEF Refunds
<1>1. CASE Commit
  BY <1>1, CallRefund DEF Commit, Calls, Alone
<1>2. CASE RefundStage
  BY <1>2, CallRefund DEF RefundStage, Refund, Calls, Answers
<1>3. CASE RefundDraw
  BY <1>3, CallRefund DEF RefundDraw, Refund, Calls, Answers
<1>4. CASE RetryRefund
  BY <1>4, CallRefund DEF RetryRefund, Refund, Calls, Alone
<1>5. CASE FailPromptEnhancementJob \/ FailGeneratedJob
  BY <1>5 DEF FailPromptEnhancementJob, FailGeneratedJob, Fail
<1>6. CASE Pop
  BY <1>6 DEF Pop
<1>7. CASE ClaimStage \/ Enhanced \/ EnhanceFails \/ StageFails
  BY <1>7 DEF ClaimStage, Enhanced, EnhanceFails, StageFails
<1>8. CASE Claim
  BY <1>8 DEF Claim
<1>9. CASE Drawn \/ RetryGeneratedJob \/ DrawFails \/ Succeed \/ CommitPending
  BY <1>9 DEF Drawn, RetryGeneratedJob, DrawFails, Succeed, CommitPending, Alone
<1>10. CASE ReleaseJobLeases \/ Publish \/ Published
  BY <1>10 DEF ReleaseJobLeases, Publish, Published
<1>11. CASE ReconcileFailed \/ RefundRetried \/ ReconcileGallery
  BY <1>11 DEF ReconcileFailed, RefundRetried, ReconcileGallery
<1>12. CASE Recover \/ RecoverReads \/ RecoverWrites
  BY <1>12 DEF Recover, RecoverReads, RecoverWrites, Alone
<1>13. QED
  BY <1>1, <1>2, <1>3, <1>4, <1>5, <1>6, <1>7, <1>8, <1>9, <1>10, <1>11, <1>12
     DEF WorkerSteps

LEMMA EnvironmentRefunds ==
  ASSUME TypeOK, Recoverable, Quiet, Alone, Refunds, Environment \/ DelayedPush
  PROVE  Refunds'
<1> USE DEF Refunds
<1>0. api \in [Requests -> ApiPlaces]
  BY DEF TypeOK
<1>1. ASSUME NEW call \in Calls, LateCall(call) PROVE Refunds'
  BY <1>1, LateRefund
<1>2. CASE Resubmit \/ CancelReads
  BY <1>0, <1>2 DEF Resubmit, CancelReads
<1>3. CASE PublishPrice \/ LeaseExpires \/ DelayedPush \/ SchedulerCrashes
  BY <1>3 DEF PublishPrice, LeaseExpires, DelayedPush, SchedulerCrashes
<1>4. CASE ApiCrashes
  <2>1. api["cancel"] = "idle"
    BY <1>4, Circumstances DEF ApiCrashes, Quiet
  <2>2. QED
    BY <1>4, <2>1 DEF ApiCrashes
<1>5. CASE WorkerCrashes
  <2>1. worker \notin Refunding
    BY <1>5, Circumstances DEF WorkerCrashes, Quiet
  <2>2. QED
    BY <1>5, <2>1 DEF WorkerCrashes, Refunding
<1>6. QED
  BY <1>1, <1>2, <1>3, <1>4, <1>5 DEF Environment

LEMMA UnrefundedNext ==
  ASSUME TypeOK, Recoverable, world.races # {}, Quiet, Unrefunded, Next
  PROVE  Unrefunded'
<1> USE DEF Unrefunded
<1>0. /\ worker \notin Refunding /\ api["cancel"] = "idle"
      /\ "fatal" \notin world.draws /\ "retryable" \notin world.draws
  BY Circumstances DEF Quiet
<1>1. CASE RequestSteps
  <2>1. ASSUME NEW r \in Requests, EnsureCalls(r) PROVE Unrefunded'
    BY <2>1, CallRefund, "reserve" \in Calls DEF EnsureCalls, Calls
  <2>2. ASSUME NEW r \in Requests, \/ EnsureReads(r) \/ EnsureWakes(r) \/ EnsureReserved(r)
                                   \/ EnsurePushes(r) \/ EnsureFails(r)
        PROVE  Unrefunded'
    BY <2>2 DEF EnsureReads, EnsureWakes, EnsureReserved, EnsurePushes, EnsureFails
  <2>3. ~(CancelRefreshes \/ CancelReleases \/ CancelWrites)
    BY <1>0 DEF CancelRefreshes, CancelReleases, CancelWrites
  <2>4. QED
    BY <1>1, <2>1, <2>2, <2>3 DEF RequestSteps
<1>2. CASE SchedulerSteps
  BY <1>2, CallRefund DEF SchedulerSteps, SchedulerScans, SchedulerCalls, SchedulerReserves,
     ReconcileGpuLeases, AssignGpuLeases, EnqueueReadyJobs, Calls
<1>3. CASE WorkerSteps
  <2>1. CASE Commit
    BY <2>1, CallRefund DEF Commit, Calls
  <2>2. ~(\/ RefundStage \/ RefundDraw \/ RetryRefund \/ FailPromptEnhancementJob
          \/ FailGeneratedJob \/ ReconcileFailed \/ RefundRetried)
    BY <1>0 DEF RefundStage, RefundDraw, RetryRefund, Refund, FailPromptEnhancementJob,
       FailGeneratedJob, Fail, ReconcileFailed, RefundRetried, Refunding
  <2>3. CASE \/ Pop \/ ClaimStage \/ Enhanced \/ EnhanceFails \/ StageFails \/ Claim
             \/ Drawn \/ RetryGeneratedJob \/ DrawFails \/ Succeed \/ CommitPending
    BY <2>3 DEF Pop, ClaimStage, Enhanced, EnhanceFails, StageFails, Claim, Drawn,
       RetryGeneratedJob, DrawFails, Succeed, CommitPending
  <2>4. CASE \/ ReleaseJobLeases \/ Publish \/ Published \/ ReconcileGallery
             \/ Recover \/ RecoverReads \/ RecoverWrites
    BY <2>4 DEF ReleaseJobLeases, Publish, Published, ReconcileGallery, Recover,
       RecoverReads, RecoverWrites
  <2>5. QED
    BY <1>3, <2>1, <2>2, <2>3, <2>4 DEF WorkerSteps
<1>4. CASE Environment \/ DelayedPush
  BY <1>4, LateRefund DEF Environment, PublishPrice, Resubmit, CancelReads, LeaseExpires,
     DelayedPush, ApiCrashes, SchedulerCrashes, WorkerCrashes
<1>5. QED
  BY <1>1, <1>2, <1>3, <1>4 DEF Next

LEMMA WorldFixed ==
  ASSUME Next PROVE world' = world
BY LateRefund DEF Next, RequestSteps, EnsureReads, EnsureWakes, EnsureCalls, EnsureReserved,
   EnsurePushes, EnsureFails, CancelRefreshes, CancelReleases, CancelWrites,
   SchedulerSteps, SchedulerScans, SchedulerCalls, SchedulerReserves,
   ReconcileGpuLeases, AssignGpuLeases, EnqueueReadyJobs,
   WorkerSteps, Pop, ClaimStage, Enhanced, EnhanceFails, StageFails, RefundStage,
   FailPromptEnhancementJob, Claim, Drawn, RetryGeneratedJob, DrawFails, RefundDraw,
   FailGeneratedJob, Commit, Succeed, CommitPending, ReleaseJobLeases, Publish, Published,
   ReconcileFailed, RetryRefund, RefundRetried, ReconcileGallery, Recover, RecoverReads,
   RecoverWrites, Refund, Fail, Environment, PublishPrice, Resubmit, CancelReads,
   LeaseExpires, ApiCrashes, SchedulerCrashes, WorkerCrashes, DelayedPush

LEMMA PriceFixed ==
  ASSUME Next, ~PublishPrice PROVE price' = price
BY LateRefund DEF Next, RequestSteps, EnsureReads, EnsureWakes, EnsureCalls, EnsureReserved,
   EnsurePushes, EnsureFails, CancelRefreshes, CancelReleases, CancelWrites,
   SchedulerSteps, SchedulerScans, SchedulerCalls, SchedulerReserves,
   ReconcileGpuLeases, AssignGpuLeases, EnqueueReadyJobs,
   WorkerSteps, Pop, ClaimStage, Enhanced, EnhanceFails, StageFails, RefundStage,
   FailPromptEnhancementJob, Claim, Drawn, RetryGeneratedJob, DrawFails, RefundDraw,
   FailGeneratedJob, Commit, Succeed, CommitPending, ReleaseJobLeases, Publish, Published,
   ReconcileFailed, RetryRefund, RefundRetried, ReconcileGallery, Recover, RecoverReads,
   RecoverWrites, Refund, Fail, Environment, Resubmit, CancelReads, LeaseExpires,
   ApiCrashes, SchedulerCrashes, WorkerCrashes, DelayedPush

LEMMA FundedNext ==
  ASSUME TypeOK, Funded, Next PROVE Funded'
<1>0. /\ world' = world /\ (Recoverable' <=> Recoverable)
      /\ api \in [Requests -> ApiPlaces]
      /\ Recoverable => "body" \notin world.faults /\ "redis" \notin world.faults
      /\ ~PublishPrice => price' = price
      /\ PublishPrice => "price" \in world.faults
  BY WorldFixed, PriceFixed, Circumstances DEF TypeOK, Recoverable, PublishPrice
<1>1. CASE RequestSteps
  <2>1. ASSUME NEW r \in Requests, EnsureCalls(r) PROVE Funded'
    <3>1. PICK answer \in Answers :
            /\ Call("reserve", answer)
            /\ Goto(r, IF answer = "ok" THEN "reserved" ELSE answer)
      BY <2>1 DEF EnsureCalls
    <3>2. /\ ~world.funds /\ main = "none" => main' = "none"
          /\ world.funds /\ price /\ "body" \notin world.faults => answer # "refused"
          /\ price' = price
      BY <2>1, <3>1, CallFunded, "reserve" \in Calls DEF Calls, EnsureCalls
    <3>3. /\ \A x \in Requests \ {r} : api'[x] = api[x]
          /\ api'[r] = "refused" => answer = "refused"
      BY <1>0, <3>1
    <3>4. mirror' = mirror
      BY <2>1 DEF EnsureCalls
    <3>5. QED
      BY <1>0, <3>2, <3>3, <3>4 DEF Funded
  <2>2. ASSUME NEW r \in Requests, EnsureReads(r) \/ EnsureWakes(r) \/ EnsureReserved(r)
        PROVE  Funded'
    BY <1>0, <2>2 DEF EnsureReads, EnsureWakes, EnsureReserved, Ensured, Funded
  <2>3. ASSUME NEW r \in Requests, EnsurePushes(r) PROVE Funded'
    BY <1>0, <2>3 DEF EnsurePushes, Ensured, Funded
  <2>4. ASSUME NEW r \in Requests, EnsureFails(r) PROVE Funded'
    BY <1>0, <2>4 DEF EnsureFails, Funded
  <2>5. CASE CancelReleases
    BY <1>0, <2>5, CallFunded DEF CancelReleases, Calls, Funded
  <2>6. CASE CancelRefreshes \/ CancelWrites
    BY <1>0, <2>6 DEF CancelRefreshes, CancelWrites, Funded
  <2>7. QED
    BY <1>1, <2>1, <2>2, <2>3, <2>4, <2>5, <2>6 DEF RequestSteps
<1>2. CASE SchedulerSteps
  <2>1. CASE SchedulerCalls
    BY <1>0, <2>1, CallFunded DEF SchedulerCalls, Calls, Funded
  <2>2. CASE ~SchedulerCalls
    BY <1>0, <1>2, <2>2 DEF SchedulerSteps, SchedulerScans, SchedulerReserves,
       ReconcileGpuLeases, AssignGpuLeases, EnqueueReadyJobs, Funded
  <2>3. QED
    BY <2>1, <2>2
<1>3. CASE WorkerSteps
  <2>1. CASE Commit
    BY <1>0, <2>1, CallFunded DEF Commit, Calls, Funded
  <2>2. CASE RefundStage \/ RefundDraw \/ RetryRefund
    <3>1. /\ ~world.funds /\ main = "none" => main' = "none"
          /\ UNCHANGED <<plan, mirror, api>>
      BY <2>2, CallFunded, "release" \in Calls DEF RefundStage, RefundDraw, RetryRefund, Refund,
         Calls
    <3>2. QED
      BY <1>0, <3>1 DEF Funded
  <2>3. CASE ~(Commit \/ RefundStage \/ RefundDraw \/ RetryRefund)
    <3>1. UNCHANGED <<price, main, api>> /\ (mirror' = "FAILED" => mirror = "FAILED")
      BY <1>3, <2>3 DEF WorkerSteps, Pop, ClaimStage, Enhanced, EnhanceFails, StageFails,
         FailPromptEnhancementJob, Claim, Drawn, RetryGeneratedJob, DrawFails,
         FailGeneratedJob, Succeed, CommitPending, ReleaseJobLeases, Publish, Published,
         ReconcileFailed, RefundRetried, ReconcileGallery, Recover, RecoverReads,
         RecoverWrites, Fail
    <3>2. QED
      BY <1>0, <3>1 DEF Funded
  <2>4. QED
    BY <2>1, <2>2, <2>3
<1>4. CASE Environment \/ DelayedPush
  <2>1. ASSUME NEW call \in Calls, LateCall(call) PROVE Funded'
    BY <1>0, <2>1, LateRefund DEF Funded
  <2>2. CASE PublishPrice \/ Resubmit \/ CancelReads
    BY <1>0, <2>2 DEF PublishPrice, Resubmit, CancelReads, Funded
  <2>3. CASE ApiCrashes \/ LeaseExpires \/ SchedulerCrashes \/ WorkerCrashes \/ DelayedPush
    BY <1>0, <2>3 DEF ApiCrashes, LeaseExpires, SchedulerCrashes, WorkerCrashes,
       DelayedPush, Funded
  <2>4. QED
    BY <1>4, <2>1, <2>2, <2>3 DEF Environment
<1>5. QED
  BY <1>1, <1>2, <1>3, <1>4 DEF Next

LEMMA PricedNext ==
  ASSUME TypeOK, Recoverable, world.races = {}, Alone, Priced, Next
  PROVE  Priced'
<1>0. /\ world' = world /\ api \in [Requests -> ApiPlaces]
      /\ "body" \notin world.faults /\ "redis" \notin world.faults
  BY WorldFixed, Circumstances DEF TypeOK
<1> SUFFICES ASSUME "price" \in world.faults PROVE Priced'
  BY <1>0 DEF Priced
<1>1. /\ "main" \notin world.faults /\ "api" \notin world.faults
      /\ "scheduler" \notin world.faults
  BY Circumstances
<1> USE DEF Priced, Alone, Others
<1>2. CASE RequestSteps
  <2>1. ASSUME NEW r \in Requests, EnsureCalls(r) PROVE Priced'
    <3>1. PICK answer \in Answers :
            /\ Call("reserve", answer)
            /\ Goto(r, IF answer = "ok" THEN "reserved" ELSE answer)
      BY <2>1 DEF EnsureCalls
    <3>2. /\ answer # "unconfirmed" /\ late' = late
          /\ answer = "refused" => (main = "none" => main' = "none")
      BY <1>0, <1>1, <3>1, CallFunded, CallRefund, "reserve" \in Calls DEF Calls
    <3>3. /\ \A x \in Requests \ {r} : api'[x] = api[x]
          /\ api'[r] = IF answer = "ok" THEN "reserved" ELSE "refused"
      BY <1>0, <3>1, <3>2 DEF Answers
    <3>4. /\ api[r] = "call" /\ job = "RESERVING"
          /\ UNCHANGED <<job, mirror, scheduler>>
      BY <2>1 DEF EnsureCalls
    <3>5. /\ \A x \in Requests : api[x] # "reserved"
          /\ scheduler # "reserved"
      BY <3>4
    <3>6. main = "none" /\ mirror = "PENDING" /\ late = {}
      BY <1>0, <3>4, <3>5
    <3>7. /\ late' = {} /\ mirror' # "FAILED"
          /\ \A x \in Requests : api'[x] # "unconfirmed"
      BY <1>0, <3>2, <3>3, <3>4, <3>6
    <3>8. api'[r] # "reserved" => main' = "none"
      BY <3>1, <3>2, <3>3, <3>6 DEF Answers
    <3>9. QED
      BY <3>7, <3>8
  <2>2. ASSUME NEW r \in Requests, EnsureReads(r) \/ EnsureWakes(r) \/ EnsureReserved(r)
        PROVE  Priced'
    BY <1>0, <2>2 DEF EnsureReads, EnsureWakes, EnsureReserved, Ensured
  <2>3. ASSUME NEW r \in Requests, EnsurePushes(r) PROVE Priced'
    BY <1>0, <2>3 DEF EnsurePushes, Ensured
  <2>4. ASSUME NEW r \in Requests, EnsureFails(r) PROVE Priced'
    BY <1>0, <2>4 DEF EnsureFails
  <2>5. CASE CancelReleases
    <3>1. PICK answer \in Answers :
            /\ Call("release", answer)
            /\ Goto("cancel", IF answer = "ok" THEN "cancel" ELSE "idle")
      BY <2>5 DEF CancelReleases
    <3>2. main = "none" => main' = "none"
      BY <3>1, CallFunded, "release" \in Calls DEF Calls
    <3>3. late' = late
      BY <1>1, <3>1, CallRefund, "release" \in Calls DEF Calls
    <3>4. api["cancel"] = "release" /\ UNCHANGED <<job, mirror, scheduler>>
      BY <2>5 DEF CancelReleases
    <3>5. /\ \A x \in Requests \ {"cancel"} : api'[x] = api[x]
          /\ api'["cancel"] \in {"cancel", "idle"}
      BY <1>0, <3>1
    <3>6. QED
      BY <1>0, <3>2, <3>3, <3>4, <3>5
  <2>6. CASE CancelRefreshes \/ CancelWrites
    BY <1>0, <2>6 DEF CancelRefreshes, CancelWrites
  <2> HIDE DEF Priced, Alone, Others
  <2>7. QED
    BY <1>2, <2>1, <2>2, <2>3, <2>4, <2>5, <2>6 DEF RequestSteps
<1>3. CASE SchedulerSteps
  <2>1. CASE SchedulerCalls
    <3>1. PICK answer \in Answers :
            /\ Call("reserve", answer)
            /\ scheduler' = IF answer = "ok" THEN "reserved" ELSE "leases"
      BY <2>1 DEF SchedulerCalls
    <3>2. /\ scheduler = "call" /\ UNCHANGED <<job, mirror, api>>
          /\ job = "RESERVING" /\ mirror = "PENDING" /\ api["create"] = "idle"
          /\ api["cancel"] # "reserved"
      BY <2>1 DEF SchedulerCalls
    <3>3. /\ answer # "unconfirmed" /\ late' = late
          /\ answer = "refused" => (main = "none" => main' = "none")
      BY <1>0, <1>1, <3>1, CallFunded, CallRefund, "reserve" \in Calls DEF Calls
    <3>4. main = "none"
      BY <1>0, <3>2 DEF Requests
    <3>5. QED
      BY <1>0, <3>1, <3>2, <3>3, <3>4 DEF Answers
  <2>2. CASE ~SchedulerCalls
    BY <1>0, <1>3, <2>2 DEF SchedulerSteps, SchedulerScans, SchedulerReserves,
       ReconcileGpuLeases, AssignGpuLeases, EnqueueReadyJobs
  <2>3. QED
    BY <2>1, <2>2
<1>4. CASE WorkerSteps
  <2>1. CASE Commit
    BY <1>0, <1>1, <2>1, CallFunded, CallRefund DEF Commit, Calls
  <2>2. CASE RefundStage \/ RefundDraw \/ RetryRefund
    <3>1. /\ main = "none" => main' = "none"
          /\ late' = late
          /\ UNCHANGED <<job, mirror, api, scheduler>>
      BY <1>1, <2>2, CallFunded, CallRefund, "release" \in Calls
         DEF RefundStage, RefundDraw, RetryRefund, Refund, Calls
    <3>2. QED
      BY <1>0, <3>1
  <2>3. CASE ~(Commit \/ RefundStage \/ RefundDraw \/ RetryRefund)
    <3>1. /\ UNCHANGED <<main, late, api, scheduler>>
          /\ mirror' = "FAILED" => mirror = "FAILED"
          /\ job' = "RESERVING" => job = "RESERVING"
      BY <1>4, <2>3 DEF WorkerSteps, Pop, ClaimStage, Enhanced, EnhanceFails, StageFails,
         FailPromptEnhancementJob, Claim, Drawn, RetryGeneratedJob, DrawFails,
         FailGeneratedJob, Succeed, CommitPending, ReleaseJobLeases, Publish, Published,
         ReconcileFailed, RefundRetried, ReconcileGallery, Recover, RecoverReads,
         RecoverWrites, Fail
    <3>2. QED
      BY <1>0, <3>1
  <2>4. QED
    BY <2>1, <2>2, <2>3
<1>5. CASE Environment \/ DelayedPush
  <2>1. ASSUME NEW call \in Calls PROVE ~LateCall(call)
    BY DEF LateCall
  <2>2. CASE PublishPrice \/ Resubmit \/ CancelReads
    BY <1>0, <2>2 DEF PublishPrice, Resubmit, CancelReads
  <2>3. ~(ApiCrashes \/ SchedulerCrashes)
    BY <1>1 DEF ApiCrashes, SchedulerCrashes
  <2>4. CASE LeaseExpires \/ WorkerCrashes \/ DelayedPush
    BY <1>0, <2>4 DEF LeaseExpires, WorkerCrashes, DelayedPush
  <2>5. QED
    BY <1>5, <2>1, <2>2, <2>3, <2>4 DEF Environment
<1>6. QED
  BY <1>2, <1>3, <1>4, <1>5 DEF Next

LEMMA HonestInit ==
  ASSUME Init PROVE HonestInv
<1>1. Backed /\ Quiet /\ Funded
  BY DEF Init, Backed, Quiet, Refunding, Funded
<1>2. Alone /\ Refunds /\ Priced /\ Unrefunded
  BY DEF Init, Alone, Others, Refunds, Priced, Unrefunded
<1>3. QED
  BY <1>1, <1>2 DEF HonestInv

LEMMA HonestNext ==
  ASSUME TypeOK, HonestInv, [Next]_vars PROVE HonestInv'
<1>1. CASE UNCHANGED vars
  BY <1>1 DEF HonestInv, Backed, Quiet, Refunding, Funded, Recoverable, Alone, Others,
     Refunds, Priced, Unrefunded
<1>2. CASE Next
  <2>1. Backed'
    BY <1>2, RequestBacked, SchedulerBacked, WorkerBacked, EnvironmentBacked
       DEF Next, HonestInv
  <2>2. Quiet' /\ Funded'
    BY <1>2, QuietNext, FundedNext DEF HonestInv
  <2>3. world' = world
    BY <1>2, WorldFixed
  <2>4. (Recoverable <=> Recoverable') /\ (world'.races = {} <=> world.races = {})
    BY <2>3 DEF Recoverable
  <2>5. CASE Recoverable /\ world.races = {}
    <3>1. Alone' /\ Refunds'
      BY <1>2, <2>5, Circumstances, RequestAlone, SchedulerAlone, WorkerAlone,
         EnvironmentAlone, RequestRefunds, SchedulerRefunds, WorkerRefunds,
         EnvironmentRefunds DEF Next, HonestInv
    <3>2. Priced'
      BY <1>2, <2>5, PricedNext DEF HonestInv
    <3>3. QED
      BY <2>1, <2>2, <2>4, <2>5, <3>1, <3>2 DEF HonestInv
  <2>6. CASE Recoverable /\ world.races # {}
    BY <1>2, <2>1, <2>2, <2>4, <2>6, UnrefundedNext DEF HonestInv
  <2>7. CASE ~Recoverable
    BY <2>1, <2>2, <2>4, <2>7 DEF HonestInv
  <2>8. QED
    BY <2>5, <2>6, <2>7
<1>3. QED
  BY <1>1, <1>2

(* Whatever fails of what the code can make good: the GPU draws only while *)
(* the price is reserved, neither returned nor taken; a refund that is     *)
(* noted has happened at the main platform; and nobody's price is          *)
(* forgotten: what was not refunded when its job failed or was cancelled   *)
(* is where reconcileFailedReservations finds it.                          *)
THEOREM ReservationCorrect == Spec => []ReservationHonest
<1>1. MoneyInv /\ HonestInv /\ TypeOK => ReservationHonest
  <2> SUFFICES ASSUME MoneyInv, HonestInv, TypeOK, Recoverable
               PROVE  /\ worker = "draw" => main = "reserved"
                      /\ mirror = "RELEASED" => main = "released"
                      /\ job \in {"FAILED", "CANCELLED"} /\ mirror # "RESERVED"
                         => main \in {"none", "released"}
    BY DEF ReservationHonest
  <2>1. worker = "draw" => main \in Mains \ {"none", "committed"}
    BY DEF MoneyInv, HonestInv, Backed, TypeOK
  <2>2. worker = "draw" => main # "released"
    BY DEF HonestInv, Alone, Others, Refunds, Unrefunded
  <2>3. mirror = "RELEASED" => main = "released"
    BY DEF HonestInv, Refunds, Unrefunded
  <2>4. ASSUME job \in {"FAILED", "CANCELLED"}, mirror # "RESERVED"
        PROVE  main \in {"none", "released"}
    <3>1. mirror \in {"RELEASED", "FAILED"}
      BY <2>4 DEF HonestInv, Alone, Unrefunded
    <3>2. mirror = "FAILED" => main = "none"
      BY Circumstances DEF HonestInv, Funded, Priced
    <3>3. QED
      BY <2>3, <3>1, <3>2
  <2>5. QED
    BY <2>1, <2>2, <2>3, <2>4 DEF Mains
<1>2. QED
  BY <1>1, HonestInit, HonestNext, TypeCorrect, MoneyInvariant, PTL DEF Spec
=============================================================================
