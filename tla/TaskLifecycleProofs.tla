------------------------ MODULE TaskLifecycleProofs ------------------------
(***************************************************************************)
(* Theorems about TaskLifecycle for every set of workers and every bound.  *)
(***************************************************************************)
EXTENDS TaskLifecycle, TLAPS

USE ConstantsAssumption DEF ConstantsAssumption
USE DEF Statuses, Terminal, StatusWrites, Requests, AcceptSteps, WorkerSteps
USE DEF vars, order, row, timeline, service, workers, sweepers, net, ghost

-----------------------------------------------------------------------------
(* What the transactions of the backend write has the right type.          *)

(* A part of the state that a step leaves alone keeps its type. *)
LEMMA TypeFrame ==
  /\ RowType /\ UNCHANGED <<row, old>> => RowType'
  /\ TimelineType /\ UNCHANGED timeline => TimelineType'
  /\ ServiceType /\ UNCHANGED service => ServiceType'
  /\ WorkerType /\ UNCHANGED workers => WorkerType'
  /\ SweeperType /\ UNCHANGED sweepers => SweeperType'
  /\ NetType /\ UNCHANGED net => NetType'
  /\ GhostType /\ UNCHANGED ghost => GhostType'
  BY DEF RowType, TimelineType, ServiceType, WorkerType, SweeperType, NetType,
         GhostType

(* The transactions on the task row. *)
LEMMA RowWrites ==
  ASSUME TypeOK
  PROVE  /\ FailAndRefund => RowType'
         /\ \A s \in Statuses : SetStatus(s) => RowType'
         /\ \A s \in StatusWrites : WriteStatus(s) => RowType'
<1>1. FailAndRefund => RowType'
  BY DEF TypeOK, RowType, FailAndRefund
<1>2. \A s \in Statuses : SetStatus(s) => RowType'
  BY DEF TypeOK, RowType, SetStatus
<1>3. QED
  BY <1>1, <1>2 DEF WriteStatus

(* The transactions on the sub tasks, and those of claimTask. *)
LEMMA TimelineWrites ==
  ASSUME TypeOK
  PROVE  /\ \A s \in Statuses : AppendFinalize(s) => TimelineType'
         /\ CloseAttempt => TimelineType' /\ old' \subseteq Clocks
         /\ AppendAttempt => TimelineType' /\ GhostType' /\ old' \subseteq Clocks
         /\ TakeQueued \/ TakePlaceholder => TimelineType' /\ RowType' /\ GhostType'
<1>1. \A s \in Statuses : AppendFinalize(s) => TimelineType'
  BY DEF TypeOK, TimelineType, AppendFinalize
<1>2. CloseAttempt => TimelineType' /\ old' \subseteq Clocks
  BY DEF TypeOK, RowType, TimelineType, CloseAttempt
<1>3. AppendAttempt => TimelineType' /\ GhostType' /\ old' \subseteq Clocks
  BY DEF TypeOK, RowType, TimelineType, GhostType, AppendAttempt
<1>4. TakeQueued => TimelineType' /\ RowType' /\ GhostType'
  BY DEF TypeOK, TimelineType, RowType, GhostType, TakeQueued
<1>5. TakePlaceholder => TimelineType' /\ RowType' /\ GhostType'
  BY DEF TypeOK, TimelineType, RowType, GhostType, TakePlaceholder
<1>6. QED
  BY <1>1, <1>2, <1>3, <1>4, <1>5

(* finalizeTask, which writes both. *)
LEMMA FinalizeWrites ==
  ASSUME TypeOK, FailAndFinalize PROVE RowType' /\ TimelineType'
<1>1. RowType'
  BY RowWrites DEF FailAndFinalize
<1>2. TimelineType'
  BY <1>1, TimelineWrites DEF FailAndFinalize, RowType
<1>3. QED
  BY <1>1, <1>2

(* An abandoned call. *)
LEMMA NetWrites ==
  ASSUME TypeOK, NEW r \in Requests, Abandon(r) PROVE NetType'
  BY DEF TypeOK, NetType, Abandon

(* Type correctness of the specification. *)
THEOREM TypeCorrect == Spec => []TypeOK
<1>1. Init => TypeOK
  BY DEF Init, TypeOK, RowType, TimelineType, ServiceType, WorkerType, SweeperType, NetType, 
         GhostType
<1>2. TypeOK /\ [Next]_vars => TypeOK'
  <2> SUFFICES ASSUME TypeOK, [Next]_vars PROVE TypeOK'
    OBVIOUS
  <2> USE DEF TypeOK
  <2>1. CASE SubmitTask
    BY <2>1, TypeFrame DEF SubmitTask, ServiceType
  <2>2. CASE DispatchAnswered
    BY <2>2, TypeFrame DEF DispatchAnswered, DispatchRetry, DispatchLimit,
       ByBotRoute, ServiceType
  <2>3. CASE DispatchTimeout
    BY <2>3, TypeFrame DEF DispatchTimeout, DispatchRetry, DispatchLimit,
       ByBotRoute, ServiceType, NetType
  <2>4. CASE DispatchGiveUp
    BY <2>4, TypeFrame, RowWrites DEF DispatchGiveUp, ServiceType
  <2>5. ASSUME NEW i \in 1..MaxDispatch, AcceptDispatch(i) PROVE TypeOK'
    BY <2>5, TypeFrame DEF AcceptDispatch, ServiceType
  <2>6. ASSUME NEW i \in 1..MaxDispatch, AcceptRunning(i) PROVE TypeOK'
    BY <2>6, TypeFrame, RowWrites DEF AcceptRunning, ServiceType
  <2>7. ASSUME NEW i \in 1..MaxDispatch, AcceptAttempt(i) PROVE TypeOK'
    BY <2>7, TypeFrame, TimelineWrites DEF AcceptAttempt, ServiceType,
       RowType
  <2>8. ASSUME NEW i \in 1..MaxDispatch, AcceptTimeout(i) PROVE TypeOK'
    <3>1. ServiceType'
      BY <2>8 DEF AcceptTimeout, ServiceType
    <3>2. NetType'
      <4>1. CASE accept[i] \in {"running", "attempt"} /\ Abandon(accept[i])
        BY <4>1, NetWrites
      <4>2. CASE /\ accept[i] = "dispatch" /\ faults < MaxFaults
                 /\ faults' = faults + 1 /\ UNCHANGED <<wire, crashes>>
        BY <4>2 DEF NetType
      <4>3. QED
        BY <2>8, <4>1, <4>2 DEF AcceptTimeout
    <3>3. QED
      BY <2>8, <3>1, <3>2, TypeFrame DEF AcceptTimeout
  <2>9. ASSUME NEW i \in 1..MaxDispatch, PushFails(i) PROVE TypeOK'
    BY <2>9, TypeFrame DEF PushFails, ServiceType
  <2>10. ASSUME NEW i \in 1..MaxDispatch, NEW w \in Workers, PushToWorker(i, w) PROVE TypeOK'
    BY <2>10, TypeFrame DEF PushToWorker, ServiceType, WorkerType
  <2>11. ASSUME NEW w \in Workers, PickUp(w) PROVE TypeOK'
    BY <2>11, TypeFrame DEF PickUp, Goto, WorkerType
  <2>12. ASSUME NEW w \in Workers, DropPushed(w) PROVE TypeOK'
    BY <2>12, TypeFrame DEF DropPushed, WorkerType
  <2>13. ASSUME NEW w \in Workers, ClaimRead(w) PROVE TypeOK'
    BY <2>13, TypeFrame DEF ClaimRead, Goto, WorkerType
  <2>14. ASSUME NEW w \in Workers, ClaimUpdate(w) PROVE TypeOK'
    BY <2>14, TypeFrame, TimelineWrites DEF ClaimUpdate, StartExecution,
       Goto, WorkerType
  <2>15. ASSUME NEW w \in Workers, ClaimTimeout(w) PROVE TypeOK'
    BY <2>15, TypeFrame, NetWrites DEF ClaimTimeout, Goto, WorkerType
  <2>16. ASSUME NEW w \in Workers, CheckStillRunning(w) PROVE TypeOK'
    BY <2>16, TypeFrame DEF CheckStillRunning, EndExecution, Goto,
       WorkerType, NetType
  <2>17. ASSUME NEW w \in Workers, Upstream(w) PROVE TypeOK'
    BY <2>17, TypeFrame DEF Upstream, EndExecution, Goto, WorkerType
  <2>18. ASSUME NEW w \in Workers, ReportArrives(w) PROVE TypeOK'
    BY <2>18, TypeFrame, TimelineWrites DEF ReportArrives, WorkerType,
       RowType
  <2>19. ASSUME NEW w \in Workers, SaveImage(w) PROVE TypeOK'
    BY <2>19, TypeFrame DEF SaveImage, Goto, WorkerType
  <2>20. ASSUME NEW w \in Workers, ReportImage(w) PROVE TypeOK'
    BY <2>20, TypeFrame, NetWrites DEF ReportImage, Goto, WorkerType
  <2>21. ASSUME NEW w \in Workers, Finish(w) PROVE TypeOK'
    BY <2>21, TypeFrame, RowWrites, NetWrites DEF Finish, FinishStatus,
       Goto, WorkerType
  <2>22. ASSUME NEW w \in Workers, WriteFailed(w) PROVE TypeOK'
    BY <2>22, TypeFrame, RowWrites, NetWrites DEF WriteFailed, Goto,
       WorkerType
  <2>23. ASSUME NEW w \in Workers, FinalizeTask(w) PROVE TypeOK'
    BY <2>23, TypeFrame, FinalizeWrites, NetWrites
       DEF FinalizeTask, Goto, WorkerType
  <2>24. ASSUME NEW w \in Workers, ReportFinalize(w) PROVE TypeOK'
    BY <2>24, TypeFrame, TimelineWrites DEF ReportFinalize, Goto,
       WorkerType, NetType
  <2>25. ASSUME NEW w \in Workers, WorkerCrash(w) PROVE TypeOK'
    BY <2>25, TypeFrame DEF WorkerCrash, WorkerExit, EndExecution, Goto,
       WorkerType, NetType
  <2>26. ASSUME NEW w \in Workers, ReportRejected(w) PROVE TypeOK'
    BY <2>26, TypeFrame DEF ReportRejected, WorkerExit, EndExecution, Goto,
       WorkerType, NetType
  <2>27. ASSUME NEW r \in Requests, LateRequest(r) PROVE TypeOK'
    BY <2>27, TypeFrame, RowWrites, TimelineWrites DEF LateRequest,
       FailAndFinalize, RowType, NetType
  <2>28. CASE HalfHour
    BY <2>28, TypeFrame DEF HalfHour, RowType, Clocks
  <2>29. ASSUME NEW s \in Sweeps, CleanupSelect(s) PROVE TypeOK'
    BY <2>29, TypeFrame DEF CleanupSelect, SweeperType
  <2>30. ASSUME NEW s \in Sweeps, CleanupFail(s) PROVE TypeOK'
    BY <2>30, TypeFrame, RowWrites DEF CleanupFail, SweeperType
  <2>31. ASSUME NEW s \in Sweeps, CleanupClose(s) PROVE TypeOK'
    BY <2>31, TypeFrame, TimelineWrites DEF CleanupClose, SweeperType,
       RowType
  <2>32. CASE OpsList
    BY <2>32, TypeFrame DEF OpsList, SweeperType
  <2>33. CASE OpsRead
    BY <2>33, TypeFrame DEF OpsRead, SweeperType
  <2>34. CASE OpsFail
    BY <2>34, TypeFrame, RowWrites DEF OpsFail, SweeperType
  <2>35. CASE OpsAppend
    BY <2>35, TypeFrame, TimelineWrites DEF OpsAppend, SweeperType
  <2>36. CASE BackendCrash
    BY <2>36, TypeFrame DEF BackendCrash, ServiceType, SweeperType, NetType
  <2>37. CASE BotSend
    BY <2>37, TypeFrame DEF BotSend
  <2>38. CASE BotConfirm
    BY <2>38, TypeFrame, RowWrites, TimelineWrites DEF BotConfirm
  <2>39. CASE PromptAssisted
    BY <2>39, TypeFrame DEF PromptAssisted, ServiceType
  <2>40. CASE PromptAssistFails
    BY <2>40, TypeFrame DEF PromptAssistFails, ServiceType
  <2>41. CASE UNCHANGED vars
    BY <2>41 DEF RowType, TimelineType, ServiceType, WorkerType, SweeperType, NetType, GhostType
  <2>42. QED
    BY <2>1, <2>2, <2>3, <2>4, <2>5, <2>6, <2>7, <2>8, <2>9, <2>10, <2>11,
       <2>12, <2>13, <2>14, <2>15, <2>16, <2>17, <2>18, <2>19, <2>20, <2>21,
       <2>22, <2>23, <2>24, <2>25, <2>26, <2>27, <2>28, <2>29, <2>30, <2>31,
       <2>32, <2>33, <2>34, <2>35, <2>36, <2>37, <2>38, <2>39, <2>40,
       <2>41 DEF Next,
       AcceptNext, WorkerNext
<1>3. QED
  BY <1>1, <1>2, PTL DEF Spec

-----------------------------------------------------------------------------
(* The settlement of the task.                                             *)

(* Every step writes the row by one of three transactions, or not at all. *)
LEMMA RowStep ==
  ASSUME [Next]_vars
  PROVE  \/ UNCHANGED row
         \/ FailAndRefund
         \/ TakeQueued
         \/ \E s \in {"running", "finalizing", "success"} : SetStatus(s)
<1> DEFINE Goal == \/ UNCHANGED row
                   \/ FailAndRefund
                   \/ TakeQueued
                   \/ \E s \in {"running", "finalizing", "success"} : SetStatus(s)
<1>1. ASSUME NEW i \in 1..MaxDispatch, AcceptNext(i) PROVE Goal
  BY <1>1 DEF AcceptNext, AcceptDispatch, AcceptRunning, AcceptAttempt,
     AcceptTimeout, PushFails, PushToWorker
<1>2. ASSUME NEW w \in Workers, WorkerNext(w) PROVE Goal
  <2>1. CASE \/ ClaimUpdate(w) \/ Finish(w) \/ WriteFailed(w) \/ FinalizeTask(w)
    BY <2>1 DEF ClaimUpdate, TakePlaceholder, Finish, FinishStatus, WriteFailed,
       FinalizeTask, FailAndFinalize
  <2>2. CASE \/ PickUp(w) \/ DropPushed(w) \/ ClaimRead(w) \/ ClaimTimeout(w)
             \/ CheckStillRunning(w) \/ Upstream(w) \/ ReportArrives(w)
             \/ SaveImage(w) \/ ReportImage(w) \/ ReportFinalize(w)
             \/ WorkerCrash(w) \/ ReportRejected(w)
    BY <2>2 DEF PickUp, DropPushed, ClaimRead, ClaimTimeout, CheckStillRunning,
       Upstream, ReportArrives, SaveImage, ReportImage, ReportFinalize,
       WorkerCrash, ReportRejected, WorkerExit
  <2>3. QED
    BY <1>2, <2>1, <2>2 DEF WorkerNext
<1>3. ASSUME NEW r \in Requests, LateRequest(r) PROVE Goal
  BY <1>3 DEF LateRequest, WriteStatus, TakePlaceholder, FailAndFinalize
<1>4. CASE \/ PromptAssisted \/ PromptAssistFails
           \/ SubmitTask \/ DispatchAnswered \/ DispatchTimeout \/ DispatchGiveUp
           \/ HalfHour
           \/ \E s \in Sweeps : CleanupSelect(s) \/ CleanupFail(s) \/ CleanupClose(s)
           \/ OpsList \/ OpsRead \/ OpsFail \/ OpsAppend
           \/ BackendCrash \/ BotSend \/ BotConfirm \/ UNCHANGED vars
  BY <1>4 DEF PromptAssisted, PromptAssistFails, SubmitTask,
     DispatchAnswered, DispatchTimeout, DispatchGiveUp,
     HalfHour, CleanupSelect, CleanupFail, CleanupClose, OpsList, OpsRead,
     OpsFail, OpsAppend, BackendCrash, BotSend, BotConfirm
<1>5. QED
  BY <1>1, <1>2, <1>3, <1>4 DEF Next

(* The refund and the status are two columns written by many transactions; *)
(* they agree in every reachable state.                                    *)
THEOREM RefundCorrect == Spec => []RefundedIffFailed
<1>1. Init => RefundedIffFailed
  BY DEF Init, RefundedIffFailed
<1>2. RefundedIffFailed /\ [Next]_vars => RefundedIffFailed'
  BY RowStep DEF RefundedIffFailed, FailAndRefund, TakeQueued, SetStatus
<1>3. QED
  BY <1>1, <1>2, PTL DEF Spec

(* No step of any program changes a settled task. *)
THEOREM TerminalCorrect == Spec => TerminalIsFinal
<1>1. [Next]_vars => [(status \in Terminal) => (status' = status)]_vars
  BY RowStep DEF FailAndRefund, TakeQueued, SetStatus
<1>2. QED
  BY <1>1, PTL DEF Spec, TerminalIsFinal

(* The task implements the abstract settlement of its charge. *)
THEOREM SettlementRefined == Spec => ChargeSettledOnce
<1>1. Init => S!Init
  BY DEF Init, S!Init, Charge
<1>2. RefundedIffFailed /\ [Next]_vars => [S!Next]_Charge
  BY RowStep DEF RefundedIffFailed, FailAndRefund, TakeQueued, SetStatus, Charge,
     S!Next, S!Earn, S!Return
<1>3. QED
  BY <1>1, <1>2, RefundCorrect, PTL DEF Spec, ChargeSettledOnce, S!SafeSpec

-----------------------------------------------------------------------------
(* Claims.                                                                 *)

(* A step grants a claim, makes the task claimable once more, or does      *)
(* neither; and then nothing becomes claimable that was not before.        *)
LEMMA ClaimStep ==
  ASSUME [Next]_vars
  PROVE  \/ TakeQueued
         \/ TakePlaceholder
         \/ AppendAttempt /\ UNCHANGED status
         \/ /\ UNCHANGED ghost
            /\ status' = "queued" => status = "queued"
            /\ placeholder' = "queued" => placeholder = "queued"
<1> DEFINE Quiet == /\ UNCHANGED ghost
                    /\ status' = "queued" => status = "queued"
                    /\ placeholder' = "queued" => placeholder = "queued"
           Goal  == \/ TakeQueued
                    \/ TakePlaceholder
                    \/ AppendAttempt /\ UNCHANGED status
                    \/ Quiet
<1>1. ASSUME NEW i \in 1..MaxDispatch, AcceptNext(i) PROVE Goal
  BY <1>1 DEF AcceptNext, AcceptDispatch, AcceptRunning, AcceptAttempt,
     AcceptTimeout, PushFails, PushToWorker, SetStatus
<1>2. ASSUME NEW w \in Workers, WorkerNext(w) PROVE Goal
  <2>1. CASE ClaimUpdate(w)
    BY <2>1 DEF ClaimUpdate
  <2>2. CASE Finish(w) \/ WriteFailed(w) \/ FinalizeTask(w)
    BY <2>2 DEF Finish, FinishStatus, WriteFailed, FinalizeTask, FailAndFinalize,
       SetStatus, FailAndRefund, AppendFinalize
  <2>3. CASE \/ PickUp(w) \/ DropPushed(w) \/ ClaimRead(w) \/ ClaimTimeout(w)
             \/ CheckStillRunning(w) \/ Upstream(w) \/ ReportArrives(w)
             \/ SaveImage(w) \/ ReportImage(w) \/ ReportFinalize(w)
             \/ WorkerCrash(w) \/ ReportRejected(w)
    BY <2>3 DEF PickUp, DropPushed, ClaimRead, ClaimTimeout, CheckStillRunning,
       Upstream, ReportArrives, CloseAttempt, SaveImage, ReportImage,
       ReportFinalize, AppendFinalize, WorkerCrash, ReportRejected, WorkerExit
  <2>4. QED
    BY <1>2, <2>1, <2>2, <2>3 DEF WorkerNext
<1>3. ASSUME NEW r \in Requests, LateRequest(r) PROVE Goal
  <2>1. CASE r \in StatusWrites
    BY <1>3, <2>1 DEF LateRequest, WriteStatus, SetStatus, FailAndRefund
  <2>2. CASE r \in {"attempt", "claim", "image"}
    BY <1>3, <2>2 DEF LateRequest
  <2>3. CASE r = "finalizeTask"
    BY <1>3, <2>3 DEF LateRequest, FailAndFinalize, FailAndRefund, AppendFinalize
  <2>4. QED
    BY <2>1, <2>2, <2>3
<1>4. CASE \/ PromptAssisted \/ PromptAssistFails
           \/ SubmitTask \/ DispatchAnswered \/ DispatchTimeout \/ DispatchGiveUp
           \/ HalfHour
           \/ \E s \in Sweeps : CleanupSelect(s) \/ CleanupFail(s) \/ CleanupClose(s)
           \/ OpsList \/ OpsRead \/ OpsFail \/ OpsAppend
           \/ BackendCrash \/ BotSend \/ BotConfirm \/ UNCHANGED vars
  <2>1. Quiet
    BY <1>4 DEF PromptAssisted, PromptAssistFails, SubmitTask,
       DispatchAnswered, DispatchTimeout, DispatchGiveUp,
       HalfHour, CleanupSelect, CleanupFail, CleanupClose, OpsList, OpsRead,
       OpsFail, OpsAppend, BackendCrash, BotSend, BotConfirm, SetStatus,
       FailAndRefund, CloseAttempt, AppendFinalize
  <2>2. QED
    BY <2>1
<1>5. QED
  BY <1>1, <1>2, <1>3, <1>4 DEF Next

(* No two claims are granted for one offer, whatever the number of workers *)
(* and however their reads and updates interleave.                         *)
THEOREM ClaimsCorrect == Spec => []ClaimsWithinOffers
<1>1. Init => ClaimsWithinOffers
  BY DEF Init, ClaimsWithinOffers
<1>2. TypeOK /\ ClaimsWithinOffers /\ [Next]_vars => ClaimsWithinOffers'
  <2> SUFFICES ASSUME TypeOK, ClaimsWithinOffers, [Next]_vars
               PROVE  ClaimsWithinOffers'
    OBVIOUS
  <2> USE DEF ClaimsWithinOffers, TypeOK, GhostType
  <2>1. CASE TakeQueued
    BY <2>1 DEF TakeQueued
  <2>2. CASE TakePlaceholder
    BY <2>2 DEF TakePlaceholder
  <2>3. CASE AppendAttempt /\ UNCHANGED status
    BY <2>3 DEF AppendAttempt
  <2>4. CASE /\ UNCHANGED ghost
             /\ status' = "queued" => status = "queued"
             /\ placeholder' = "queued" => placeholder = "queued"
    BY <2>4
  <2>5. QED
    BY <2>1, <2>2, <2>3, <2>4, ClaimStep
<1>3. QED
  BY <1>1, <1>2, TypeCorrect, PTL DEF Spec

-----------------------------------------------------------------------------
(* Bot tasks.                                                              *)

(* The strengthening: for a bot task no success write is ever under way,   *)
(* and what the bot sent was saved.                                        *)
BotInv ==
  source = "bot" =>
    /\ "success" \notin wire
    /\ bot # "idle" => image = "saved"
    /\ status = "success" => bot = "confirmed"

(* Only the confirmation of its delivery makes a bot task succeed. *)
LEMMA BotStep ==
  ASSUME BotInv, [Next]_vars PROVE BotInv'
<1> SUFFICES ASSUME source = "bot" PROVE BotInv'
  <2>1. source' = source
    BY DEF Next, AcceptNext, WorkerNext, PromptAssisted, PromptAssistFails,
       SubmitTask, DispatchAnswered,
       DispatchTimeout, DispatchGiveUp, AcceptDispatch, AcceptRunning,
       AcceptAttempt, AcceptTimeout, PushFails, PushToWorker, PickUp, DropPushed,
       ClaimRead, ClaimUpdate, ClaimTimeout, CheckStillRunning, Upstream,
       ReportArrives, SaveImage, ReportImage, Finish, WriteFailed, FinalizeTask,
       ReportFinalize, WorkerCrash, ReportRejected, WorkerExit, LateRequest,
       HalfHour, CleanupSelect, CleanupFail, CleanupClose, OpsList, OpsRead,
       OpsFail, OpsAppend, BackendCrash, BotSend, BotConfirm
  <2>2. QED
    BY <2>1 DEF BotInv
<1> USE DEF BotInv
<1>1. ASSUME NEW i \in 1..MaxDispatch, AcceptNext(i) PROVE BotInv'
  BY <1>1 DEF AcceptNext, AcceptDispatch, AcceptRunning, AcceptAttempt,
     AcceptTimeout, PushFails, PushToWorker, SetStatus, Abandon
<1>2. ASSUME NEW w \in Workers, WorkerNext(w) PROVE BotInv'
  <2>1. CASE ClaimUpdate(w) \/ ClaimTimeout(w)
    BY <2>1 DEF ClaimUpdate, ClaimTimeout, TakeQueued, TakePlaceholder, Abandon
  <2>2. CASE Finish(w) \/ WriteFailed(w) \/ FinalizeTask(w)
    BY <2>2 DEF Finish, FinishStatus, WriteFailed, FinalizeTask, FailAndFinalize,
       SetStatus, FailAndRefund, Abandon
  <2>3. CASE \/ PickUp(w) \/ DropPushed(w) \/ ClaimRead(w)
             \/ CheckStillRunning(w) \/ Upstream(w) \/ ReportArrives(w)
             \/ SaveImage(w) \/ ReportImage(w) \/ ReportFinalize(w)
             \/ WorkerCrash(w) \/ ReportRejected(w)
    BY <2>3 DEF PickUp, DropPushed, ClaimRead, CheckStillRunning, Upstream,
       ReportArrives, SaveImage, ReportImage, ReportFinalize, WorkerCrash,
       ReportRejected, WorkerExit, Abandon
  <2>4. QED
    BY <1>2, <2>1, <2>2, <2>3 DEF WorkerNext
<1>3. ASSUME NEW r \in Requests, LateRequest(r) PROVE BotInv'
  BY <1>3 DEF LateRequest, WriteStatus, SetStatus, FailAndRefund, TakeQueued,
     TakePlaceholder, AppendAttempt, FailAndFinalize
<1>4. CASE \/ PromptAssisted \/ PromptAssistFails
           \/ SubmitTask \/ DispatchAnswered \/ DispatchTimeout \/ DispatchGiveUp
           \/ HalfHour
           \/ \E s \in Sweeps : CleanupSelect(s) \/ CleanupFail(s) \/ CleanupClose(s)
           \/ OpsList \/ OpsRead \/ OpsFail \/ OpsAppend \/ BackendCrash
  BY <1>4 DEF PromptAssisted, PromptAssistFails, SubmitTask,
     DispatchAnswered, DispatchTimeout, DispatchGiveUp,
     HalfHour, CleanupSelect, CleanupFail, CleanupClose, OpsList, OpsRead,
     OpsFail, OpsAppend, BackendCrash, FailAndRefund
<1>5. CASE BotSend \/ BotConfirm \/ UNCHANGED vars
  BY <1>5 DEF BotSend, BotConfirm, SetStatus
<1>6. QED
  BY <1>1, <1>2, <1>3, <1>4, <1>5 DEF Next

(* A bot task that succeeded was saved and delivered. *)
THEOREM BotCorrect == Spec => []BotSuccessDelivered
<1>1. Init => BotInv
  BY DEF Init, BotInv
<1>2. BotInv /\ [Next]_vars => BotInv'
  BY BotStep
<1>3. BotInv => BotSuccessDelivered
  BY DEF BotInv, BotSuccessDelivered
<1>4. QED
  BY <1>1, <1>2, <1>3, PTL DEF Spec
=============================================================================
