-------------------------- MODULE MCLocalInference --------------------------
(* Instances of LocalInference: the circumstances each run grants.         *)
EXTENDS LocalInference

W(cancel, races, failing, funds, draws, enhance, published) ==
  [cancel |-> cancel, races |-> races, faults |-> failing, funds |-> funds,
   draws |-> draws, enhance |-> enhance, gallery |-> published]

AnyFault == {"main", "body", "price", "redis", "lease", "worker", "scheduler", "api"}
AnyDraw  == {"ok", "retryable", "fatal"}

(* The largest circumstances in which Recoverable holds.                   *)
Recoverables ==
  UNION {{ W(FALSE, {}, {"main", "lease"}, TRUE, AnyDraw, enhance, TRUE),
           W(TRUE, {}, {"lease", "price"}, TRUE, AnyDraw, enhance, TRUE),
           W(TRUE, {}, {}, FALSE, AnyDraw, enhance, TRUE),
           W(FALSE, {}, {"main", "lease", "worker", "scheduler", "api"}, TRUE, {"ok"}, enhance, FALSE),
           W(FALSE, {}, {"lease", "worker", "price"}, TRUE, {"ok"}, enhance, FALSE),
           W(FALSE, {"reserve"}, {"lease"}, TRUE, {"ok"}, enhance, TRUE)
         } : enhance \in BOOLEAN}

(* Beyond them: anything may fail, or the user cancels next to anything.   *)
Unrecoverables ==
  { W(FALSE, {}, AnyFault, TRUE, AnyDraw, TRUE, TRUE),
    W(TRUE, {"reserve", "cancel"}, {"worker"}, TRUE, {"ok"}, FALSE, FALSE) }

LocalWorlds == Recoverables \cup Unrecoverables

(* Nothing fails, but a cancellation runs next to the worker.              *)
CancelWorlds == {W(TRUE, {"cancel"}, {}, TRUE, {"ok"}, FALSE, FALSE)}
=============================================================================
