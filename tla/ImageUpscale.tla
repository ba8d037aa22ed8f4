---------------------------- MODULE ImageUpscale ----------------------------
(***************************************************************************)
(* The jobs that enlarge a picture on a private GPU (backend, modules/     *)
(* tools: image-upscale-job-service.ts, -queue-service.ts,                 *)
(* -job-repository.ts, -library-service.ts).                               *)
(*                                                                         *)
(* A job is a row of the database; the process that runs it also keeps it  *)
(* in memory, in a first-in first-out queue with few places, and in an     *)
(* asynchronous function that awaits the database, the GPU and the         *)
(* library.  Memory is changed at once, the row by a write that takes      *)
(* effect later and that changes no final row.  The user may cancel at any *)
(* time, two timers give up waiting, a function that was given up goes on, *)
(* and a restarted process takes unfinished rows up again.                 *)
(*                                                                         *)
(* Left out: the endpoints that enlarge without a job but wait in the same *)
(* queue, and the source file, which is saved before the row is created.   *)
(***************************************************************************)
EXTENDS Integers, Sequences, FiniteSets

CONSTANTS
  MaxJobs,         \* jobs that are submitted, numbered in that order
  Limits,          \* the settings the queue may have: functions it runs at a
                   \* time, and jobs that may wait
  Kinds,           \* what may be asked of a job, see Kind
  MaxFaults,       \* bound: reads and writes of the database that fail
  MaxCrashes       \* bound: restarts of the backend

(***************************************************************************)
(* "view": the picture is shown only.  "sync": it comes back with the      *)
(* answer of the GPU and is saved to the library before the job succeeds.  *)
(* "later": the answer has its address, and it is saved afterwards.        *)
(***************************************************************************)
Kind == {"view", "sync", "later"}

ASSUME UpscaleAssumption ==
  /\ MaxJobs \in Nat
  /\ Limits \subseteq [concurrency : Nat \ {0}, pending : Nat]
  /\ Kinds \subseteq Kind
  /\ MaxFaults \in Nat /\ MaxCrashes \in Nat

Jobs     == 1..MaxJobs
Terminal == {"succeeded", "failed", "cancelled"}
Open     == {"queued", "running"}

VARIABLES
  limits,     \* maxConcurrency and queueMaxPending, not changed here
  kind,       \* responseTransport and saveToLibrary of each job
  row,        \* image_upscale_jobs.status
  mem,        \* jobs: the status in memory
  queue,      \* the entries that wait
  active,     \* the queue's count of entries being executed
  slots,      \* entries being executed, whose promise is open
  at,         \* what the function of each job is awaiting
  aborted,    \* its abort controller has fired
  failing,    \* jobs whose failure is still to be written, by a write nobody awaits
  cancelling, \* cancellations whose write is still to come
  recovery,   \* progress of recoverInterruptedJobs
  todo,       \* rows it has still to take up, the oldest first
  picture,    \* the job's picture is in the library
  skipped,    \* history: open rows a recovery did not list
  faults,     \* failures of the database so far
  crashes     \* restarts so far

plan    == <<limits, kind>>
process == <<mem, queue, active, slots, at, aborted>>
startup == <<recovery, todo, skipped>>
vars    == <<plan, row, process, failing, cancelling, startup, picture, faults, crashes>>

Places == {"none", "queue", "check", "mark", "prepare", "prepare unmarked", "gpu", "image",
           "recheck", "mark save", "save", "last check", "finish", "later save"}

TypeOK ==
  /\ limits \in Limits /\ kind \in [Jobs -> Kinds]
  /\ row \in [Jobs -> {"none"} \cup Open \cup Terminal]
  /\ mem \in [Jobs -> {"none"} \cup Open \cup Terminal]
  /\ queue \in Seq(Jobs)
  /\ active \in Nat
  /\ slots \subseteq Jobs
  /\ at \in [Jobs -> Places]
  /\ aborted \subseteq Jobs
  /\ failing \subseteq Jobs
  /\ cancelling \subseteq Jobs
  /\ recovery \in {"list", "rows", "done"}
  /\ todo \subseteq Jobs /\ (recovery = "rows" <=> todo # {})
  /\ picture \subseteq Jobs
  /\ skipped \subseteq Jobs
  /\ faults \in 0..MaxFaults /\ crashes \in 0..MaxCrashes

Init ==
  /\ limits \in Limits /\ kind \in [Jobs -> Kinds]
  /\ row = [j \in Jobs |-> "none"] /\ mem = [j \in Jobs |-> "none"]
  /\ queue = <<>> /\ active = 0 /\ slots = {}
  /\ at = [j \in Jobs |-> "none"]
  /\ aborted = {} /\ failing = {} /\ cancelling = {}
  /\ recovery = "done" /\ todo = {}
  /\ picture = {} /\ skipped = {}
  /\ faults = 0 /\ crashes = 0

Fault == faults < MaxFaults /\ faults' = faults + 1

(* What the guards of the repository make of a status.                     *)
Written(old, new) == IF old \in Terminal THEN old ELSE new
Write(j, new) == row' = [row EXCEPT ![j] = Written(@, new)]

-----------------------------------------------------------------------------
(* The queue.                                                              *)

(***************************************************************************)
(* The queue starts entries of q while n, those executing, are few enough. *)
(* A function that starts looks at the memory: when the job is final       *)
(* there, it reads the row; otherwise it is marked running.  p, m, s and b *)
(* are places, memory, slots and abortions before.                         *)
(***************************************************************************)
Drain(q, n, p, m, s, b) ==
  LET free   == IF n < limits.concurrency THEN limits.concurrency - n ELSE 0
      k      == IF Len(q) < free THEN Len(q) ELSE free
      begins == {q[i] : i \in 1..k}
  IN  /\ queue' = SubSeq(q, k + 1, Len(q))
      /\ active' = n + k
      /\ slots' = s \cup begins
      /\ aborted' = b \ begins
      /\ mem' = [j \in Jobs |-> IF j \in begins /\ m[j] \notin Terminal THEN "running" ELSE m[j]]
      /\ at' = [j \in Jobs |-> IF j \notin begins THEN p[j]
                               ELSE IF m[j] \in Terminal THEN "check" ELSE "mark"]

(* markFailed: the memory at once, the row by a write nobody awaits.       *)
FailedIn(m, j) == IF m[j] \in Terminal THEN m ELSE [m EXCEPT ![j] = "failed"]

(* Mutant of StillFailing: the row of the failure is not written.          *)
FailsUnwritten(j) == failing

StillFailing(j) == IF mem[j] \in Terminal THEN failing ELSE failing \cup {j}

(***************************************************************************)
(* enqueue: the job, whose memory m says "queued", waits or starts; a full *)
(* queue refuses it.                                                       *)
(***************************************************************************)
Full == active >= limits.concurrency /\ Len(queue) >= limits.pending

(* Mutant of Enqueue: a refused job is not marked. *)
EnqueueForgets(j) ==
  IF Full
  THEN /\ mem' = [mem EXCEPT ![j] = "queued"]
       /\ UNCHANGED <<queue, active, slots, at, aborted, failing>>
  ELSE /\ Drain(Append(queue, j), active, [at EXCEPT ![j] = "queue"],
                [mem EXCEPT ![j] = "queued"], slots, aborted)
       /\ UNCHANGED failing

Enqueue(j) ==
  IF Full
  THEN /\ mem' = [mem EXCEPT ![j] = "failed"]
       /\ failing' = failing \cup {j}
       /\ UNCHANGED <<queue, active, slots, at, aborted>>
  ELSE /\ Drain(Append(queue, j), active, [at EXCEPT ![j] = "queue"],
                [mem EXCEPT ![j] = "queued"], slots, aborted)
       /\ UNCHANGED failing

(* An entry that has waited too long leaves the queue and fails.           *)
QueueTimeout(j) ==
  /\ at[j] = "queue"
  /\ \E i \in 1..Len(queue) :
       /\ queue[i] = j
       /\ queue' = [k \in 1..(Len(queue) - 1) |-> queue[IF k < i THEN k ELSE k + 1]]
  /\ at' = [at EXCEPT ![j] = "none"]
  /\ mem' = FailedIn(mem, j) /\ failing' = StillFailing(j)
  /\ UNCHANGED <<plan, row, active, slots, aborted, cancelling, startup, picture, faults, crashes>>

(***************************************************************************)
(* The promise of an entry is settled: its place goes to the next ones.    *)
(***************************************************************************)
Release(j, p, m, b) ==
  Drain(queue, IF active > 0 THEN active - 1 ELSE 0, p, m, slots \ {j}, b)

(* Mutant of EndsUnnoticed: the place is given back again. *)
EndsTwice(j) ==
  /\ j \notin slots
  /\ Release(j, [at EXCEPT ![j] = "none"], mem, aborted)
  /\ UNCHANGED failing

(* The function of j, given up before, ends unnoticed.                     *)
EndsUnnoticed(j) ==
  /\ j \notin slots
  /\ at' = [at EXCEPT ![j] = "none"]
  /\ UNCHANGED <<mem, queue, active, slots, aborted, failing>>

(* The function of j ends with an error.                                   *)
Throws(j) ==
  \/ EndsUnnoticed(j)
  \/ /\ j \in slots
     /\ Release(j, [at EXCEPT ![j] = "none"], FailedIn(mem, j), aborted)
     /\ failing' = StillFailing(j)

(* After a success, the picture of a "later" job is still to be saved.     *)
AfterSuccess(j) == IF kind[j] = "later" THEN "later save" ELSE "none"

(***************************************************************************)
(* The function of j returns its result.  markSucceeded passes over a job  *)
(* that is final in memory, and what follows it is done all the same.      *)
(***************************************************************************)
Returns(j) ==
  \/ EndsUnnoticed(j)
  \/ /\ j \in slots
     /\ IF mem[j] \in Terminal
        THEN Release(j, [at EXCEPT ![j] = AfterSuccess(j)], mem, aborted)
        ELSE Release(j, [at EXCEPT ![j] = "finish"], [mem EXCEPT ![j] = "succeeded"], aborted)
     /\ UNCHANGED failing

Goes(j, p) ==
  /\ at' = [at EXCEPT ![j] = p]
  /\ UNCHANGED <<mem, queue, active, slots, aborted, failing>>

-----------------------------------------------------------------------------
(* The function of a job, from its start to its return.                    *)

(* throwIfTerminal at the end.                                             *)
FinalCheck(j) == IF mem[j] \in Terminal THEN Goes(j, "last check") ELSE Returns(j)

(* The picture is there: it is saved now, or the function is done.         *)
Proceeds(j) == IF kind[j] = "sync" THEN Goes(j, "save") ELSE FinalCheck(j)

(* A row is read because the memory is final; often it is not final yet,   *)
(* and the function goes on: before the call, without marking the job.     *)
ReadsRow(j) ==
  /\ at[j] \in {"check", "recheck", "last check"}
  /\ \/ /\ UNCHANGED faults
        /\ \/ row[j] \in Terminal /\ Throws(j)
           \/ row[j] \notin Terminal /\ at[j] = "check" /\ Goes(j, "prepare unmarked")
           \/ row[j] \notin Terminal /\ at[j] = "recheck" /\ Proceeds(j)
           \/ row[j] \notin Terminal /\ at[j] = "last check" /\ Returns(j)
     \/ Fault /\ Throws(j)
  /\ UNCHANGED <<plan, row, cancelling, startup, picture, crashes>>

(* markRunning, before the call and after it.                              *)
MarksRunning(j) ==
  /\ at[j] \in {"mark", "mark save"}
  /\ \/ /\ Write(j, "running") /\ UNCHANGED faults
        /\ IF at[j] = "mark" THEN Goes(j, "prepare") ELSE Proceeds(j)
     \/ Fault /\ UNCHANGED row /\ Throws(j)
  /\ UNCHANGED <<plan, cancelling, startup, picture, crashes>>

(* The source picture is prepared, or is no picture.  The call to the GPU  *)
(* does not begin once the controller has fired; nothing else is asked.    *)
Prepares(j) ==
  /\ at[j] \in {"prepare", "prepare unmarked"}
  /\ (j \notin aborted /\ Goes(j, "gpu")) \/ Throws(j)
  /\ UNCHANGED <<plan, row, cancelling, startup, picture, faults, crashes>>

(* The GPU answers, unless the request was aborted; or the request fails.  *)
GpuEnds(j) ==
  /\ at[j] = "gpu"
  /\ (j \notin aborted /\ Goes(j, "image")) \/ Throws(j)
  /\ UNCHANGED <<plan, row, cancelling, startup, picture, faults, crashes>>

(* The answer is good or not; after it, throwIfTerminal and markRunning.   *)
ImageRead(j) ==
  /\ at[j] = "image"
  /\ Goes(j, IF mem[j] \in Terminal THEN "recheck" ELSE "mark save") \/ Throws(j)
  /\ UNCHANGED <<plan, row, cancelling, startup, picture, faults, crashes>>

(* saveResult; a picture saved for this job before is taken instead.       *)
Saves(j) ==
  /\ at[j] = "save"
  /\ \/ picture' = picture \cup {j} /\ FinalCheck(j)
     \/ UNCHANGED picture /\ Throws(j)
  /\ UNCHANGED <<plan, row, cancelling, startup, faults, crashes>>

(* The write of markSucceeded; a failure of it is not written, since the   *)
(* memory is final.                                                        *)
Finishes(j) ==
  /\ at[j] = "finish"
  /\ \/ Write(j, "succeeded") /\ UNCHANGED faults /\ Goes(j, AfterSuccess(j))
     \/ Fault /\ UNCHANGED row /\ Goes(j, "none")
  /\ UNCHANGED <<plan, cancelling, startup, picture, crashes>>

(* saveRemoteResultInBackground.                                           *)
SavesLater(j) ==
  /\ at[j] = "later save"
  /\ picture' = picture \cup {j} \/ UNCHANGED picture
  /\ Goes(j, "none")
  /\ UNCHANGED <<plan, row, cancelling, startup, faults, crashes>>

(* withJobTimeout gives up: the job fails, its function goes on.           *)
HardTimeout(j) ==
  /\ j \in slots
  /\ Release(j, at, FailedIn(mem, j), aborted \cup {j})
  /\ failing' = StillFailing(j)
  /\ UNCHANGED <<plan, row, cancelling, startup, picture, faults, crashes>>

(* The write of a failure takes effect or is lost.                         *)
FailureArrives(j) ==
  /\ j \in failing
  /\ failing' = failing \ {j}
  /\ (Write(j, "failed") /\ UNCHANGED faults) \/ (Fault /\ UNCHANGED row)
  /\ UNCHANGED <<plan, process, cancelling, startup, picture, crashes>>

-----------------------------------------------------------------------------
(* Users and restarts.                                                     *)

(* submit: the source file and the row are written before the job waits.   *)
Submit(j) ==
  /\ recovery = "done"
  /\ row[j] = "none" /\ \A i \in Jobs : i < j => row[i] # "none"
  /\ row' = [row EXCEPT ![j] = "queued"]
  /\ Enqueue(j)
  /\ UNCHANGED <<plan, cancelling, startup, picture, faults, crashes>>

(* Mutants of Cancel: the controller is left alone; the memory may be final. *)
CancelSilently(j) ==
  /\ recovery = "done" /\ row[j] \in Open /\ j \notin cancelling
  /\ cancelling' = cancelling \cup {j}
  /\ mem' = IF mem[j] \in Open THEN [mem EXCEPT ![j] = "cancelled"] ELSE mem
  /\ UNCHANGED <<plan, row, queue, active, slots, at, aborted, failing, startup, picture,
                 faults, crashes>>

CancelAnyway(j) ==
  /\ recovery = "done" /\ row[j] \in Open /\ j \notin cancelling
  /\ cancelling' = cancelling \cup {j}
  /\ mem' = [mem EXCEPT ![j] = "cancelled"]
  /\ aborted' = IF j \in slots THEN aborted \cup {j} ELSE aborted
  /\ UNCHANGED <<plan, row, queue, active, slots, at, failing, startup, picture, faults, crashes>>

(* cancelJob: the memory and the controller at once, then the row.  To     *)
(* cancel a job whose row is final changes nothing.                        *)
Cancel(j) ==
  /\ recovery = "done" /\ row[j] \in Open /\ j \notin cancelling
  /\ cancelling' = cancelling \cup {j}
  /\ IF mem[j] \in Open
     THEN /\ mem' = [mem EXCEPT ![j] = "cancelled"]
          /\ aborted' = IF j \in slots THEN aborted \cup {j} ELSE aborted
     ELSE UNCHANGED <<mem, aborted>>
  /\ UNCHANGED <<plan, row, queue, active, slots, at, failing, startup, picture, faults, crashes>>

CancelArrives(j) ==
  /\ j \in cancelling
  /\ cancelling' = cancelling \ {j}
  /\ (Write(j, "cancelled") /\ UNCHANGED faults) \/ (Fault /\ UNCHANGED row)
  /\ UNCHANGED <<plan, process, failing, startup, picture, crashes>>

(* The backend is restarted.  Writes under way are lost; that they are not *)
(* is the case of a restart after them.                                    *)
Restart ==
  /\ crashes < MaxCrashes /\ crashes' = crashes + 1
  /\ mem' = [j \in Jobs |-> "none"]
  /\ queue' = <<>> /\ active' = 0 /\ slots' = {} /\ aborted' = {}
  /\ at' = [j \in Jobs |-> "none"]
  /\ failing' = {} /\ cancelling' = {}
  /\ recovery' = "list" /\ todo' = {}
  /\ UNCHANGED <<plan, row, skipped, picture, faults>>

(* listInterruptedJobs: the oldest, as many as the queue takes.            *)
RecoveryCapacity == limits.concurrency + limits.pending

OpenRows == {j \in Jobs : row[j] \in Open}
Oldest   == {j \in OpenRows : Cardinality({i \in OpenRows : i < j}) < RecoveryCapacity}

ListRows ==
  /\ recovery = "list"
  /\ \/ /\ todo' = Oldest /\ skipped' = OpenRows \ Oldest
        /\ recovery' = IF todo' = {} THEN "done" ELSE "rows"
        /\ UNCHANGED faults
     \/ Fault /\ recovery' = "done" /\ UNCHANGED <<todo, skipped>>
  /\ UNCHANGED <<plan, row, process, failing, cancelling, picture, crashes>>

(* The next row is queued again; it fails without its source file; when    *)
(* the database fails, this row and the others are given up.               *)
RecoverRow ==
  /\ \E j \in todo :
       /\ \A i \in todo : j <= i
       /\ \/ /\ Write(j, "queued") /\ Enqueue(j)
             /\ todo' = todo \ {j} /\ UNCHANGED faults
          \/ /\ Write(j, "failed") /\ UNCHANGED <<process, failing>>
             /\ todo' = todo \ {j} /\ UNCHANGED faults
          \/ /\ Fault /\ todo' = {}
             /\ UNCHANGED <<row, process, failing>>
  /\ recovery' = IF todo' = {} THEN "done" ELSE "rows"
  /\ UNCHANGED <<plan, cancelling, skipped, picture, crashes>>

FunctionStep(j) ==
  \/ ReadsRow(j) \/ MarksRunning(j) \/ Prepares(j) \/ GpuEnds(j) \/ ImageRead(j)
  \/ Saves(j) \/ Finishes(j) \/ SavesLater(j)

Next ==
  \/ \E j \in Jobs : \/ FunctionStep(j)
                     \/ QueueTimeout(j) \/ HardTimeout(j)
                     \/ FailureArrives(j)
                     \/ Submit(j) \/ Cancel(j) \/ CancelArrives(j)
  \/ Restart \/ ListRows \/ RecoverRow

Spec == Init /\ [][Next]_vars

(***************************************************************************)
(* Timers fire, and the database answers: the GPU, the library and what a  *)
(* function does on the way are left out of it.                            *)
(***************************************************************************)
FairSpec ==
  /\ Spec
  /\ \A j \in Jobs : /\ WF_vars(QueueTimeout(j)) /\ WF_vars(HardTimeout(j))
                     /\ WF_vars(Finishes(j)) /\ WF_vars(CancelArrives(j))
                     /\ WF_vars(FailureArrives(j))
  /\ WF_vars(ListRows) /\ WF_vars(RecoverRow)

-----------------------------------------------------------------------------
(* Properties.                                                             *)

(* No more functions execute than the GPU is to be spared, although a      *)
(* timeout settles an entry whose function has not ended, and the entries  *)
(* that wait are in the queue once (image-upscale-queue-service.ts:94-110).*)
SlotsTrue ==
  /\ active = Cardinality(slots) /\ active <= limits.concurrency
  /\ \A j \in Jobs : at[j] = "queue" <=> \E i \in 1..Len(queue) : queue[i] = j
  /\ \A i, k \in 1..Len(queue) : queue[i] = queue[k] => i = k

(* A success shown to the user is one no cancellation or timeout of this   *)
(* process has overtaken, and the picture he wanted with it is saved.      *)
SuccessHonest ==
  \A j \in Jobs : row[j] = "succeeded" =>
    /\ mem[j] \in {"none", "succeeded"}
    /\ kind[j] = "sync" => j \in picture

(* The GPU is called for a job that is open, whatever cancels it or gives  *)
(* it up between the steps before the call.  The one that has ended and    *)
(* gets through was cancelled while it waited, when it had no controller   *)
(* to fire, and the write of that was under way, or lost, when its row was *)
(* read; the GPU may then work for it although the row says cancelled by   *)
(* now (image-upscale-job-service.ts:231-249, :331-340).                   *)
Turns(j, p) == at[j] # p /\ at'[j] = p

GpuSpared ==
  [][\A j \in Jobs :
       /\ Turns(j, "gpu") => mem[j] \in Open \/ at[j] = "prepare unmarked"
       /\ Turns(j, "prepare unmarked") =>
            /\ mem[j] = "cancelled" /\ row[j] \in Open
            /\ j \in cancelling \/ faults > 0]_vars

(* An open row is never left alone: the write that ends it is under way,   *)
(* the job waits or holds a place, where a timer runs, or the recovery has *)
(* it still to take up, unless the database failed or a recovery did not   *)
(* list it (image-upscale-job-service.ts, image-upscale-queue-service.ts). *)
JobAttended ==
  \A j \in Jobs : row[j] \in Open /\ faults = 0 /\ j \notin skipped =>
    \/ mem[j] \in Terminal /\ (j \in failing \cup cancelling \/ at[j] = "finish")
    \/ mem[j] \in Open /\ (at[j] = "queue" \/ j \in slots)
    \/ mem[j] = "none" /\ (recovery = "list" \/ j \in todo)

(* Every job ends, unless the database failed or more rows were open at a  *)
(* restart than the recovery takes up.                                     *)
JobEnds ==
  \A j \in Jobs : row[j] \in Open ~> (row[j] \in Terminal \/ faults > 0 \/ j \in skipped)
=============================================================================
