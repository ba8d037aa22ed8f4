---------------------------- MODULE BotDelivery ----------------------------
(***************************************************************************)
(* How the Bot hands the result of one single-image task to its user       *)
(* (bot-service: wsproxy-event-service.ts; backend: bot-generate-routes.ts)*)
(*                                                                         *)
(* Three timers may send it, each overlapping with its own earlier rounds: *)
(* the poller, which knows the conversation the task came from; the queue  *)
(* of messages no Bot was online for; and the scan of tasks that stay      *)
(* "finalizing", for a conversation the process no longer remembers.  A    *)
(* round awaits between reading, sending and confirming.  The backend      *)
(* calls the task successful only when a delivery is confirmed.            *)
(*                                                                         *)
(* The task is queued or running until the worker reports (TaskLifecycle); *)
(* its picture is saved by a request of its own, which may fail or come    *)
(* late, and the ops-worker fails what nobody will deliver.                *)
(* A scan lists tasks that have waited five minutes and an entry expires   *)
(* after thirty; how long a step takes is left open.                       *)
(***************************************************************************)
EXTENDS Naturals, FiniteSets

CONSTANTS
  Pollers,     \* rounds of the polling timer that may overlap
  Scanners,    \* rounds of recoverFinalizingDeliveries
  Drainers,    \* rounds of the queue timer
  MaxFaults,   \* bound: pushes without a Bot online, confirmations failed
  MaxCrashes   \* bound: restarts of the bot-service

ASSUME AgentsAssumption ==
  /\ IsFiniteSet(Pollers \cup Scanners \cup Drainers)
  /\ Pollers \cap Scanners = {}
  /\ Pollers \cap Drainers = {}
  /\ Scanners \cap Drainers = {}
ASSUME BoundsAssumption == MaxFaults \in Nat /\ MaxCrashes \in Nat

Agents == Pollers \cup Scanners \cup Drainers
Keys == {"task", "delivered"}
ASSUME KeysAssumption == Keys \cap Agents = {}
Kinds == {"picture", "text", "card"}
Outcomes == {"sent", "uncertain", "refused", "offline"}
Pendings == {"none", "bare", "live"}
Statuses == {"queued", "finalizing", "success", "failed"}
(* What a poller is told of a task: finalizing without a picture counts as *)
(* a status of its own.                                                    *)
Views == Statuses \cup {"pictureless"}
ShownCap == 2
NoLoad == [key |-> "task", kind |-> "text"]

VARIABLES
  status,     \* backend: generation_tasks.status
  picture,    \* backend: task_image_<id> is saved
  repair,     \* backend: a repair has found the task stale and will fail it
  pending,    \* pendingTasks: absent, without its event, or whole
  inFlight,   \* finalNotifyInFlight of the entry
  queued,     \* finalNotifyQueued of the entry
  file,       \* PENDING_TASK_FILE
  restoring,  \* progress of recoverPendingTasksOnStartup
  acks,       \* the task is in deliveredAckQueue
  recovering, \* the task is in finalizingFallbackInFlight
  item,       \* asyncActionQueue, by de-duplication key
  held,       \* queuedFinalResultKeys
  at,         \* what each round is awaiting
  seen,       \* what each poller was told
  load,       \* the message each drainer carries
  shown,      \* history: pictures the user has received, up to ShownCap
  answered,   \* history: the user may have the result, or no text reaches him
  scanned,    \* history: a scan has sent something
  faults,     \* pushes and confirmations that failed so far
  crashes     \* restarts so far

task == <<status, picture, repair>>
entry == <<pending, inFlight, queued, file>>
queue == <<item, held, load>>
history == <<shown, answered>>
rounds == <<at, seen>>
vars == <<task, entry, restoring, acks, recovering, queue, rounds,
          history, scanned, faults, crashes>>

TypeOK ==
  /\ status \in Statuses /\ picture \in BOOLEAN /\ repair \in BOOLEAN
  /\ pending \in Pendings
  /\ inFlight \in BOOLEAN /\ queued \in BOOLEAN
  /\ pending # "live" => inFlight = FALSE /\ queued = FALSE
  /\ file \in Pendings
  /\ restoring \in {"asking", "found", "done"}
  /\ acks \in BOOLEAN
  /\ recovering \in BOOLEAN
  /\ item \in [Keys -> Kinds \cup {"none"}]
  /\ held \in SUBSET Keys
  /\ at \in [Agents -> {"idle", "read", "push", "text", "tell", "settle"}]
  /\ seen \in [Pollers -> Views]
  /\ load \in [Drainers -> [key : Keys, kind : Kinds]]
  /\ shown \in 0..ShownCap
  /\ answered \in BOOLEAN
  /\ scanned \in BOOLEAN
  /\ faults \in 0..MaxFaults
  /\ crashes \in 0..MaxCrashes

Init ==
  /\ status = "queued" /\ picture = FALSE /\ repair = FALSE
  /\ pending = "live" /\ file = "live"
  /\ inFlight = FALSE /\ queued = FALSE
  /\ restoring = "done"
  /\ acks = FALSE
  /\ recovering = FALSE
  /\ item = [k \in Keys |-> "none"]
  /\ held = {}
  /\ at = [a \in Agents |-> "idle"]
  /\ seen = [p \in Pollers |-> "queued"]
  /\ load = [d \in Drainers |-> NoLoad]
  /\ shown = 0
  /\ answered = FALSE
  /\ scanned = FALSE
  /\ faults = 0
  /\ crashes = 0

-----------------------------------------------------------------------------
(* Effects shared by the rounds.                                           *)

(* A round goes on to place p.                                             *)
Goes(a, p) == at' = [at EXCEPT ![a] = p]

(* A round of the poller that ends forgets what it has read.               *)
Remembers(p) == seen' = IF at'[p] = "idle" THEN [seen EXCEPT ![p] = "queued"] ELSE seen

(* A bounded failure.                                                      *)
Fails == faults < MaxFaults /\ faults' = faults + 1

AnotherShown == IF shown < ShownCap THEN shown + 1 ELSE shown

(* A push of a message of this kind ends with outcome o.  Without a Bot    *)
(* online nothing was written; after a timeout the user may have it.       *)
Pushed(o, kind) ==
  /\ IF o = "offline" THEN Fails ELSE UNCHANGED faults
  /\ answered' = (answered \/ o \in {"sent", "uncertain"} \/ (o = "refused" /\ kind = "text"))
  /\ IF kind # "picture" \/ o \in {"refused", "offline"}
     THEN shown' = shown
     ELSE shown' = AnotherShown \/ (o = "uncertain" /\ shown' = shown)

(* The message waits for a Bot, unless one with its key is waiting.        *)
PushToQueue(key, kind) ==
  /\ item' = IF key \in held THEN item ELSE [item EXCEPT ![key] = kind]
  /\ held' = held \cup {key}
  /\ UNCHANGED load

(* The entry is deleted, and the file rewritten.                           *)
DropEntry ==
  /\ pending' = "none" /\ file' = "none"
  /\ inFlight' = FALSE /\ queued' = FALSE

(* Mutant of LeavesToQueue: the round does not give the entry back.        *)
LeavesInFlight ==
  /\ queued' = (pending = "live")
  /\ file' = pending
  /\ UNCHANGED <<pending, inFlight>>

(* The poller leaves the entry to the queue; it may have expired.          *)
LeavesToQueue ==
  /\ queued' = (pending = "live")
  /\ inFlight' = FALSE
  /\ file' = pending
  /\ UNCHANGED pending

(* notifyBotTaskDelivered: up to three requests, which the backend may     *)
(* execute, see MarkDelivered, although no answer arrives, and refuses for *)
(* a task that has failed.                                                 *)
Confirms(ok) ==
  IF ok
  THEN status = "success" /\ UNCHANGED <<acks, faults>>
  ELSE acks' = TRUE /\ IF status = "failed" THEN UNCHANGED faults ELSE Fails

(* Rounds that wait for the answer.                                        *)
Telling(a) == at[a] \in {"tell", "settle"}

-----------------------------------------------------------------------------
(* The worker and the ops-worker, as TaskLifecycle describes them.         *)

(* The worker reports its picture and then, whether or not that was        *)
(* answered, the task as finalizing.                                       *)
WorkerFinalizes ==
  /\ status = "queued" /\ status' = "finalizing"
  /\ picture' \in BOOLEAN
  /\ UNCHANGED <<repair, entry, restoring, acks, recovering, queue, rounds, history,
                 scanned, faults, crashes>>

(* The report of the picture is executed late.                             *)
PictureArrives ==
  /\ status # "queued" /\ ~picture
  /\ picture' = TRUE
  /\ UNCHANGED <<status, repair, entry, restoring, acks, recovering, queue, rounds,
                 history, scanned, faults, crashes>>

WorkerFails ==
  /\ status = "queued" /\ status' = "failed"
  /\ UNCHANGED <<picture, repair, entry, restoring, acks, recovering, queue, rounds,
                 history, scanned, faults, crashes>>

(* repairStaleTask reads a task that waits too long; one with a picture to *)
(* deliver is left to the Bot.                                             *)
RepairReads ==
  /\ ~repair
  /\ status = "queued" \/ (status = "finalizing" /\ ~picture)
  /\ repair' = TRUE
  /\ UNCHANGED <<status, picture, entry, restoring, acks, recovering, queue, rounds,
                 history, scanned, faults, crashes>>

(* It fails the task it has read, unless that has ended.                   *)
RepairFails ==
  /\ repair /\ repair' = FALSE
  /\ status' = IF status \in {"success", "failed"} THEN status ELSE "failed"
  /\ UNCHANGED <<picture, entry, restoring, acks, recovering, queue, rounds, history,
                 scanned, faults, crashes>>

-----------------------------------------------------------------------------
(* The poller.                                                             *)

(* The states of the pending tasks are fetched.                            *)
PollReads(p) ==
  /\ at[p] = "idle"
  /\ pending # "none"
  /\ status # "queued"
  /\ Goes(p, "read")
  /\ seen' = [seen EXCEPT ![p] = IF status = "finalizing" /\ ~picture
                                 THEN "pictureless" ELSE status]
  /\ UNCHANGED <<task, entry, restoring, acks, recovering, queue, history,
                 scanned, faults, crashes>>

(* Mutant of Takes: what is in the queue is sent as well.                  *)
TakesQueued == pending = "live" /\ ~inFlight

(* Whether this round takes the entry: no other one, nor the queue, has.   *)
Takes == pending = "live" /\ ~queued /\ ~inFlight

(* The entry found has gone, cannot be answered, or has a sender.  One     *)
(* without its event is deleted, or left while the task is finalizing to   *)
(* a scan (which is started here, as it may be at any time).               *)
PollSkips(p) ==
  /\ at[p] = "read"
  /\ ~Takes
  /\ Goes(p, "idle")
  /\ IF pending = "bare" /\ seen[p] \notin {"finalizing", "pictureless"}
     THEN DropEntry ELSE UNCHANGED entry
  /\ Remembers(p)
  /\ UNCHANGED <<task, restoring, acks, recovering, queue, history, scanned,
                 faults, crashes>>

PollBegins(p) ==
  /\ at[p] = "read"
  /\ Takes
  /\ inFlight' = TRUE
  /\ Goes(p, "push")
  /\ UNCHANGED <<task, pending, queued, file, restoring, acks, recovering,
                 queue, seen, history, scanned, faults, crashes>>

(* Without a picture there is nothing to send: the entry is given back.    *)
PollGivesBack(p) ==
  /\ at[p] = "push"
  /\ seen[p] = "pictureless"
  /\ inFlight' = FALSE
  /\ Goes(p, "idle")
  /\ Remembers(p)
  /\ UNCHANGED <<task, pending, queued, file, restoring, acks, recovering, queue,
                 history, scanned, faults, crashes>>

(* The key under which the poller queues the result.                       *)
PollKey(p) == IF seen[p] = "finalizing" THEN "delivered" ELSE "task"

(* The protocol end has the result: it is confirmed, if it has to be.      *)
PollAnswered(p) ==
  IF seen[p] = "finalizing"
  THEN Goes(p, "tell") /\ UNCHANGED entry
  ELSE Goes(p, "idle") /\ DropEntry

(* The picture: queued when no Bot is online, a text when refused.         *)
PollSends(p) ==
  /\ at[p] = "push"
  /\ seen[p] \notin {"failed", "pictureless"}
  /\ \E o \in Outcomes :
       /\ Pushed(o, "picture")
       /\ CASE o = "offline" -> /\ PushToQueue(PollKey(p), "picture")
                                /\ LeavesToQueue
                                /\ Goes(p, "idle")
            [] o = "refused" -> Goes(p, "text") /\ UNCHANGED <<entry, queue>>
            [] OTHER -> PollAnswered(p) /\ UNCHANGED queue
  /\ Remembers(p)
  /\ UNCHANGED <<task, restoring, acks, recovering, scanned, crashes>>

PollTexts(p) ==
  /\ at[p] = "text"
  /\ \E o \in Outcomes :
       /\ Pushed(o, "text")
       /\ IF o = "offline"
          THEN /\ PushToQueue(PollKey(p), "text")
               /\ LeavesToQueue
               /\ Goes(p, "idle")
          ELSE PollAnswered(p) /\ UNCHANGED queue
  /\ Remembers(p)
  /\ UNCHANGED <<task, restoring, acks, recovering, scanned, crashes>>

(* Mutant of PollTells: an entry that could not be confirmed is kept.      *)
PollTellsAgain(p) ==
  /\ at[p] = "tell"
  /\ \E ok \in BOOLEAN :
       /\ Confirms(ok)
       /\ IF ok THEN DropEntry ELSE inFlight' = FALSE /\ UNCHANGED <<pending, queued, file>>
  /\ Goes(p, "idle")
  /\ Remembers(p)
  /\ UNCHANGED <<task, restoring, recovering, queue, history, scanned, crashes>>

PollTells(p) ==
  /\ at[p] = "tell"
  /\ \E ok \in BOOLEAN : Confirms(ok)
  /\ DropEntry
  /\ Goes(p, "idle")
  /\ Remembers(p)
  /\ UNCHANGED <<task, restoring, recovering, queue, history, scanned, crashes>>

(* The failure, as a card, or as a text when it could not be rendered.     *)
PollSendsFailure(p) ==
  /\ at[p] = "push"
  /\ seen[p] = "failed"
  /\ \E o \in Outcomes, kind \in {"card", "text"} :
       /\ Pushed(o, kind)
       /\ IF o \in {"offline", "refused"}
          THEN PushToQueue("task", kind) /\ LeavesToQueue
          ELSE DropEntry /\ UNCHANGED queue
  /\ Goes(p, "idle")
  /\ Remembers(p)
  /\ UNCHANGED <<task, restoring, acks, recovering, scanned, crashes>>

-----------------------------------------------------------------------------
(* The queue.                                                              *)

(* A round takes the waiting message; its key stays reserved.              *)
DrainTakes(d) ==
  /\ at[d] = "idle"
  /\ \E k \in Keys :
       /\ item[k] # "none"
       /\ load' = [load EXCEPT ![d] = [key |-> k, kind |-> item[k]]]
       /\ item' = [item EXCEPT ![k] = "none"]
  /\ Goes(d, "push")
  /\ UNCHANGED <<task, entry, restoring, acks, recovering, held, seen, history,
                 scanned, faults, crashes>>

LetsGo(d) == load' = [load EXCEPT ![d] = NoLoad]

(* The message goes back to wait.                                          *)
DrainReturns(d) ==
  /\ item' = [item EXCEPT ![load[d].key] = load[d].kind]
  /\ LetsGo(d)
  /\ Goes(d, "idle")
  /\ UNCHANGED <<entry, held>>

(* The message is done with, and its key given back.                       *)
Releases(d) == held' = held \ {load[d].key} /\ LetsGo(d) /\ UNCHANGED item

(* Mutant of DrainAnswered: the key is not given back.                     *)
DrainAnsweredKeeps(d) ==
  IF load[d].key = "delivered"
  THEN Goes(d, "settle") /\ UNCHANGED <<entry, queue>>
  ELSE LetsGo(d) /\ UNCHANGED <<held, item>> /\ DropEntry /\ Goes(d, "idle")

(* A result still to be confirmed keeps its key until then.                *)
DrainAnswered(d) ==
  IF load[d].key = "delivered"
  THEN Goes(d, "settle") /\ UNCHANGED <<entry, queue>>
  ELSE Releases(d) /\ DropEntry /\ Goes(d, "idle")

DrainSends(d) ==
  /\ at[d] = "push"
  /\ \E o \in Outcomes :
       /\ Pushed(o, load[d].kind)
       /\ CASE o = "offline" -> DrainReturns(d)
            [] o = "sent" ->
                 /\ Releases(d)
                 /\ IF load[d].key = "delivered"
                    THEN Goes(d, "tell") /\ UNCHANGED entry
                    ELSE Goes(d, "idle") /\ DropEntry
            [] o = "uncertain" /\ load[d].key = "delivered" -> DrainAnswered(d)
            [] OTHER -> IF load[d].kind = "card"   \* nothing to say in a text
                        THEN DrainAnswered(d)
                        ELSE Goes(d, "text") /\ UNCHANGED <<entry, queue>>
  /\ UNCHANGED <<task, restoring, acks, recovering, seen, scanned, crashes>>

DrainTexts(d) ==
  /\ at[d] = "text"
  /\ \E o \in Outcomes :
       /\ Pushed(o, "text")
       /\ IF o = "offline" THEN DrainReturns(d) ELSE DrainAnswered(d)
  /\ UNCHANGED <<task, restoring, acks, recovering, seen, scanned, crashes>>

DrainTells(d) ==
  /\ at[d] \in {"tell", "settle"}
  /\ \E ok \in BOOLEAN : Confirms(ok)
  /\ DropEntry
  /\ IF at[d] = "settle" THEN Releases(d) ELSE UNCHANGED queue
  /\ Goes(d, "idle")
  /\ UNCHANGED <<task, restoring, recovering, seen, history, scanned, crashes>>

-----------------------------------------------------------------------------
(* The scan.                                                               *)

(* The backend lists finalizing tasks that have a picture.                 *)
ScanReads(s) ==
  /\ at[s] = "idle"
  /\ status = "finalizing" /\ picture
  /\ Goes(s, "read")
  /\ UNCHANGED <<task, entry, restoring, acks, recovering, queue, seen, history,
                 scanned, faults, crashes>>

(* What keeps the scan from sending: another scan, the poller, a delivery  *)
(* whose confirmation is all that is missing.                              *)
Spoken == recovering \/ pending # "none" \/ acks

(* In the last case the confirmation is requested once more, which         *)
(* MarkDelivered allows at any time while acks holds.                      *)
ScanSkips(s) ==
  /\ at[s] = "read"
  /\ Spoken
  /\ Goes(s, "idle")
  /\ UNCHANGED <<task, entry, restoring, acks, recovering, queue, seen, history,
                 scanned, faults, crashes>>

ScanBegins(s) ==
  /\ at[s] = "read"
  /\ ~Spoken
  /\ recovering' = TRUE
  /\ scanned' = TRUE
  /\ Goes(s, "push")
  /\ UNCHANGED <<task, entry, restoring, acks, queue, seen, history, faults,
                 crashes>>

ScanSends(s) ==
  /\ at[s] = "push"
  /\ \E o \in Outcomes :
       /\ Pushed(o, "picture")
       /\ CASE o = "offline" -> /\ PushToQueue("delivered", "picture")
                                /\ recovering' = FALSE
                                /\ Goes(s, "idle")
            [] o = "refused" -> Goes(s, "text") /\ UNCHANGED <<recovering, queue>>
            [] OTHER -> Goes(s, "tell") /\ UNCHANGED <<recovering, queue>>
  /\ UNCHANGED <<task, entry, restoring, acks, seen, scanned, crashes>>

(* Mutant of ScanTexts: the text counts as received in any case.           *)
ScanTextsAnyhow(s) ==
  /\ at[s] = "text"
  /\ \E o \in Outcomes : Pushed(o, "text")
  /\ Goes(s, "tell")
  /\ UNCHANGED <<task, entry, queue, restoring, acks, recovering, seen, scanned, crashes>>

(* A refused text is final when the user is not a friend of the Bot.       *)
ScanTexts(s) ==
  /\ at[s] = "text"
  /\ \E o \in Outcomes :
       /\ Pushed(o, "text")
       /\ \/ /\ o # "offline"
             /\ Goes(s, "tell")
             /\ UNCHANGED <<recovering, queue>>
          \/ /\ o \in {"refused", "offline"}
             /\ PushToQueue("delivered", "text")
             /\ recovering' = FALSE
             /\ Goes(s, "idle")
  /\ UNCHANGED <<task, entry, restoring, acks, seen, scanned, crashes>>

ScanTells(s) ==
  /\ at[s] = "tell"
  /\ \E ok \in BOOLEAN :
       /\ Confirms(ok)
       /\ IF ok THEN DropEntry
          ELSE file' = pending /\ UNCHANGED <<pending, inFlight, queued>>
  /\ recovering' = FALSE
  /\ Goes(s, "idle")
  /\ UNCHANGED <<task, restoring, queue, seen, history, scanned, crashes>>

-----------------------------------------------------------------------------
(* The other timers, and the restart.                                      *)

(* The backend executes a confirmation a round or the timer waits for:     *)
(* markBotTaskDelivered, once only.                                        *)
MarkDelivered ==
  /\ picture
  /\ acks \/ \E a \in Agents : Telling(a)
  /\ status \notin {"failed", "success"}
  /\ status' = "success"
  /\ UNCHANGED <<picture, repair, entry, restoring, acks, recovering, queue, rounds, history,
                 scanned, faults, crashes>>

(* The timer of the confirmations that failed gets its answer.             *)
AckRetries ==
  /\ acks
  /\ status = "success"
  /\ acks' = FALSE
  /\ UNCHANGED <<task, entry, restoring, recovering, queue, rounds, history,
                 scanned, faults, crashes>>


(* TASK_MAX_WAIT_MS after its creation the entry goes, whatever its state. *)
Expires ==
  /\ pending # "none"
  /\ DropEntry
  /\ UNCHANGED <<task, restoring, acks, recovering, queue, rounds, history,
                 scanned, faults, crashes>>

(* The process stops and starts again: what a round had handed over may    *)
(* still have its effect; an entry in the file may be too old.             *)
Carried(a) ==
  /\ at[a] = "push"
  /\ a \in Pollers => seen[a] \notin {"failed", "pictureless"}
  /\ a \in Drainers => load[a].kind = "picture"

Crash ==
  /\ crashes < MaxCrashes /\ crashes' = crashes + 1
  /\ shown' \in {n \in shown..ShownCap :
                   n <= shown + Cardinality({a \in Agents : Carried(a)})}
  /\ answered' \in {answered, answered \/ \E a \in Agents :
                     /\ at[a] \in {"push", "text"}
                     /\ a \in Pollers => seen[a] # "pictureless"}
  /\ status' \in IF status # "failed" /\ \E a \in Agents : Telling(a)
                 THEN {status, "success"} ELSE {status}
  /\ pending' \in {file, "none"} /\ inFlight' = FALSE /\ queued' = FALSE
  /\ restoring' = "asking"
  /\ acks' = FALSE
  /\ recovering' = FALSE
  /\ item' = [k \in Keys |-> "none"]
  /\ held' = {}
  /\ at' = [a \in Agents |-> "idle"]
  /\ seen' = [p \in Pollers |-> "queued"]
  /\ load' = [d \in Drainers |-> NoLoad]
  /\ UNCHANGED <<picture, repair, file, scanned, faults>>

(* The tasks the workers have not started are fetched ...                  *)
RestoreReads ==
  /\ restoring = "asking"
  /\ restoring' = "done" \/ (status = "queued" /\ restoring' = "found")
  /\ UNCHANGED <<task, entry, acks, recovering, queue, rounds, history, scanned,
                 faults, crashes>>

(* ... and polled without their event, if the file did not have them.      *)
RestoreSets ==
  /\ restoring = "found"
  /\ restoring' = "done"
  /\ pending' = IF pending = "none" THEN "bare" ELSE pending
  /\ UNCHANGED <<task, inFlight, queued, file, acks, recovering, queue, rounds,
                 history, scanned, faults, crashes>>

-----------------------------------------------------------------------------
BackendStep ==
  \/ WorkerFinalizes \/ PictureArrives \/ WorkerFails
  \/ RepairReads \/ RepairFails

PollerStep(p) ==
  \/ PollReads(p) \/ PollSkips(p) \/ PollBegins(p) \/ PollGivesBack(p)
  \/ PollSends(p) \/ PollTexts(p) \/ PollTells(p) \/ PollSendsFailure(p)

DrainerStep(d) ==
  DrainTakes(d) \/ DrainSends(d) \/ DrainTexts(d) \/ DrainTells(d)

ScannerStep(s) ==
  \/ ScanReads(s) \/ ScanSkips(s) \/ ScanBegins(s)
  \/ ScanSends(s) \/ ScanTexts(s) \/ ScanTells(s)

Next ==
  \/ BackendStep
  \/ \E p \in Pollers : PollerStep(p)
  \/ \E d \in Drainers : DrainerStep(d)
  \/ \E s \in Scanners : ScannerStep(s)
  \/ MarkDelivered
  \/ AckRetries
  \/ Expires
  \/ Crash
  \/ RestoreReads
  \/ RestoreSets

Spec == Init /\ [][Next]_vars

(* Every timer goes on, that of the ops-worker included, and an await ends *)
(* (each has a timeout).                                                   *)
FairSpec ==
  /\ Spec
  /\ WF_vars(RepairReads) /\ WF_vars(RepairFails)
  /\ \A p \in Pollers : WF_vars(PollerStep(p))
  /\ \A d \in Drainers : WF_vars(DrainerStep(d))
  /\ \A s \in Scanners : WF_vars(ScannerStep(s))
  /\ WF_vars(MarkDelivered)
  /\ WF_vars(AckRetries)
  /\ WF_vars(Expires)
  /\ WF_vars(RestoreReads)
  /\ WF_vars(RestoreSets)

-----------------------------------------------------------------------------
Sending(a) == at[a] \notin {"idle", "read"}

(* Those who have the result in hand: rounds, and the queue.               *)
Senders == {a \in Agents : Sending(a)} \cup {k \in Keys : item[k] # "none"}

(* As long as the process knows the conversation of a task, the result is  *)
(* in one hand: the flags of the entry keep out the other rounds of the    *)
(* poller and the queue, and its presence the scans                        *)
(* (wsproxy-event-service.ts:1432-1435, :775).                             *)
OneSender == pending = "live" => \A x, y \in Senders : x = y

(* A round of the queue that still holds the key of its message.           *)
Holding(d) == at[d] \in {"push", "text", "settle"}

(* The keys reserved are those of the messages that wait or are being      *)
(* sent: none is kept for ever, which would drop every later message of    *)
(* the task, none given back early (releaseQueuedActionGuards, :567-572).  *)
KeysHeld ==
  held = {k \in Keys : item[k] # "none"} \cup {load[d].key : d \in {x \in Drainers : Holding(x)}}

(* A flag that keeps others out has somebody behind it: a round of the     *)
(* poller that sends, a message that waits or is being sent, a scan that   *)
(* sends.  One left behind would silence the task until its entry expires, *)
(* or, that of the scan, for ever (:1435, :1652, :786, :912).              *)
FlagsHeld ==
  /\ inFlight => \E p \in Pollers : Sending(p)
  /\ queued => \E x \in Drainers \cup Keys : x \in Senders
  /\ recovering => \E s \in Scanners : Sending(s)

(* The backend calls the task successful only when the picture or the text *)
(* about it was delivered, may have been, or even the text was refused: a  *)
(* push no Bot was online for never counts.                                *)
SuccessAnswered == status = "success" => answered

(* Unless a scan had to take over, or the process was restarted, the user  *)
(* gets the picture at most once, however rounds overlap, pushes time out  *)
(* and confirmations fail.                                                 *)
PictureOnce == ~scanned /\ crashes = 0 => shown <= 1

=============================================================================
