--------------------------- MODULE SiteSelection ---------------------------
(***************************************************************************)
(* How the drawing workers choose an upstream site for a task, and the     *)
(* quota of calls a site may start in one minute (drawing-worker:          *)
(* site-selection-service.ts, redis-client.ts, the counter built in        *)
(* drawing-worker-loop.ts, retry-orchestrator.ts).                         *)
(*                                                                         *)
(* Several processes share the counters in Redis, one per site and minute. *)
(* A selection first reads the counters of all sites without holding       *)
(* anything, then increments the counter of its choice and takes the       *)
(* increment back, in a second command, when it went past the limit.  Any  *)
(* command may fail, executed or not, or be sent twice by the client when  *)
(* the connection closes before the answer; the process then counts in its *)
(* own memory.                                                             *)
(*                                                                         *)
(* The tasks here are already claimed and running (TaskLifecycle) and the  *)
(* sites are those that suit them.                                         *)
(***************************************************************************)
EXTENDS Integers, FiniteSets

CONSTANTS
  Processes,    \* the worker processes
  Tasks,        \* the tasks being executed
  Owner,        \* the process executing each task
  Sites,        \* the enabled sites that suit the tasks
  Allowed,      \* calls a site may start in a minute, 0 for no limit
  Scopes,       \* the values DRAWING_RETRY_SCOPE may have
  MaxAttempts,  \* attempts of a task
  SiteRetries,  \* further requests to the same site in one attempt
  MaxMinutes,   \* bound: minutes the clock goes through
  MaxFaults     \* bound: Redis commands that fail or are repeated

ASSUME TasksAssumption == IsFiniteSet(Tasks)
ASSUME OwnerAssumption == Owner \in [Tasks -> Processes]
ASSUME AllowedAssumption == Allowed \in [Sites -> Nat]
ASSUME BoundsAssumption ==
  /\ MaxAttempts \in Nat \ {0}
  /\ SiteRetries \in Nat
  /\ MaxMinutes \in Nat
  /\ MaxFaults \in Nat
ASSUME ScopesAssumption == Scopes \subseteq {"single_site", "all_enabled"}

Minutes == 0..MaxMinutes
Slots == Sites \X Minutes
NoSite == "none"
ASSUME NoSiteAssumption == NoSite \notin Sites

VARIABLES
  scope,      \* the configured retry scope
  minute,     \* the clock
  count,      \* Redis: worker:site:<id>:minute:<bucket>
  memory,     \* minuteCounters of each process
  pc,         \* where the execution of each task is
  attempt,    \* attemptNo
  retryNo,    \* requests repeated in this attempt
  excluded,   \* excludedSiteIds
  locked,     \* lockedSingleSiteId
  todo,       \* sites the selection has still to look at
  primary,    \* primaryCandidates still to be tried
  fallback,   \* fallbackCandidates still to be tried
  began,      \* minute in which the selection began
  slot,       \* counter of the current acquisition or call
  admitted,   \* history: acquisitions Redis granted
  overUndone, \* history: increments taken back twice
  faults      \* commands that failed or were repeated so far

shared == <<count, memory, admitted, overUndone, faults>>
selection == <<todo, primary, fallback, began, slot>>
progress == <<attempt, retryNo, excluded, locked>>
vars == <<scope, minute, pc, shared, selection, progress>>

Places == {"check", "select", "undo", "call", "done"}

TypeOK ==
  /\ scope \in Scopes
  /\ minute \in Minutes
  /\ count \in [Slots -> Int]
  /\ memory \in [Processes -> [Slots -> Nat]]
  /\ pc \in [Tasks -> Places]
  /\ attempt \in [Tasks -> 1..MaxAttempts]
  /\ retryNo \in [Tasks -> 0..SiteRetries]
  /\ excluded \in [Tasks -> SUBSET Sites]
  /\ locked \in [Tasks -> Sites \cup {NoSite}]
  /\ todo \in [Tasks -> SUBSET Sites]
  /\ primary \in [Tasks -> SUBSET Sites]
  /\ fallback \in [Tasks -> SUBSET Sites]
  /\ began \in [Tasks -> Minutes]
  /\ slot \in [Tasks -> (Sites \cup {NoSite}) \X Minutes]
  /\ \A t \in Tasks : pc[t] \in {"undo", "call"} => slot[t] \in Slots
  /\ admitted \in [Slots -> Nat]
  /\ overUndone \in [Slots -> Nat]
  /\ faults \in 0..MaxFaults

Init ==
  /\ scope \in Scopes
  /\ minute = 0
  /\ count = [x \in Slots |-> 0]
  /\ memory = [p \in Processes |-> [x \in Slots |-> 0]]
  /\ pc = [t \in Tasks |-> "check"]
  /\ attempt = [t \in Tasks |-> 1]
  /\ retryNo = [t \in Tasks |-> 0]
  /\ excluded = [t \in Tasks |-> {}]
  /\ locked = [t \in Tasks |-> NoSite]
  /\ todo = [t \in Tasks |-> {}]
  /\ primary = [t \in Tasks |-> {}]
  /\ fallback = [t \in Tasks |-> {}]
  /\ began = [t \in Tasks |-> 0]
  /\ slot = [t \in Tasks |-> <<NoSite, 0>>]
  /\ admitted = [x \in Slots |-> 0]
  /\ overUndone = [x \in Slots |-> 0]
  /\ faults = 0

Goto(t, place) == pc' = [pc EXCEPT ![t] = place]
Fault == faults < MaxFaults /\ faults' = faults + 1

(* Leaving selectCandidates: its variables are gone. *)
ForgetCandidates(t) ==
  /\ todo' = [todo EXCEPT ![t] = {}]
  /\ primary' = [primary EXCEPT ![t] = {}]
  /\ fallback' = [fallback EXCEPT ![t] = {}]
  /\ began' = [began EXCEPT ![t] = 0]

(* Leaving execute, with a result or without. *)
Finish(t) ==
  /\ Goto(t, "done")
  /\ ForgetCandidates(t)
  /\ slot' = [slot EXCEPT ![t] = <<NoSite, 0>>]
  /\ attempt' = [attempt EXCEPT ![t] = 1]
  /\ retryNo' = [retryNo EXCEPT ![t] = 0]
  /\ excluded' = [excluded EXCEPT ![t] = {}]
  /\ locked' = [locked EXCEPT ![t] = NoSite]
  /\ UNCHANGED <<scope, minute, shared>>

----------------------------------------------------------------------------
(* The beginning of an attempt *)

(* The task was ended from outside: the loop stops. *)
Terminated(t) ==
  /\ pc[t] = "check"
  /\ Finish(t)

(* Once locked, a single_site task offers only its first site. *)
Selectable(t) ==
  IF scope = "single_site" /\ locked[t] # NoSite THEN {locked[t]} ELSE Sites

BeginSelection(t) ==
  /\ pc[t] = "check"
  /\ Goto(t, "select")
  /\ todo' = [todo EXCEPT ![t] = Selectable(t)]
  /\ primary' = [primary EXCEPT ![t] = {}]
  /\ fallback' = [fallback EXCEPT ![t] = {}]
  /\ began' = [began EXCEPT ![t] = minute]
  /\ UNCHANGED <<scope, minute, slot, shared, progress>>

----------------------------------------------------------------------------
(* selectCandidates: reading the counters *)

(* The number the selection reads: Redis under the current minute, or the
   process's own counter under the minute the selection began in. *)
Read(t, s, n) ==
  \/ n = count[<<s, minute>>] /\ UNCHANGED faults
  \/ n = memory[Owner[t]][<<s, began[t]>>] /\ Fault

HasRoom(s, n) == Allowed[s] = 0 \/ n < Allowed[s]

Look(t) ==
  /\ pc[t] = "select"
  /\ \E s \in todo[t] :
       /\ todo' = [todo EXCEPT ![t] = @ \ {s}]
       /\ \E n \in {count[<<s, minute>>], memory[Owner[t]][<<s, began[t]>>]} :
            /\ Read(t, s, n)
            /\ LET seen == IF HasRoom(s, n) THEN {s} ELSE {} IN
               /\ primary' = [primary EXCEPT ![t] = @ \cup (seen \ excluded[t])]
               /\ fallback' = [fallback EXCEPT ![t] = @ \cup (seen \cap excluded[t])]
  /\ UNCHANGED <<scope, minute, pc, began, slot, count, memory, admitted,
                 overUndone, progress>>

----------------------------------------------------------------------------
(* selectCandidates: acquiring the choice *)

(* Mutant of Candidates: a site that failed is as good as any. *)
CandidatesMixed(t) == primary[t] \cup fallback[t]

(* Sites the task already failed on come after all the others. *)
Candidates(t) == IF primary[t] # {} THEN primary[t] ELSE fallback[t]

(* updateTaskStatus(failed): no site left to try. *)
NoCandidate(t) ==
  /\ pc[t] = "select"
  /\ todo[t] = {}
  /\ Candidates(t) = {}
  /\ Finish(t)

(* The site is chosen; a single_site task is locked to its first choice. *)
Choose(t, s, m) ==
  /\ Goto(t, "call")
  /\ slot' = [slot EXCEPT ![t] = <<s, m>>]
  /\ locked' = [locked EXCEPT ![t] =
                  IF scope = "single_site" /\ @ = NoSite THEN s ELSE @]
  /\ retryNo' = [retryNo EXCEPT ![t] = 0]
  /\ ForgetCandidates(t)
  /\ UNCHANGED <<scope, minute, attempt, excluded>>

(* The site is refused: the selection goes on with the next candidate. *)
Refuse(t, s) ==
  /\ Goto(t, "select")
  /\ primary' = [primary EXCEPT ![t] = @ \ {s}]
  /\ fallback' = [fallback EXCEPT ![t] = @ \ {s}]
  /\ slot' = [slot EXCEPT ![t] = <<NoSite, 0>>]
  /\ UNCHANGED <<scope, minute, todo, began, progress>>

(* A site without limit is not counted. *)
TakeUnlimited(t) ==
  /\ pc[t] = "select"
  /\ todo[t] = {}
  /\ \E s \in Candidates(t) : Allowed[s] = 0 /\ Choose(t, s, minute)
  /\ UNCHANGED shared

(* Counting in the memory of the process, when Redis did not answer. *)
TakeInMemory(t, s) ==
  LET mine == memory[Owner[t]][<<s, began[t]>>] + 1 IN
  \/ /\ mine > Allowed[s]
     /\ Refuse(t, s)
     /\ UNCHANGED memory
  \/ /\ mine <= Allowed[s]
     /\ memory' = [memory EXCEPT ![Owner[t]][<<s, began[t]>>] = mine]
     /\ Choose(t, s, minute)

(* Mutant of Granted: the site starts one call too many. *)
GrantedOneMore(s, n) == n <= Allowed[s] + 1

Granted(s, n) == n <= Allowed[s]

(* INCR, answered.  A command sent twice answers with the second result. *)
Take(t) ==
  /\ pc[t] = "select"
  /\ todo[t] = {}
  /\ \E s \in Candidates(t), sent \in {1, 2} :
       LET here == <<s, minute>>
           n == count[here] + sent IN
       /\ Allowed[s] > 0
       /\ IF sent = 1 THEN UNCHANGED faults ELSE Fault
       /\ count' = [count EXCEPT ![here] = n]
       /\ \/ /\ Granted(s, n)
             /\ admitted' = [admitted EXCEPT ![here] = @ + 1]
             /\ Choose(t, s, minute)
          \/ /\ ~Granted(s, n)
             /\ Goto(t, "undo")
             /\ slot' = [slot EXCEPT ![t] = here]
             /\ UNCHANGED <<scope, minute, admitted, todo, primary, fallback,
                            began, progress>>
  /\ UNCHANGED <<memory, overUndone>>

(* INCR (or the EXPIRE behind it) failed, whatever Redis executed of it. *)
TakeUnanswered(t) ==
  /\ pc[t] = "select"
  /\ todo[t] = {}
  /\ Fault
  /\ \E s \in Candidates(t), executed \in 0..2 :
       /\ Allowed[s] > 0
       /\ count' = [count EXCEPT ![<<s, minute>>] = @ + executed]
       /\ TakeInMemory(t, s)
  /\ UNCHANGED <<admitted, overUndone>>

(* DECR executed a number of times; the second time it takes back an
   increment that is not the task's own. *)
TakeBack(t, executed) ==
  /\ count' = [count EXCEPT ![slot[t]] = @ - executed]
  /\ overUndone' = [overUndone EXCEPT ![slot[t]] =
                      IF executed = 2 THEN @ + 1 ELSE @]

(* Mutant of Undo: a refused acquisition keeps its increment. *)
UndoForgotten(t) ==
  /\ pc[t] = "undo"
  /\ TakeBack(t, 0)
  /\ Refuse(t, slot[t][1])
  /\ UNCHANGED <<memory, admitted, faults>>

(* DECR, answered: the site is refused. *)
Undo(t) ==
  /\ pc[t] = "undo"
  /\ \E executed \in {1, 2} :
       /\ TakeBack(t, executed)
       /\ IF executed = 1 THEN UNCHANGED faults ELSE Fault
  /\ Refuse(t, slot[t][1])
  /\ UNCHANGED <<memory, admitted>>

(* DECR failed: the refusal is forgotten and the memory counter asked. *)
UndoUnanswered(t) ==
  /\ pc[t] = "undo"
  /\ Fault
  /\ \E executed \in 0..2 : TakeBack(t, executed)
  /\ TakeInMemory(t, slot[t][1])
  /\ UNCHANGED admitted

----------------------------------------------------------------------------
(* executeWithSiteRequestRetry and the outcome of the attempt *)

Answered(t) ==
  /\ pc[t] = "call"
  /\ Finish(t)

(* A transient error: the same site is asked again. *)
RequestRetried(t) ==
  /\ pc[t] = "call"
  /\ retryNo[t] < SiteRetries
  /\ retryNo' = [retryNo EXCEPT ![t] = @ + 1]
  /\ UNCHANGED <<scope, minute, pc, shared, selection, attempt, excluded, locked>>

(* An error that is not worth a further attempt fails the task at once. *)
AttemptStops(t) ==
  /\ pc[t] = "call"
  /\ Finish(t)

(* The site is excluded when the task may switch to another one. *)
Exclude(t) ==
  excluded' = [excluded EXCEPT ![t] =
                 IF scope = "all_enabled" THEN @ \cup {slot[t][1]} ELSE @]

(* The next round of the loop of execute. *)
Again(t) ==
  /\ Goto(t, "check")
  /\ slot' = [slot EXCEPT ![t] = <<NoSite, 0>>]
  /\ retryNo' = [retryNo EXCEPT ![t] = 0]
  /\ UNCHANGED <<scope, minute, shared, todo, primary, fallback, began, locked>>

(* Mutant of AttemptRetried: a site that failed does not count as an attempt
   unless it is excluded. *)
AttemptRetriedUncounted(t) ==
  /\ pc[t] = "call"
  /\ Exclude(t)
  /\ attempt[t] < MaxAttempts
  /\ Again(t)
  /\ attempt' = [attempt EXCEPT ![t] = IF scope = "all_enabled" THEN @ + 1 ELSE @]

(* An error worth a further attempt, while the budget lasts. *)
AttemptRetried(t) ==
  /\ pc[t] = "call"
  /\ Exclude(t)
  /\ attempt[t] < MaxAttempts
  /\ Again(t)
  /\ attempt' = [attempt EXCEPT ![t] = @ + 1]

(* The budget is spent: updateTaskStatus(failed). *)
AttemptsSpent(t) ==
  /\ pc[t] = "call"
  /\ attempt[t] = MaxAttempts
  /\ Finish(t)

MinuteTicks ==
  /\ minute < MaxMinutes
  /\ minute' = minute + 1
  /\ UNCHANGED <<scope, pc, shared, selection, progress>>

----------------------------------------------------------------------------
Step(t) ==
  \/ Terminated(t)
  \/ BeginSelection(t)
  \/ Look(t)
  \/ NoCandidate(t)
  \/ TakeUnlimited(t)
  \/ Take(t)
  \/ TakeUnanswered(t)
  \/ Undo(t)
  \/ UndoUnanswered(t)
  \/ Answered(t)
  \/ RequestRetried(t)
  \/ AttemptStops(t)
  \/ AttemptRetried(t)
  \/ AttemptsSpent(t)

Next == MinuteTicks \/ \E t \in Tasks : Step(t)

Spec == Init /\ [][Next]_vars

(* Every awaited command and request returns or times out. *)
FairSpec == Spec /\ \A t \in Tasks : WF_vars(Step(t))

----------------------------------------------------------------------------
(* Properties *)

(* In one minute Redis lets a limited site start no more calls than its
   allowance, however the reads, increments and corrections of the processes
   interleave and whichever commands fail; only a DECR the client sent twice
   lets one more through. *)
QuotaHeld ==
  \A x \in Slots : admitted[x] <= Allowed[x[1]] + overUndone[x]

Undoing(x) == {t \in Tasks : pc[t] = "undo" /\ slot[t] = x}

(* While Redis answers, the counter of a minute is the number of calls that
   started in it plus the increments about to be taken back, so no refused
   attempt leaves a trace; and a selection that finds a limited site full, be
   it through such increments, is right: that many calls did start. *)
CountTrue ==
  faults = 0 =>
    \A x \in Slots :
      /\ count[x] = admitted[x] + Cardinality(Undoing(x))
      /\ Allowed[x[1]] > 0 /\ count[x] >= Allowed[x[1]]
           => admitted[x] = Allowed[x[1]]

(* While Redis answers, a task goes back to a site it failed on only when
   every site it has not failed on is limited and was full in a minute since
   the selection began. *)
FallbackJust ==
  [][\A t \in Tasks :
       /\ pc[t] # "call" /\ pc'[t] = "call"
       /\ slot'[t][1] \in excluded[t]
       /\ faults' = 0
       => \A s \in Sites \ excluded[t] :
            /\ Allowed[s] > 0
            /\ \E m \in began[t]..minute : admitted[<<s, m>>] = Allowed[s]
    ]_vars

(* Every task leaves the retry loop, with quotas exhausted, errors at every
   attempt and Redis failing. *)
TaskEnds == \A t \in Tasks : <>(pc[t] = "done")

============================================================================
