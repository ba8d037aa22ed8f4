--------------------------- MODULE TaskSubmission ---------------------------
(***************************************************************************)
(* How generations come into being: the page on which a customer submits   *)
(* what she wishes, the requests that reach the backend, late, twice or    *)
(* not at all, and the transaction that creates and charges the tasks.     *)
(*                                                                         *)
(* A page gives every submission a key (clientRequestId).  It keeps the    *)
(* key while it does not know what became of the request, asks the backend *)
(* for tasks of that key, and sends the next submission with it.  The      *)
(* backend answers a key it knows with what it has created for it.  Single *)
(* tasks and batches are looked up and unique each in a table of its own.  *)
(* Requests of the bot and repetitions of old tasks get a key when they    *)
(* arrive; they belong to the same customer.                               *)
(***************************************************************************)
EXTENDS Integers, FiniteSets

CONSTANTS
  Wishes,       \* what the customer wants drawn, each one time
  Batches,      \* those of several pictures
  Orders,       \* those ordered by repeating an old task or through the bot
  Blockings,    \* values drawing_block_during_generation takes
  MaxRequests,  \* bound: requests, and keys
  MaxReloads,   \* bound: reloads of the page
  MaxRestarts   \* bound: restarts of the backend

PageWishes == Wishes \ Orders
Requests   == 1..MaxRequests
Keys       == 1..MaxRequests
Slots      == Keys \X {"single", "batch"}   \* rows, by unique key and table
None       == "none"

ASSUME SubmissionAssumption ==
  /\ Batches \cup Orders \subseteq Wishes
  /\ None \notin Wishes
  /\ Blockings \subseteq BOOLEAN /\ Blockings # {}
  /\ MaxRequests \in Nat /\ MaxReloads \in Nat /\ MaxRestarts \in Nat

VARIABLES
  page,        \* the page: see Pages
  answers,     \* recoveries found by polls, on their way to the page
  rows,        \* rows[s]: the wish the row s was created for, or None
  ended,       \* rows whose tasks are all final
  charged,     \* charged[s]: charges for s
  dispatched,  \* dispatched[s]: times s was handed to drawing-service
  requests,    \* requests[i]: see RequestRecords
  minted,      \* keys given out so far
  sent,        \* history: keys with the wishes they were sent with
  shown,       \* history: rows the page has put among the recent tasks
  told,        \* history: wishes the customer believes to be under way
  reloads, restarts

history == <<sent, shown, told>>
tables  == <<rows, ended, charged, dispatched>>
vars    == <<page, answers, tables, requests, minted, history, reloads, restarts>>

(* `ref' is submitIdRef, `stored' the entry of sessionStorage, `loop' the  *)
(* key the effect polls for (0: none), `awaited' the request under way.    *)
Pages ==
  [phase : {"idle", "sending", "recovering"}, wish : Wishes \cup {None},
   awaited : {0} \cup Requests, ref : {0} \cup Keys, stored : {0} \cup Keys,
   loop : {0} \cup Keys]

(* The life of a request in the backend. *)
Steps == {"none", "arriving", "gate", "create", "dispatch", "found", "refused", "gone"}
RequestRecords == [step : Steps, wish : Wishes \cup {None}, key : {0} \cup Keys]

NoRequest == [step |-> "none", wish |-> None, key |-> 0]

Table(w) == IF w \in Batches THEN "batch" ELSE "single"

Row(i) == <<requests[i].key, Table(requests[i].wish)>>

Exists(s) == rows[s] # None

Init ==
  /\ page = [phase |-> "idle", wish |-> None, awaited |-> 0, ref |-> 0, stored |-> 0, loop |-> 0]
  /\ answers = {}
  /\ rows = [s \in Slots |-> None] /\ ended = {}
  /\ charged = [s \in Slots |-> 0] /\ dispatched = [s \in Slots |-> 0]
  /\ requests = [i \in Requests |-> NoRequest]
  /\ minted = 0
  /\ sent = {} /\ shown = {} /\ told = {}
  /\ reloads = 0 /\ restarts = 0

(***************************************************************************)
(* Sending.                                                                *)
(***************************************************************************)

(* Request i is the next one; it is for w, under key k, and arrives at st. *)
Send(i, w, k, st) ==
  /\ requests[i].step = "none" /\ \A j \in 1..(i - 1) : requests[j].step # "none"
  /\ requests' = [requests EXCEPT ![i] = [step |-> st, wish |-> w, key |-> k]]
  /\ minted' = IF k > minted THEN k ELSE minted
  /\ sent' = sent \cup {<<k, w>>}

(* Mutant of KeyInUse: a key of its own for every attempt. *)
KeyInUseNever == minted + 1

(* The key that is kept, or else a new one. *)
KeyInUse == IF page.ref = 0 THEN minted + 1 ELSE page.ref

(* The customer submits a wish she does not believe to be under way.       *)
Submit(i, w) ==
  /\ page.phase = "idle" /\ w \notin told /\ KeyInUse \in Keys
  /\ Send(i, w, KeyInUse, "arriving")
  /\ page' = [page EXCEPT !.phase = "sending", !.wish = w, !.awaited = i,
                          !.ref = KeyInUse, !.stored = KeyInUse, !.loop = 0]
  /\ UNCHANGED <<answers, tables, shown, told, reloads, restarts>>

(* An old task is repeated, or the bot passes an order on, which goes past *)
(* the checks of createTask.                                               *)
Order(i, w) ==
  /\ \A e \in sent : e[2] # w
  /\ minted + 1 \in Keys
  /\ \E entry \in {"arriving", "create"} : Send(i, w, minted + 1, entry)
  /\ UNCHANGED <<page, answers, tables, shown, told, reloads, restarts>>

(***************************************************************************)
(* The backend: createTask, and for the bot its last two steps.            *)
(***************************************************************************)

Step(i, from, to) ==
  /\ requests[i].step = from
  /\ requests' = [requests EXCEPT ![i].step = to]
  /\ UNCHANGED <<page, answers, minted, history, reloads, restarts>>

(* The network loses the request. *)
Lose(i) == Step(i, "arriving", "gone") /\ UNCHANGED tables

(* The key is known in the table the request is for ... *)
Known(i) ==
  /\ Step(i, "arriving", "found") /\ Exists(Row(i))
  /\ UNCHANGED tables

(* ... or not. *)
Fresh(i) ==
  /\ Step(i, "arriving", "gate") /\ ~Exists(Row(i))
  /\ UNCHANGED tables

Running == {s \in Slots : Exists(s)} \ ended

(* No other task of the customer runs, if that is asked for. *)
Pass(i) ==
  /\ \E blocking \in Blockings : blocking => Running = {}
  /\ Step(i, "gate", "create")
  /\ UNCHANGED tables

(* A cool-down, a running task, a missing picture; a failing design of the *)
(* storyboard, or a balance that does not suffice: nothing is created.     *)
Refuse(i) ==
  /\ \E step \in {"gate", "create"} : Step(i, step, "refused")
  /\ UNCHANGED tables

(* Mutant of Unique: the table has no unique index on the key. *)
UniqueNever(s) == TRUE

(* The key is neither found by the repository nor refused by the index. *)
Unique(s) == ~Exists(s)

(* One transaction creates the rows and charges for them. *)
Create(i) ==
  /\ Step(i, "create", "dispatch") /\ Unique(Row(i))
  /\ rows' = [rows EXCEPT ![Row(i)] = requests[i].wish]
  /\ charged' = [charged EXCEPT ![Row(i)] = @ + 1]
  /\ UNCHANGED <<ended, dispatched>>

(* Mutant of Existing: whoever finds the rows hands them over as well. *)
ExistingDispatched(i) ==
  /\ Step(i, "create", "dispatch") /\ Exists(Row(i))
  /\ UNCHANGED tables

(* Another request has created them meanwhile; they are its to dispatch. *)
Existing(i) ==
  /\ Step(i, "create", "found") /\ Exists(Row(i))
  /\ UNCHANGED tables

(* The creator hands what it has created to drawing-service. *)
Dispatch(i) ==
  /\ Step(i, "dispatch", "found")
  /\ dispatched' = [dispatched EXCEPT ![Row(i)] = @ + 1]
  /\ UNCHANGED <<rows, ended, charged>>

(* The tasks succeed or fail. *)
End(s) ==
  /\ s \in Running
  /\ ended' = ended \cup {s}
  /\ UNCHANGED <<page, answers, rows, charged, dispatched, requests, minted,
                 history, reloads, restarts>>

(* The backend is restarted: what it was at is gone, but for the database. *)
Restart ==
  /\ restarts < MaxRestarts
  /\ restarts' = restarts + 1
  /\ requests' = [i \in Requests |->
                    IF requests[i].step \in {"gate", "create", "dispatch"}
                    THEN [requests[i] EXCEPT !.step = "gone"] ELSE requests[i]]
  /\ UNCHANGED <<page, answers, tables, minted, history, reloads>>

(***************************************************************************)
(* The page, and what it learns.                                           *)
(***************************************************************************)

PageOnly == UNCHANGED <<tables, requests, minted, sent, reloads, restarts>>

(* Mutant of Rows: the key is left out of the condition. *)
RowsOfAnyone(k) == {s \in Slots : Exists(s)}

Rows(k) == {s \in Slots : s[1] = k /\ Exists(s)}

(* recoverTask: a batch with the key, else a task with it. *)
Recovery(k) ==
  {s \in Rows(k) : s[2] = "batch" \/ \A r \in Rows(k) : r[2] # "batch"}

(* The page shows row s, and the customer takes wish w and its own for     *)
(* under way.                                                              *)
Show(s, w) ==
  /\ shown' = shown \cup {s}
  /\ told' = told \cup ({w, rows[s]} \ {None})

(* The success of a submission: the key is given up. *)
Done(s) ==
  /\ Show(s, page.wish)
  /\ page' = [page EXCEPT !.phase = "idle", !.awaited = 0, !.ref = 0, !.stored = 0]

(* Its failure: the key is kept, and as the page no longer loads, its      *)
(* effect polls for it.                                                    *)
Failed ==
  /\ page' = [page EXCEPT !.phase = "idle", !.awaited = 0, !.loop = page.stored]
  /\ UNCHANGED <<shown, told>>

(* The answer to the request. *)
Answered ==
  /\ page.phase = "sending"
  /\ \/ requests[page.awaited].step = "found" /\ Done(Row(page.awaited))
     \/ requests[page.awaited].step = "refused" /\ Failed
  /\ PageOnly /\ UNCHANGED answers

(* No answer: the page asks for tasks of the key (status 0), or gives up   *)
(* (an answer of something on the way).                                    *)
Unanswered ==
  /\ page.phase = "sending"
  /\ \/ page' = [page EXCEPT !.phase = "recovering"] /\ UNCHANGED <<shown, told>>
     \/ Failed
  /\ PageOnly /\ UNCHANGED answers

Recover ==
  /\ page.phase = "recovering"
  /\ \/ \E s \in Recovery(page.ref) : Done(s)
     \/ Failed
  /\ PageOnly /\ UNCHANGED answers

(* A poll finds something ... *)
PollFinds ==
  /\ page.loop # 0
  /\ \E s \in Recovery(page.loop) : answers' = answers \cup {s}
  /\ PageOnly /\ UNCHANGED <<page, shown, told>>

(* ... and shows it, even if a submission has meanwhile cancelled its loop.*)
(* The entry of the storage goes, whatever it is by now; submitIdRef stays.*)
PollShows(s) ==
  /\ s \in answers
  /\ answers' = answers \ {s}
  /\ Show(s, None)
  /\ page' = [page EXCEPT !.stored = 0, !.loop = IF @ = s[1] THEN 0 ELSE @]
  /\ PageOnly

(* Thirty polls have found nothing. *)
PollEnds ==
  /\ page.loop # 0
  /\ page' = [page EXCEPT !.loop = 0]
  /\ PageOnly /\ UNCHANGED <<answers, shown, told>>

(* The page is reloaded: what it had asked for is not heard of any more.   *)
Reload ==
  /\ reloads < MaxReloads
  /\ reloads' = reloads + 1
  /\ page' = [page EXCEPT !.phase = "idle", !.awaited = 0, !.ref = 0, !.loop = page.stored]
  /\ answers' = {}
  /\ UNCHANGED <<tables, requests, minted, history, restarts>>

Next ==
  \/ \E i \in Requests :
       \/ \E w \in PageWishes : Submit(i, w)
       \/ \E w \in Orders : Order(i, w)
       \/ Lose(i) \/ Known(i) \/ Fresh(i) \/ Pass(i) \/ Refuse(i)
       \/ Create(i) \/ Existing(i) \/ Dispatch(i)
  \/ \E s \in Slots : End(s) \/ PollShows(s)
  \/ Restart \/ Answered \/ Unanswered \/ Recover
  \/ PollFinds \/ PollEnds \/ Reload

Spec == Init /\ [][Next]_vars

-----------------------------------------------------------------------------
(***************************************************************************)
(* Properties.                                                             *)
(***************************************************************************)

TypeOK ==
  /\ page \in Pages
  /\ answers \subseteq Slots
  /\ rows \in [Slots -> Wishes \cup {None}] /\ ended \subseteq Slots
  /\ charged \in [Slots -> Nat] /\ dispatched \in [Slots -> Nat]
  /\ requests \in [Requests -> RequestRecords]
  /\ minted \in {0} \cup Keys
  /\ sent \subseteq Keys \X Wishes /\ shown \subseteq Slots /\ told \subseteq Wishes
  /\ reloads \in 0..MaxReloads /\ restarts \in 0..MaxRestarts

(* A key is charged once per table, exactly if there is a row: requests    *)
(* that arrive late, twice or at the same time are not charged, and those  *)
(* that are refused or die with the backend leave nothing to pay.          *)
ChargedOnce == \A s \in Slots : charged[s] = IF Exists(s) THEN 1 ELSE 0

(* What was created is handed over at most once, by the request that has   *)
(* created it: a repeated request makes no worker draw again.              *)
DispatchedOnce == \A s \in Slots : dispatched[s] <= charged[s]

(* Keys under which there are both a task and a batch. *)
Doubled == {k \in Keys : \A kind \in {"single", "batch"} : Exists(<<k, kind>>)}

(* A customer who repeats a wish until she is told that it is under way    *)
(* gets it once, however often the request or its answer was lost or late. *)
(* The key does not survive a reload, and it does not join the tables.     *)
WishedOnce ==
  \A w \in Wishes :
    Cardinality({s \in Slots : rows[s] = w}) <= 1 + reloads + Cardinality(Doubled)

(* What the page shows exists, and was created for a wish that the page    *)
(* has sent with that key; and a customer believes a wish under way only   *)
(* if the page has shown something for a key the wish was sent with.       *)
ShownTrue ==
  /\ \A s \in shown : rows[s] \in PageWishes /\ <<s[1], rows[s]>> \in sent
  /\ \A w \in told : \E s \in shown : <<s[1], w>> \in sent

(* The key is kept for a submission whose answer is still missing          *)
(* (GeneratePage.tsx:728); a wish is never sent with the key of one that   *)
(* the page has shown to be under way.                                     *)
KeyUnspent ==
  [][page'.awaited \notin {0, page.awaited} => \A s \in shown : s[1] # page'.ref]_vars
=============================================================================
