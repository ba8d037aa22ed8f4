------------------------ MODULE TaskSubmissionProofs ------------------------
(***************************************************************************)
(* Theorems about TaskSubmission: every key is charged and handed over at  *)
(* most once, the page shows nothing it did not ask for, and a wish is     *)
(* granted once per life of the page, for any number of wishes, requests,  *)
(* reloads and restarts.                                                   *)
(***************************************************************************)
EXTENDS TaskSubmission, FiniteSetTheorems, TLAPS

(* Requests and rows are of wishes sent with their keys. *)
RequestsSent ==
  \A i \in Requests : requests[i].step # "none" =>
    /\ requests[i].wish \in Wishes /\ requests[i].key \in Keys
    /\ <<requests[i].key, requests[i].wish>> \in sent

RowsSent == \A s \in Slots : Exists(s) => <<s[1], rows[s]>> \in sent

(* A request with a success, or about to dispatch, has its row. *)
RequestsFound ==
  \A i \in Requests : requests[i].step \in {"dispatch", "found"} => Exists(Row(i))

(* Whoever is about to dispatch a row has created it, and nobody has yet. *)
Dispatching ==
  \A i \in Requests : requests[i].step = "dispatch" =>
    /\ dispatched[Row(i)] = 0
    /\ \A j \in Requests \ {i} : requests[j].step = "dispatch" => Row(j) # Row(i)

(* The keys of the page are given out, and never those of an order. *)
KeysApart ==
  /\ \A e \in sent : e[1] <= minted
  /\ \A k \in {page.ref, page.stored, page.loop} :
       k <= minted /\ \A e \in sent : e[2] \in Orders => e[1] # k

(* What the page waits for. *)
Waiting ==
  page.phase # "idle" =>
    /\ page.ref \in Keys /\ page.wish \in PageWishes /\ <<page.ref, page.wish>> \in sent
    /\ page.phase = "sending" =>
         /\ page.awaited \in Requests
         /\ requests[page.awaited].step # "none"
         /\ requests[page.awaited].key = page.ref

(* What the page shows, or is about to show, and what the customer believes. *)
Visible == \A s \in answers \cup shown : Exists(s) /\ rows[s] \in PageWishes

Believed == \A w \in told : \E s \in shown : <<s[1], w>> \in sent

Tables == ChargedOnce /\ DispatchedOnce /\ RowsSent /\ RequestsFound /\ Dispatching

Inv == TypeOK /\ RequestsSent /\ Tables /\ KeysApart /\ Waiting /\ Visible /\ Believed

-----------------------------------------------------------------------------

LEMMA SlotsType ==
  ASSUME NEW s \in Slots
  PROVE  s[1] \in Keys
BY DEF Slots

(* The row of a request. *)
LEMMA RowType ==
  ASSUME RequestsSent, NEW i \in Requests, requests[i].step # "none"
  PROVE  /\ Row(i) \in Slots
         /\ Row(i)[1] = requests[i].key
BY DEF RequestsSent, Row, Slots, Table

(* The invariant holds before anything is submitted. *)
THEOREM InitInv == Init => Inv
<1> SUFFICES ASSUME Init PROVE Inv
  OBVIOUS
<1>1. TypeOK
  BY SubmissionAssumption DEF Init, TypeOK, Pages, RequestRecords, NoRequest, Steps
<1>2. RequestsSent /\ Tables
  BY DEF Init, Tables, RequestsSent, ChargedOnce, DispatchedOnce, RowsSent, RequestsFound,
         Dispatching, Exists, NoRequest
<1>3. KeysApart /\ Waiting /\ Visible /\ Believed
  BY DEF Init, KeysApart, Waiting, Visible, Believed
<1> QED
  BY <1>1, <1>2, <1>3 DEF Inv

(***************************************************************************)
(* The backend.                                                            *)
(***************************************************************************)

(* The rows of all requests stay where they are while requests only move. *)
LEMMA StepRecords ==
  ASSUME TypeOK, NEW i \in Requests, NEW from \in Steps, NEW to \in Steps, Step(i, from, to)
  PROVE  /\ requests' \in [Requests -> RequestRecords]
         /\ requests'[i].step = to /\ requests[i].step = from
         /\ \A j \in Requests \ {i} : requests'[j] = requests[j]
         /\ \A j \in Requests : /\ requests'[j].key = requests[j].key
                                /\ requests'[j].wish = requests[j].wish
                                /\ Row(j)' = Row(j)
<1>1. /\ requests \in [Requests -> RequestRecords]
      /\ requests' = [requests EXCEPT ![i].step = to]
      /\ requests[i].step = from
  BY DEF TypeOK, Step
<1>2. requests' \in [Requests -> RequestRecords]
  BY <1>1 DEF RequestRecords
<1>3. /\ requests'[i].step = to
      /\ \A j \in Requests \ {i} : requests'[j] = requests[j]
      /\ \A j \in Requests : /\ requests'[j].key = requests[j].key
                             /\ requests'[j].wish = requests[j].wish
  BY <1>1 DEF RequestRecords
<1> QED
  BY <1>1, <1>2, <1>3 DEF Row, Table

(* What a step of a request leaves of the invariant. *)
LEMMA StepFrame ==
  ASSUME Inv, NEW i \in Requests, NEW from \in Steps \ {"none"}, NEW to \in Steps \ {"none"},
         Step(i, from, to)
  PROVE  RequestsSent' /\ KeysApart' /\ Waiting' /\ Believed'
<1>1. /\ \A j \in Requests : /\ requests'[j].key = requests[j].key
                             /\ requests'[j].wish = requests[j].wish
                             /\ requests'[j].step # "none" => requests[j].step # "none"
                             /\ requests[j].step # "none" => requests'[j].step # "none"
      /\ UNCHANGED <<page, answers, minted, sent, shown, told>>
  BY StepRecords DEF Inv, Step, history
<1>2. RequestsSent'
  BY <1>1 DEF Inv, RequestsSent
<1>3. Waiting'
  BY <1>1 DEF Inv, Waiting
<1> QED
  BY <1>1, <1>2, <1>3 DEF Inv, KeysApart, Believed

(* A request moves on, and no table changes. *)
LEMMA MoveKeeps ==
  ASSUME Inv, NEW i \in Requests, NEW from \in Steps \ {"none"},
         NEW to \in Steps \ {"none", "dispatch"}, Step(i, from, to), UNCHANGED tables,
         to = "found" => Exists(Row(i))
  PROVE  Inv'
<1>1. /\ requests' \in [Requests -> RequestRecords]
      /\ requests'[i].step = to
      /\ \A j \in Requests \ {i} : requests'[j] = requests[j]
      /\ \A j \in Requests : Row(j)' = Row(j)
      /\ UNCHANGED <<page, answers, minted, sent, shown, told, reloads, restarts,
                     rows, ended, charged, dispatched>>
  BY StepRecords DEF Inv, Step, history, tables
<1>2. TypeOK'
  BY <1>1 DEF Inv, TypeOK
<1>3. Tables'
  BY <1>1 DEF Inv, Tables, ChargedOnce, DispatchedOnce, RowsSent, RequestsFound, Dispatching, Exists
<1>4. Visible'
  BY <1>1 DEF Inv, Visible, Exists
<1> QED
  BY <1>2, <1>3, <1>4, StepFrame DEF Inv

(* The creation of a row, with its charge. *)
LEMMA CreateKeeps ==
  ASSUME Inv, NEW i \in Requests, Create(i)
  PROVE  Inv'
<1> DEFINE r == Row(i)
<1>1. Step(i, "create", "dispatch") /\ "create" \in Steps /\ "dispatch" \in Steps
  BY DEF Create, Steps
<1>2. /\ requests' \in [Requests -> RequestRecords]
      /\ requests[i].step = "create" /\ requests'[i].step = "dispatch"
      /\ \A j \in Requests \ {i} : requests'[j] = requests[j]
      /\ \A j \in Requests : Row(j)' = Row(j)
      /\ UNCHANGED <<page, answers, minted, sent, shown, told, reloads, restarts>>
  BY <1>1, StepRecords DEF Inv, Step, history
<1>3. /\ ~Exists(r) /\ r \in Slots
      /\ requests[i].wish \in Wishes /\ <<r[1], requests[i].wish>> \in sent
      /\ rows' = [rows EXCEPT ![r] = requests[i].wish]
      /\ charged' = [charged EXCEPT ![r] = @ + 1]
      /\ UNCHANGED <<ended, dispatched>>
  BY <1>2, RowType DEF Inv, Create, Unique, RequestsSent
<1>4. rows \in [Slots -> Wishes \cup {None}] /\ charged \in [Slots -> Nat]
      /\ dispatched \in [Slots -> Nat] /\ None \notin Wishes
  BY SubmissionAssumption DEF Inv, TypeOK
<1> HIDE DEF r
<1>5. /\ rows'[r] = requests[i].wish /\ rows'[r] # None /\ charged'[r] = charged[r] + 1
      /\ \A s \in Slots \ {r} : rows'[s] = rows[s] /\ charged'[s] = charged[s]
      /\ \A s \in Slots : Exists(s) => Exists(s)' /\ rows'[s] = rows[s]
  BY <1>3, <1>4 DEF Exists
<1>6. rows' \in [Slots -> Wishes \cup {None}] /\ charged' \in [Slots -> Nat]
  BY <1>3, <1>4
<1>7. TypeOK'
  BY <1>2, <1>3, <1>6 DEF Inv, TypeOK
<1>8. charged[r] = 0 /\ dispatched[r] = 0
  BY <1>3, <1>4 DEF Inv, Tables, ChargedOnce, DispatchedOnce
<1>9. ChargedOnce' /\ DispatchedOnce'
  BY <1>3, <1>4, <1>5, <1>8 DEF Inv, Tables, ChargedOnce, DispatchedOnce, Exists
<1>10. RowsSent'
  BY <1>2, <1>3, <1>5 DEF Inv, Tables, RowsSent, Exists
<1>11. \A j \in Requests : requests[j].step \in {"dispatch", "found"} =>
         Row(j) \in Slots /\ Row(j) # r /\ Exists(Row(j))
  BY <1>3, RowType DEF Inv, Tables, RequestsFound
<1>12. RequestsFound'
  <2> SUFFICES ASSUME NEW j \in Requests, requests'[j].step \in {"dispatch", "found"}
               PROVE  Exists(Row(j))'
    BY DEF RequestsFound
  <2>1. CASE j = i
    BY <1>2, <1>5, <2>1 DEF r, Exists
  <2>2. CASE j # i
    BY <1>2, <1>5, <1>11, <2>2 DEF Exists
  <2> QED
    BY <2>1, <2>2
<1>13. Dispatching'
  BY <1>2, <1>3, <1>8, <1>11 DEF Inv, Tables, Dispatching, r
<1>14. Visible'
  <2>1. answers \cup shown \subseteq Slots
    BY DEF Inv, TypeOK
  <2> QED
    BY <1>2, <1>5, <2>1 DEF Inv, Visible
<1> QED
  BY <1>1, <1>7, <1>9, <1>10, <1>12, <1>13, <1>14, StepFrame DEF Inv, Tables

(* The creator hands its row over. *)
LEMMA DispatchKeeps ==
  ASSUME Inv, NEW i \in Requests, Dispatch(i)
  PROVE  Inv'
<1> DEFINE r == Row(i)
<1>1. Step(i, "dispatch", "found") /\ "found" \in Steps /\ "dispatch" \in Steps
  BY DEF Dispatch, Steps
<1>2. /\ requests' \in [Requests -> RequestRecords]
      /\ requests[i].step = "dispatch" /\ requests'[i].step = "found"
      /\ \A j \in Requests \ {i} : requests'[j] = requests[j]
      /\ \A j \in Requests : Row(j)' = Row(j)
      /\ UNCHANGED <<page, answers, minted, sent, shown, told, reloads, restarts>>
  BY <1>1, StepRecords DEF Inv, Step, history
<1>3. /\ r \in Slots /\ Exists(r) /\ dispatched[r] = 0
      /\ dispatched' = [dispatched EXCEPT ![r] = @ + 1]
      /\ UNCHANGED <<rows, ended, charged>>
      /\ \A j \in Requests \ {i} : requests[j].step = "dispatch" => Row(j) # r
  BY <1>2, RowType DEF Inv, Dispatch, Tables, RequestsFound, Dispatching
<1> HIDE DEF r
<1>4. dispatched \in [Slots -> Nat] /\ charged \in [Slots -> Nat]
  BY DEF Inv, TypeOK
<1>5. /\ dispatched'[r] = 1 /\ \A s \in Slots \ {r} : dispatched'[s] = dispatched[s]
      /\ dispatched' \in [Slots -> Nat]
  BY <1>3, <1>4
<1>6. TypeOK'
  BY <1>2, <1>3, <1>5 DEF Inv, TypeOK
<1>7. ChargedOnce' /\ DispatchedOnce' /\ RowsSent'
  BY <1>2, <1>3, <1>4, <1>5 DEF Inv, Tables, ChargedOnce, DispatchedOnce, RowsSent, Exists
<1>8. RequestsFound'
  BY <1>2, <1>3 DEF Inv, Tables, RequestsFound, Exists
<1>9. Dispatching'
  <2>1. \A j \in Requests : requests[j].step = "dispatch" => Row(j) \in Slots
    BY RowType DEF Inv
  <2> QED
    BY <1>2, <1>3, <1>5, <2>1 DEF Inv, Tables, Dispatching
<1>10. Visible'
  BY <1>2, <1>3 DEF Inv, Visible, Exists
<1> QED
  BY <1>1, <1>6, <1>7, <1>8, <1>9, <1>10, StepFrame DEF Inv, Tables

(* Tasks of a row end. *)
LEMMA EndKeeps ==
  ASSUME Inv, NEW s \in Slots, End(s)
  PROVE  Inv'
<1>1. UNCHANGED <<page, answers, rows, charged, dispatched, requests, minted, sent, shown, told,
                 reloads, restarts>>
  BY DEF End, history
<1>2. TypeOK' /\ RequestsSent'
  BY <1>1 DEF Inv, End, TypeOK, RequestsSent
<1>3. Tables'
  BY <1>1 DEF Inv, Tables, ChargedOnce, DispatchedOnce, RowsSent, RequestsFound, Dispatching,
              Exists, Row
<1> QED
  BY <1>1, <1>2, <1>3 DEF Inv, KeysApart, Waiting, Visible, Believed, Exists

(* A restart ends requests and touches no table. *)
LEMMA RestartKeeps ==
  ASSUME Inv, Restart
  PROVE  Inv'
<1>1. requests \in [Requests -> RequestRecords]
  BY DEF Inv, TypeOK
<1>2. \A i \in Requests :
        /\ requests'[i] \in RequestRecords
        /\ requests'[i].key = requests[i].key /\ requests'[i].wish = requests[i].wish
        /\ requests'[i].step # "none" => requests[i].step # "none"
        /\ requests[i].step # "none" => requests'[i].step # "none"
        /\ requests'[i].step # "dispatch"
        /\ requests'[i].step = "found" => requests[i].step = "found"
        /\ Row(i)' = Row(i)
  <2> TAKE i \in Requests
  <2>1. requests[i] \in RequestRecords
    BY <1>1
  <2>2. requests'[i] = IF requests[i].step \in {"gate", "create", "dispatch"}
                       THEN [requests[i] EXCEPT !.step = "gone"] ELSE requests[i]
    BY DEF Restart
  <2>3. CASE requests[i].step \in {"gate", "create", "dispatch"}
    <3>1. requests'[i] = [step |-> "gone", wish |-> requests[i].wish, key |-> requests[i].key]
      BY <2>1, <2>2, <2>3 DEF RequestRecords
    <3> QED
      BY <2>1, <2>3, <3>1 DEF RequestRecords, Steps, Row, Table
  <2>4. CASE requests[i].step \notin {"gate", "create", "dispatch"}
    BY <2>1, <2>2, <2>4 DEF Row, Table
  <2> QED
    BY <2>3, <2>4
<1>3. requests' \in [Requests -> RequestRecords]
  <2>1. requests' = [i \in Requests |-> requests'[i]]
    BY DEF Restart
  <2> QED
    BY <1>2, <2>1
<1>4. /\ UNCHANGED <<page, answers, rows, ended, charged, dispatched, minted, sent, shown, told,
                     reloads>>
      /\ restarts' \in 0..MaxRestarts
  BY SubmissionAssumption DEF Inv, Restart, TypeOK, tables, history
<1>5. TypeOK'
  BY <1>3, <1>4 DEF Inv, TypeOK
<1>6. RequestsSent'
  BY <1>2, <1>4 DEF Inv, RequestsSent
<1>7. Tables'
  BY <1>2, <1>4 DEF Inv, Tables, ChargedOnce, DispatchedOnce, RowsSent, RequestsFound,
                    Dispatching, Exists
<1>8. Waiting'
  BY <1>2, <1>4 DEF Inv, Waiting
<1> QED
  BY <1>4, <1>5, <1>6, <1>7, <1>8 DEF Inv, KeysApart, Visible, Believed, Exists

(***************************************************************************)
(* The page.                                                               *)
(***************************************************************************)

LEMMA PageKeeps ==
  ASSUME Inv, PageOnly
  PROVE  /\ RequestsSent' /\ Tables'
         /\ \A s \in Slots : Exists(s)' = Exists(s)
         /\ UNCHANGED <<tables, rows, requests, minted, sent, reloads, restarts>>
<1>1. UNCHANGED <<rows, ended, charged, dispatched, requests, minted, sent, reloads, restarts>>
  BY DEF PageOnly, tables
<1>2. RequestsSent'
  BY <1>1 DEF Inv, RequestsSent
<1>3. Tables'
  BY <1>1 DEF Inv, Tables, ChargedOnce, DispatchedOnce, RowsSent, RequestsFound,
              Dispatching, Exists, Row
<1> QED
  BY <1>1, <1>2, <1>3 DEF Exists, tables

(* Rows under the keys of the page are of its wishes. *)
LEMMA RowOfPage ==
  ASSUME Inv, NEW s \in Slots, Exists(s), s[1] \in {page.ref, page.stored, page.loop}
  PROVE  rows[s] \in PageWishes /\ <<s[1], rows[s]>> \in sent
<1>1. <<s[1], rows[s]>> \in sent
  BY DEF Inv, Tables, RowsSent
<1>2. rows[s] \notin Orders
  BY <1>1 DEF Inv, KeysApart
<1>3. rows[s] \in Wishes
  BY DEF Inv, TypeOK, Exists
<1> QED
  BY <1>1, <1>2, <1>3 DEF PageWishes

(* What a poll or a lookup by key can find. *)
LEMMA RecoveryRows ==
  ASSUME NEW k, NEW s \in Recovery(k)
  PROVE  s \in Slots /\ Exists(s) /\ s[1] = k
BY DEF Recovery, Rows

LEMMA DoneKeeps ==
  ASSUME Inv, page.phase # "idle", NEW s \in Slots, Exists(s), s[1] = page.ref,
         Done(s), PageOnly, UNCHANGED answers
  PROVE  Inv'
<1>1. rows[s] \in PageWishes /\ <<s[1], rows[s]>> \in sent
  BY RowOfPage
<1>2. page.wish \in PageWishes /\ <<s[1], page.wish>> \in sent
  BY DEF Inv, Waiting
<1>3. shown' = shown \cup {s} /\ told' \subseteq told \cup {page.wish, rows[s]}
  BY DEF Done, Show
<1>4. /\ page' = [page EXCEPT !.phase = "idle", !.awaited = 0, !.ref = 0, !.stored = 0]
      /\ page \in Pages
  BY DEF Done, Inv, TypeOK
<1>5. page' \in Pages /\ page'.phase = "idle" /\ page'.ref = 0 /\ page'.stored = 0
      /\ page'.loop = page.loop
  BY <1>4 DEF Pages
<1>6. TypeOK'
  BY <1>1, <1>2, <1>3, <1>5, PageKeeps DEF Inv, TypeOK, PageWishes, tables
<1>7. KeysApart'
  <2>1. minted >= 0 /\ \A e \in sent : e[1] # 0
    BY DEF Inv, TypeOK, Keys
  <2> QED
    BY <1>5, <2>1, PageKeeps DEF Inv, KeysApart
<1>8. Visible'
  BY <1>1, <1>3, PageKeeps DEF Inv, Visible, Exists
<1>9. Believed'
  BY <1>1, <1>2, <1>3, PageKeeps DEF Inv, Believed
<1> QED
  BY <1>5, <1>6, <1>7, <1>8, <1>9, PageKeeps DEF Inv, Waiting

(* The page is idle, polling for the key it has stored, or for none. *)
LEMMA IdleKeeps ==
  ASSUME Inv, PageOnly, page' \in Pages, page'.phase = "idle",
         page'.ref \in {0, page.ref}, page'.stored \in {0, page.stored},
         page'.loop \in {0, page.stored, page.loop},
         answers' \subseteq answers, UNCHANGED <<shown, told>>
  PROVE  Inv'
<1>1. TypeOK'
  BY PageKeeps DEF Inv, TypeOK, tables
<1>2. KeysApart'
  <2>1. minted >= 0 /\ \A e \in sent : e[1] # 0
    BY DEF Inv, TypeOK, Keys
  <2> QED
    BY <2>1, PageKeeps DEF Inv, KeysApart
<1>3. Visible' /\ Believed'
  BY PageKeeps DEF Inv, Visible, Believed, Exists
<1> QED
  BY <1>1, <1>2, <1>3, PageKeeps DEF Inv, Waiting

LEMMA FailedKeeps ==
  ASSUME Inv, Failed, PageOnly, UNCHANGED answers
  PROVE  Inv'
<1>1. page \in Pages
  BY DEF Inv, TypeOK
<1>2. /\ page' \in Pages /\ page'.phase = "idle" /\ page'.ref = page.ref
      /\ page'.stored = page.stored /\ page'.loop = page.stored
  BY <1>1 DEF Failed, Pages
<1> QED
  BY <1>2, IdleKeeps DEF Failed

LEMMA AnsweredKeeps ==
  ASSUME Inv, Answered
  PROVE  Inv'
<1> DEFINE i == page.awaited
<1>1. /\ page.phase = "sending" /\ PageOnly /\ UNCHANGED answers
      /\ i \in Requests /\ requests[i].step # "none" /\ requests[i].key = page.ref
  BY DEF Answered, Inv, Waiting
<1>2. CASE requests[i].step = "found" /\ Done(Row(i))
  <2>1. Row(i) \in Slots /\ Row(i)[1] = page.ref /\ Exists(Row(i))
    BY <1>1, <1>2, RowType DEF Inv, Tables, RequestsFound
  <2> DEFINE r == Row(i)
  <2>2. r \in Slots /\ r[1] = page.ref /\ Exists(r) /\ Done(r) /\ page.phase # "idle"
    BY <1>1, <1>2, <2>1
  <2> HIDE DEF r
  <2> QED
    BY <1>1, <2>2, DoneKeeps
<1>3. CASE requests[i].step = "refused" /\ Failed
  BY <1>1, <1>3, FailedKeeps
<1> QED
  BY <1>2, <1>3 DEF Answered

LEMMA UnansweredKeeps ==
  ASSUME Inv, Unanswered
  PROVE  Inv'
<1>1. page.phase = "sending" /\ PageOnly /\ UNCHANGED answers /\ page \in Pages
  BY DEF Unanswered, Inv, TypeOK
<1>2. CASE page' = [page EXCEPT !.phase = "recovering"] /\ UNCHANGED <<shown, told>>
  <2>1. /\ page' \in Pages /\ page'.phase = "recovering" /\ page'.ref = page.ref
        /\ page'.wish = page.wish /\ page'.stored = page.stored /\ page'.loop = page.loop
    BY <1>1, <1>2 DEF Pages
  <2>2. TypeOK'
    BY <1>1, <1>2, <2>1, PageKeeps DEF Inv, TypeOK, tables
  <2>3. KeysApart' /\ Waiting'
    BY <1>1, <2>1, PageKeeps DEF Inv, KeysApart, Waiting
  <2>4. Visible' /\ Believed'
    BY <1>1, <1>2, PageKeeps DEF Inv, Visible, Believed, Exists
  <2> QED
    BY <1>1, <2>2, <2>3, <2>4, PageKeeps DEF Inv
<1>3. CASE Failed
  BY <1>1, <1>3, FailedKeeps
<1> QED
  BY <1>2, <1>3 DEF Unanswered

LEMMA RecoverKeeps ==
  ASSUME Inv, Recover
  PROVE  Inv'
<1>1. page.phase # "idle" /\ PageOnly /\ UNCHANGED answers
  BY DEF Recover
<1>2. CASE Failed
  BY <1>1, <1>2, FailedKeeps
<1>3. ASSUME NEW s \in Recovery(page.ref), Done(s)
      PROVE  Inv'
  BY <1>1, <1>3, RecoveryRows, DoneKeeps
<1> QED
  BY <1>2, <1>3 DEF Recover

LEMMA PollFindsKeeps ==
  ASSUME Inv, PollFinds
  PROVE  Inv'
<1>1. PICK s \in Recovery(page.loop) : answers' = answers \cup {s}
  BY DEF PollFinds
<1>2. s \in Slots /\ Exists(s) /\ rows[s] \in PageWishes
  BY <1>1, RecoveryRows, RowOfPage
<1>3. PageOnly /\ UNCHANGED <<page, shown, told>>
  BY DEF PollFinds
<1>4. TypeOK'
  BY <1>1, <1>2, <1>3, PageKeeps DEF Inv, TypeOK, tables
<1>5. KeysApart' /\ Waiting' /\ Believed'
  BY <1>3, PageKeeps DEF Inv, KeysApart, Waiting, Believed
<1>6. Visible'
  BY <1>1, <1>2, <1>3, PageKeeps DEF Inv, Visible, Exists
<1> QED
  BY <1>3, <1>4, <1>5, <1>6, PageKeeps DEF Inv

LEMMA PollShowsKeeps ==
  ASSUME Inv, NEW s \in Slots, PollShows(s)
  PROVE  Inv'
<1>1. /\ s \in answers /\ answers' = answers \ {s} /\ PageOnly
      /\ shown' = shown \cup {s} /\ told' \subseteq told \cup {rows[s]}
      /\ page' = [page EXCEPT !.stored = 0, !.loop = IF @ = s[1] THEN 0 ELSE @]
      /\ page \in Pages
  BY DEF PollShows, Show, Inv, TypeOK
<1>2. Exists(s) /\ rows[s] \in PageWishes /\ <<s[1], rows[s]>> \in sent
  BY <1>1 DEF Inv, Visible, Tables, RowsSent
<1>3. /\ page' \in Pages /\ page'.phase = page.phase /\ page'.ref = page.ref
      /\ page'.wish = page.wish /\ page'.awaited = page.awaited
      /\ page'.stored = 0 /\ page'.loop \in {0, page.loop}
  BY <1>1 DEF Pages
<1>4. TypeOK'
  BY <1>1, <1>2, <1>3, PageKeeps DEF Inv, TypeOK, PageWishes, tables
<1>5. KeysApart'
  <2>1. minted >= 0 /\ \A e \in sent : e[1] # 0
    BY DEF Inv, TypeOK, Keys
  <2> QED
    BY <1>1, <1>3, <2>1, PageKeeps DEF Inv, KeysApart
<1>6. Waiting'
  BY <1>1, <1>3, PageKeeps DEF Inv, Waiting
<1>7. Visible' /\ Believed'
  BY <1>1, <1>2, PageKeeps DEF Inv, Visible, Believed, Exists
<1> QED
  BY <1>1, <1>4, <1>5, <1>6, <1>7, PageKeeps DEF Inv

LEMMA PollEndsKeeps ==
  ASSUME Inv, PollEnds
  PROVE  Inv'
<1>1. /\ PageOnly /\ UNCHANGED <<answers, shown, told>>
      /\ page' = [page EXCEPT !.loop = 0] /\ page \in Pages
  BY DEF PollEnds, Inv, TypeOK
<1>2. /\ page' \in Pages /\ page'.phase = page.phase /\ page'.ref = page.ref
      /\ page'.wish = page.wish /\ page'.awaited = page.awaited
      /\ page'.stored = page.stored /\ page'.loop = 0
  BY <1>1 DEF Pages
<1>3. TypeOK'
  BY <1>1, <1>2, PageKeeps DEF Inv, TypeOK, tables
<1>4. KeysApart'
  <2>1. minted >= 0 /\ \A e \in sent : e[1] # 0
    BY DEF Inv, TypeOK, Keys
  <2> QED
    BY <1>1, <1>2, <2>1, PageKeeps DEF Inv, KeysApart
<1>5. Waiting' /\ Visible' /\ Believed'
  BY <1>1, <1>2, PageKeeps DEF Inv, Waiting, Visible, Believed, Exists
<1> QED
  BY <1>1, <1>3, <1>4, <1>5, PageKeeps DEF Inv

LEMMA ReloadKeeps ==
  ASSUME Inv, Reload
  PROVE  Inv'
<1>1. /\ UNCHANGED <<rows, ended, charged, dispatched, requests, minted, sent, shown, told,
                     restarts>>
      /\ answers' = {} /\ reloads' \in 0..MaxReloads /\ page \in Pages
      /\ page' = [page EXCEPT !.phase = "idle", !.awaited = 0, !.ref = 0, !.loop = page.stored]
  BY SubmissionAssumption DEF Reload, Inv, TypeOK, tables, history
<1>2. /\ page' \in Pages /\ page'.phase = "idle" /\ page'.ref = 0
      /\ page'.stored = page.stored /\ page'.loop = page.stored
  BY <1>1 DEF Pages
<1>3. TypeOK' /\ RequestsSent'
  BY <1>1, <1>2 DEF Inv, TypeOK, RequestsSent
<1>4. Tables'
  BY <1>1 DEF Inv, Tables, ChargedOnce, DispatchedOnce, RowsSent, RequestsFound, Dispatching,
              Exists, Row
<1>5. KeysApart'
  <2>1. minted >= 0 /\ \A e \in sent : e[1] # 0
    BY DEF Inv, TypeOK, Keys
  <2> QED
    BY <1>1, <1>2, <2>1 DEF Inv, KeysApart
<1> QED
  BY <1>1, <1>2, <1>3, <1>4, <1>5 DEF Inv, Waiting, Visible, Believed, Exists

(***************************************************************************)
(* Sending.                                                                *)
(***************************************************************************)

LEMMA SendKeeps ==
  ASSUME Inv, NEW i \in Requests, NEW w \in Wishes, NEW k \in Keys,
         NEW st \in {"arriving", "create"}, Send(i, w, k, st), UNCHANGED tables
  PROVE  /\ requests' \in [Requests -> RequestRecords]
         /\ requests'[i].key = k /\ requests'[i].step # "none"
         /\ \A j \in Requests \ {i} : requests'[j] = requests[j]
         /\ minted' \in Keys /\ minted' >= minted /\ minted' >= k
         /\ RequestsSent' /\ Tables'
<1>1. /\ requests \in [Requests -> RequestRecords] /\ minted \in {0} \cup Keys
      /\ requests' = [requests EXCEPT ![i] = [step |-> st, wish |-> w, key |-> k]]
      /\ requests[i].step = "none"
      /\ minted' = (IF k > minted THEN k ELSE minted) /\ sent' = sent \cup {<<k, w>>}
      /\ UNCHANGED <<rows, ended, charged, dispatched>>
  BY DEF Inv, TypeOK, Send, tables
<1>2. /\ requests' \in [Requests -> RequestRecords]
      /\ requests'[i] = [step |-> st, wish |-> w, key |-> k]
      /\ \A j \in Requests \ {i} : requests'[j] = requests[j]
  BY <1>1 DEF RequestRecords, Steps
<1>3. minted' \in Keys /\ minted' >= minted /\ minted' >= k
  BY <1>1 DEF Keys
<1>4. RequestsSent'
  BY <1>1, <1>2 DEF Inv, RequestsSent
<1>5. \A j \in Requests \ {i} : Row(j)' = Row(j)
  BY <1>2 DEF Row
<1>6. Tables'
  BY <1>1, <1>2, <1>5 DEF Inv, Tables, ChargedOnce, DispatchedOnce, RowsSent, RequestsFound,
                          Dispatching, Exists
<1> QED
  BY <1>2, <1>3, <1>4, <1>6

LEMMA SubmitKeeps ==
  ASSUME Inv, NEW i \in Requests, NEW w \in PageWishes, Submit(i, w)
  PROVE  Inv'
<1> DEFINE k == KeyInUse
<1>1. /\ w \in Wishes \ Orders /\ k \in Keys /\ Send(i, w, k, "arriving")
      /\ page' = [page EXCEPT !.phase = "sending", !.wish = w, !.awaited = i,
                              !.ref = k, !.stored = k, !.loop = 0]
      /\ sent' = sent \cup {<<k, w>>} /\ page \in Pages
      /\ UNCHANGED <<answers, tables, rows, ended, charged, dispatched, shown, told, reloads, restarts>>
  BY DEF Submit, Send, PageWishes, Inv, TypeOK, tables
<1>2. k = minted + 1 \/ k = page.ref
  BY DEF KeyInUse
<1> HIDE DEF k
<1>3. /\ page' \in Pages /\ page'.phase = "sending" /\ page'.wish = w /\ page'.awaited = i
      /\ page'.ref = k /\ page'.stored = k /\ page'.loop = 0
  BY <1>1 DEF Pages, PageWishes
<1>4. /\ requests' \in [Requests -> RequestRecords]
      /\ requests'[i].key = k /\ requests'[i].step # "none"
      /\ minted' \in Keys /\ minted' >= minted /\ minted' >= k
      /\ RequestsSent' /\ Tables'
  BY <1>1, SendKeeps
<1>5. TypeOK'
  BY <1>1, <1>3, <1>4 DEF Inv, TypeOK
<1>6. KeysApart'
  <2>1. \A e \in sent : e \in Keys \X Wishes /\ e[1] <= minted /\ e[1] # 0
    BY DEF Inv, TypeOK, KeysApart, Keys
  <2>2. \A e \in sent : e[2] \in Orders => e[1] # k
    BY <1>2, <2>1 DEF Inv, KeysApart, TypeOK, Keys
  <2>3. \A e \in sent' : e[1] <= minted' /\ e[1] # 0
    BY <1>1, <1>4, <2>1 DEF Inv, TypeOK, Keys
  <2>4. \A e \in sent' : e[2] \in Orders => e[1] # k
    BY <1>1, <2>2
  <2> QED
    BY <1>3, <1>4, <2>3, <2>4 DEF KeysApart, Keys
<1>7. Waiting'
  BY <1>1, <1>3, <1>4 DEF Waiting
<1>8. Visible' /\ Believed'
  BY <1>1 DEF Inv, Visible, Believed, Exists
<1> QED
  BY <1>4, <1>5, <1>6, <1>7, <1>8 DEF Inv

LEMMA OrderKeeps ==
  ASSUME Inv, NEW i \in Requests, NEW w \in Orders, Order(i, w)
  PROVE  Inv'
<1> DEFINE k == minted + 1
<1>1. PICK entry \in {"arriving", "create"} : Send(i, w, k, entry)
  BY DEF Order
<1>2. /\ w \in Wishes /\ k \in Keys /\ sent' = sent \cup {<<k, w>>}
      /\ UNCHANGED <<page, answers, tables, rows, ended, charged, dispatched, shown, told,
                     reloads, restarts>>
  BY <1>1, SubmissionAssumption DEF Order, Send, tables
<1> HIDE DEF k
<1>3. /\ requests' \in [Requests -> RequestRecords]
      /\ \A j \in Requests \ {i} : requests'[j] = requests[j]
      /\ minted' \in Keys /\ minted' >= minted /\ minted' >= k
      /\ RequestsSent' /\ Tables'
  BY <1>1, <1>2, SendKeeps
<1>4. TypeOK'
  BY <1>2, <1>3 DEF Inv, TypeOK
<1>5. KeysApart'
  <2>1. minted \in Nat /\ minted' \in Nat /\ k = minted + 1
    BY <1>3 DEF Inv, TypeOK, Keys, k
  <2>2. \A key \in {page.ref, page.stored, page.loop} : key <= minted /\ key \in Nat
    BY DEF Inv, KeysApart, TypeOK, Pages, Keys
  <2>3. \A e \in sent : e[1] <= minted /\ e[1] \in Nat
    BY DEF Inv, KeysApart, TypeOK, Keys
  <2> QED
    BY <1>2, <1>3, <2>1, <2>2, <2>3 DEF Inv, KeysApart
<1>6. Waiting'
  <2>1. page.phase = "sending" => requests[page.awaited].step # "none"
    BY DEF Inv, Waiting
  <2>2. requests[i].step = "none"
    BY <1>1 DEF Send
  <2> QED
    BY <1>2, <1>3, <2>1, <2>2 DEF Inv, Waiting
<1>7. Visible' /\ Believed'
  BY <1>2 DEF Inv, Visible, Believed, Exists
<1> QED
  BY <1>3, <1>4, <1>5, <1>6, <1>7 DEF Inv

-----------------------------------------------------------------------------
(***************************************************************************)
(* Theorems.                                                               *)
(***************************************************************************)

(* No step of the page, of a request or of the backend breaks it. *)
THEOREM StepInv == Inv /\ [Next]_vars => Inv'
<1> SUFFICES ASSUME Inv, [Next]_vars PROVE Inv'
  OBVIOUS
<1>1. CASE UNCHANGED vars
  <2>1. UNCHANGED <<page, answers, rows, ended, charged, dispatched, requests, minted, sent, shown,
                    told, reloads, restarts>>
    BY <1>1 DEF vars, tables, history
  <2>2. TypeOK' /\ RequestsSent'
    BY <2>1 DEF Inv, TypeOK, RequestsSent
  <2>3. Tables'
    BY <2>1 DEF Inv, Tables, ChargedOnce, DispatchedOnce, RowsSent, RequestsFound, Dispatching,
                Exists, Row
  <2> QED
    BY <2>1, <2>2, <2>3 DEF Inv, KeysApart, Waiting, Visible, Believed, Exists
<1>2. ASSUME NEW i \in Requests,
             \/ Lose(i) \/ Known(i) \/ Fresh(i) \/ Pass(i) \/ Refuse(i) \/ Existing(i)
      PROVE  Inv'
  <2>1. CASE Lose(i)
    BY <2>1, MoveKeeps DEF Lose, Steps
  <2>2. CASE Known(i)
    BY <2>2, MoveKeeps DEF Known, Steps
  <2>3. CASE Fresh(i)
    BY <2>3, MoveKeeps DEF Fresh, Steps
  <2>4. CASE Pass(i)
    BY <2>4, MoveKeeps DEF Pass, Steps
  <2>5. CASE Refuse(i)
    BY <2>5, MoveKeeps DEF Refuse, Steps
  <2>6. CASE Existing(i)
    BY <2>6, MoveKeeps DEF Existing, Steps
  <2> QED
    BY <1>2, <2>1, <2>2, <2>3, <2>4, <2>5, <2>6
<1>3. ASSUME NEW i \in Requests,
             \/ \E w \in PageWishes : Submit(i, w)
             \/ \E w \in Orders : Order(i, w)
             \/ Create(i) \/ Dispatch(i)
      PROVE  Inv'
  BY <1>3, SubmitKeeps, OrderKeeps, CreateKeeps, DispatchKeeps
<1>4. ASSUME NEW s \in Slots, End(s) \/ PollShows(s)
      PROVE  Inv'
  BY <1>4, EndKeeps, PollShowsKeeps
<1>5. CASE Restart \/ Answered \/ Unanswered \/ Recover \/ PollFinds \/ PollEnds \/ Reload
  BY <1>5, RestartKeeps, AnsweredKeeps, UnansweredKeeps, RecoverKeeps, PollFindsKeeps,
     PollEndsKeeps, ReloadKeeps
<1> QED
  BY <1>1, <1>2, <1>3, <1>4, <1>5, Zenon DEF Next

(* So it holds whatever is lost, late, repeated, reloaded or restarted. *)
THEOREM Invariance == Spec => []Inv
BY InitInv, StepInv, PTL DEF Spec

(* Types. *)
THEOREM TypeCorrect == Spec => []TypeOK
<1>1. Inv => TypeOK
  BY DEF Inv
<1> QED
  BY <1>1, Invariance, PTL

(* Every row is charged once, and nothing else is, whatever requests are   *)
(* lost, late, repeated or cut off by a restart.                           *)
THEOREM ChargedCorrect == Spec => []ChargedOnce
<1>1. Inv => ChargedOnce
  BY DEF Inv, Tables
<1> QED
  BY <1>1, Invariance, PTL

(* No row is handed over twice: only its creator does so. *)
THEOREM DispatchedCorrect == Spec => []DispatchedOnce
<1>1. Inv => DispatchedOnce
  BY DEF Inv, Tables
<1> QED
  BY <1>1, Invariance, PTL

(* The page shows its own, and a customer believes what has been shown.    *)
THEOREM ShownCorrect == Spec => []ShownTrue
<1>1. Inv => ShownTrue
  <2>1. Inv => shown \subseteq Slots
    BY DEF Inv, TypeOK
  <2> QED
    BY <2>1 DEF Inv, ShownTrue, Tables, RowsSent, Visible, Believed
<1> QED
  BY <1>1, Invariance, PTL

-----------------------------------------------------------------------------
(***************************************************************************)
(* A wish is granted once.                                                 *)
(***************************************************************************)

(* A row lies in the table of its wish. *)
RowsInTable == \A s \in Slots : Exists(s) => s[2] = Table(rows[s])

Other(w) == IF w \in Batches THEN "single" ELSE "batch"

(* The keys w was sent with under which it has been created, or may still *)
(* be, and nothing in the other table is.                                 *)
Open(w) ==
  {k \in Keys : /\ <<k, w>> \in sent
                /\ rows[<<k, Table(w)>>] \in {w, None}
                /\ ~Exists(<<k, Other(w)>>)}

(* A key is opened for w only while the page has none, and it has none     *)
(* after a reload, or when the customer has been told of w.                *)
OpenBounded ==
  /\ \A w \in Wishes : Cardinality(Open(w)) <= 1 + reloads
  /\ \A w \in PageWishes \ told : Cardinality(Open(w) \ {page.ref}) <= reloads

WishInv == Inv /\ RowsInTable /\ OpenBounded

LEMMA KeysFinite ==
  ASSUME NEW S, S \subseteq Keys
  PROVE  IsFiniteSet(S) /\ Cardinality(S) \in Nat
<1>1. IsFiniteSet(Keys)
  BY SubmissionAssumption, FS_Interval DEF Keys
<1> QED
  BY <1>1, FS_Subset, FS_CardinalityType

LEMMA KeysSubset ==
  ASSUME NEW S, NEW T, S \subseteq T, T \subseteq Keys
  PROVE  Cardinality(S) <= Cardinality(T)
BY KeysFinite, FS_Subset

(* One more element is one more at most. *)
LEMMA KeysAdd ==
  ASSUME NEW S, NEW T, NEW k \in Keys, S \subseteq T \cup {k}, T \subseteq Keys
  PROVE  Cardinality(S) <= Cardinality(T) + 1
<1>1. IsFiniteSet(T) /\ Cardinality(T) \in Nat
  BY KeysFinite
<1>2. Cardinality(T \cup {k}) <= Cardinality(T) + 1 /\ T \cup {k} \subseteq Keys
  <2>1. Cardinality(T \cup {k}) = IF k \in T THEN Cardinality(T) ELSE Cardinality(T) + 1
    BY <1>1, FS_AddElement
  <2> QED
    BY <1>1, <2>1
<1>3. Cardinality(S) <= Cardinality(T \cup {k})
  BY <1>2, KeysSubset
<1>4. Cardinality(S) \in Nat /\ Cardinality(T \cup {k}) \in Nat
  BY <1>2, KeysFinite
<1> QED
  BY <1>1, <1>2, <1>3, <1>4

LEMMA OpenKeys ==
  ASSUME NEW w
  PROVE  Open(w) \subseteq Keys
BY DEF Open

(* Where no key is opened, and the page gives none up, the bound stays. *)
LEMMA OpenKeeps ==
  ASSUME OpenBounded, Inv, page.ref = page'.ref, reloads' = reloads, told \subseteq told',
         \A w \in Wishes : Open(w)' \subseteq Open(w)
  PROVE  OpenBounded'
<1>1. ASSUME NEW w \in Wishes
      PROVE  Cardinality(Open(w))' <= 1 + reloads'
  <2>1. /\ Cardinality(Open(w)') <= Cardinality(Open(w))
        /\ Cardinality(Open(w)') \in Nat /\ Cardinality(Open(w)) \in Nat
        /\ Cardinality(Open(w)) <= 1 + reloads
    BY OpenKeys, KeysSubset, KeysFinite DEF OpenBounded
  <2> QED
    BY <2>1 DEF Inv, TypeOK
<1>2. ASSUME NEW w \in PageWishes \ told'
      PROVE  Cardinality(Open(w)' \ {page'.ref}) <= reloads'
  <2>1. w \in PageWishes \ told /\ w \in Wishes
    BY <1>2 DEF PageWishes
  <2> DEFINE A == Open(w)' \ {page'.ref}
             B == Open(w) \ {page.ref}
  <2>2. A \subseteq B /\ B \subseteq Keys /\ A \subseteq Keys
    BY <2>1, OpenKeys
  <2>3. Cardinality(B) <= reloads
    BY <2>1 DEF OpenBounded
  <2> HIDE DEF A, B
  <2>4. Cardinality(A) <= Cardinality(B) /\ Cardinality(A) \in Nat /\ Cardinality(B) \in Nat
    BY <2>2, KeysSubset, KeysFinite
  <2>5. Cardinality(A) <= reloads'
    BY <2>3, <2>4 DEF Inv, TypeOK
  <2> QED
    BY <2>5 DEF A
<1> QED
  BY <1>1, <1>2 DEF OpenBounded, PageWishes

LEMMA OpenSame ==
  ASSUME RowsInTable, UNCHANGED <<rows, sent>>
  PROVE  RowsInTable' /\ \A w : Open(w)' = Open(w)
BY DEF RowsInTable, Open, Exists

(* Most steps leave the tables and the key of the page alone. *)
LEMMA QuietKeeps ==
  ASSUME WishInv, UNCHANGED <<rows, sent, reloads>>, page'.ref = page.ref, told \subseteq told'
  PROVE  RowsInTable' /\ OpenBounded'
BY OpenSame, OpenKeeps DEF WishInv

LEMMA CreateOpens ==
  ASSUME WishInv, NEW i \in Requests, Create(i)
  PROVE  RowsInTable' /\ OpenBounded'
<1> DEFINE r == Row(i)
           v == requests[i].wish
<1>1. /\ r \in Slots /\ r[2] = Table(v) /\ v \in Wishes /\ ~Exists(r)
      /\ rows \in [Slots -> Wishes \cup {None}]
      /\ rows' = [rows EXCEPT ![r] = v]
      /\ UNCHANGED <<page, sent, told, reloads>>
  <2>1. requests[i].step # "none"
    BY DEF Create, Step
  <2> QED
    BY <2>1, RowType DEF WishInv, Inv, TypeOK, Create, Step, Unique, history, Row, RequestsSent
<1> HIDE DEF r, v
<1>2. /\ rows'[r] = v /\ \A s \in Slots \ {r} : rows'[s] = rows[s]
      /\ rows[r] = None /\ v # None
  BY <1>1, SubmissionAssumption DEF Exists
<1>3. RowsInTable'
  BY <1>1, <1>2 DEF WishInv, RowsInTable, Exists
<1>4. ASSUME NEW w \in Wishes, NEW k \in Open(w)'
      PROVE  k \in Open(w)
  <2>1. /\ <<k, Table(w)>> \in Slots /\ <<k, Other(w)>> \in Slots
        /\ k \in Keys /\ <<k, w>> \in sent
        /\ rows'[<<k, Table(w)>>] \in {w, None} /\ rows'[<<k, Other(w)>>] = None
    BY <1>1, <1>4 DEF Open, Slots, Table, Other, Exists
  <2>2. rows[<<k, Table(w)>>] \in {w, None} /\ rows[<<k, Other(w)>>] = None
    BY <1>2, <2>1
  <2> QED
    BY <2>1, <2>2 DEF Open, Exists
<1>5. \A w \in Wishes : Open(w)' \subseteq Open(w)
  BY <1>4
<1> QED
  BY <1>1, <1>3, <1>5, OpenKeeps DEF WishInv

(* A success gives the key up, but the customer is told of every wish it   *)
(* may still be created for.                                               *)
LEMMA DoneOpens ==
  ASSUME WishInv, page.phase # "idle", NEW s \in Slots, Exists(s), s[1] = page.ref,
         Done(s), PageOnly
  PROVE  RowsInTable' /\ OpenBounded'
<1>1. /\ UNCHANGED <<rows, sent, reloads>> /\ page \in Pages
      /\ told' = told \cup ({page.wish, rows[s]} \ {None})
      /\ page' = [page EXCEPT !.phase = "idle", !.awaited = 0, !.ref = 0, !.stored = 0]
  BY DEF PageOnly, Done, Show, tables, WishInv, Inv, TypeOK
<1>2. page'.ref = 0
  BY <1>1 DEF Pages
<1>3. RowsInTable' /\ \A w : Open(w)' = Open(w)
  BY <1>1, OpenSame DEF WishInv
<1>4. ASSUME NEW w \in Wishes
      PROVE  Cardinality(Open(w)') <= 1 + reloads'
  BY <1>1, <1>3 DEF WishInv, OpenBounded
<1>5. ASSUME NEW w \in PageWishes \ told'
      PROVE  Cardinality(Open(w)' \ {page'.ref}) <= reloads'
  <2>1. w # rows[s] /\ w \notin told /\ w \in Wishes
    BY <1>1, <1>5, SubmissionAssumption DEF Exists, PageWishes
  <2>2. s = <<page.ref, Table(w)>> \/ s = <<page.ref, Other(w)>>
    BY DEF Slots, Table, Other
  <2>3. page.ref \notin Open(w)
    BY <2>1, <2>2 DEF Open, Exists
  <2>4. Open(w)' \ {page'.ref} = Open(w) \ {page.ref}
    <3>1. 0 \notin Open(w)
      BY DEF Open, Keys
    <3> QED
      BY <1>2, <1>3, <2>3, <3>1
  <2>5. Cardinality(Open(w) \ {page.ref}) <= reloads
    BY <1>5, <2>1 DEF WishInv, OpenBounded
  <2> QED
    BY <1>1, <2>4, <2>5
<1> QED
  BY <1>3, <1>4, <1>5 DEF OpenBounded

(* A reload gives the key up whatever has become of it, once. *)
LEMMA ReloadOpens ==
  ASSUME WishInv, Reload
  PROVE  RowsInTable' /\ OpenBounded'
<1>1. /\ UNCHANGED <<rows, sent, told>> /\ reloads' = reloads + 1 /\ reloads \in Nat
      /\ page' = [page EXCEPT !.phase = "idle", !.awaited = 0, !.ref = 0, !.loop = page.stored]
      /\ page \in Pages
  BY SubmissionAssumption DEF Reload, WishInv, Inv, TypeOK, tables, history
<1>2. RowsInTable' /\ \A w : Open(w)' = Open(w)
  BY <1>1, OpenSame DEF WishInv
<1>3. ASSUME NEW w \in Wishes
      PROVE  /\ Cardinality(Open(w)') <= 1 + reloads'
             /\ Cardinality(Open(w)' \ {page'.ref}) <= reloads'
  <2>1. /\ Cardinality(Open(w)) <= 1 + reloads
        /\ Cardinality(Open(w)) \in Nat
    BY OpenKeys, KeysFinite DEF WishInv, OpenBounded
  <2> DEFINE A == Open(w)' \ {page'.ref}
  <2>2. A \subseteq Open(w)
    BY <1>2
  <2> HIDE DEF A
  <2>3. Cardinality(A) <= Cardinality(Open(w)) /\ Cardinality(A) \in Nat
    BY <2>2, OpenKeys, KeysSubset, KeysFinite
  <2>4. Cardinality(Open(w)') <= 1 + reloads'
    BY <1>1, <1>2, <2>1
  <2>5. Cardinality(A) <= reloads'
    BY <1>1, <2>1, <2>3
  <2> QED
    BY <2>4, <2>5 DEF A
<1> QED
  BY <1>2, <1>3 DEF OpenBounded, PageWishes

(* A submission opens a key only if the page has none. *)
LEMMA SubmitOpens ==
  ASSUME WishInv, NEW i \in Requests, NEW w \in PageWishes, Submit(i, w)
  PROVE  RowsInTable' /\ OpenBounded'
<1> DEFINE k == KeyInUse
<1>1. /\ w \in Wishes /\ w \notin told /\ k \in Keys /\ page \in Pages
      /\ sent' = sent \cup {<<k, w>>}
      /\ page' = [page EXCEPT !.phase = "sending", !.wish = w, !.awaited = i,
                              !.ref = k, !.stored = k, !.loop = 0]
      /\ UNCHANGED <<rows, told, reloads>> /\ reloads \in Nat
  BY SubmissionAssumption DEF Submit, Send, PageWishes, WishInv, Inv, TypeOK, tables
<1>2. page'.ref = k /\ (page.ref = k \/ page.ref = 0)
  BY <1>1 DEF Pages, KeyInUse
<1> HIDE DEF k
<1>3. RowsInTable'
  BY <1>1 DEF WishInv, RowsInTable, Exists
<1>4. \A v \in Wishes : /\ Open(v)' \subseteq Open(v) \cup {k}
                        /\ v # w => Open(v)' = Open(v)
  BY <1>1 DEF Open, Exists
<1>5. \A v : 0 \notin Open(v)
  BY DEF Open, Keys
<1>6. ASSUME NEW v \in Wishes
      PROVE  Cardinality(Open(v)') <= 1 + reloads'
  <2>1. CASE v # w
    BY <1>1, <1>4, <2>1 DEF WishInv, OpenBounded
  <2>2. CASE v = w
    <3> DEFINE B == Open(w) \ {page.ref}
    <3>1. B \subseteq Keys /\ Open(v)' \subseteq B \cup {k} /\ Open(v)' \subseteq Keys
      BY <1>1, <1>2, <1>4, <1>5, <2>2, OpenKeys
    <3>2. Cardinality(B) <= reloads
      BY <1>1 DEF WishInv, OpenBounded
    <3> HIDE DEF B
    <3>3. /\ Cardinality(Open(v)') <= Cardinality(B) + 1
          /\ Cardinality(Open(v)') \in Nat /\ Cardinality(B) \in Nat
      BY <1>1, <3>1, KeysAdd, KeysFinite
    <3> QED
      BY <1>1, <3>2, <3>3
  <2> QED
    BY <2>1, <2>2
<1>7. ASSUME NEW v \in PageWishes \ told'
      PROVE  Cardinality(Open(v)' \ {page'.ref}) <= reloads'
  <2> DEFINE A == Open(v)' \ {page'.ref}
             B == Open(v) \ {page.ref}
  <2>1. v \in PageWishes \ told /\ v \in Wishes
    BY <1>1, <1>7 DEF PageWishes
  <2>2. A \subseteq B /\ B \subseteq Keys /\ A \subseteq Keys
    BY <1>2, <1>4, <1>5, <2>1, OpenKeys
  <2>3. Cardinality(B) <= reloads
    BY <2>1 DEF WishInv, OpenBounded
  <2> HIDE DEF A, B
  <2>4. Cardinality(A) <= Cardinality(B) /\ Cardinality(A) \in Nat /\ Cardinality(B) \in Nat
    BY <2>2, KeysSubset, KeysFinite
  <2>5. Cardinality(A) <= reloads'
    BY <1>1, <2>3, <2>4
  <2> QED
    BY <2>5 DEF A
<1> QED
  BY <1>3, <1>6, <1>7 DEF OpenBounded

(* An order is sent once, with a key of its own. *)
LEMMA OrderOpens ==
  ASSUME WishInv, NEW i \in Requests, NEW w \in Orders, Order(i, w)
  PROVE  RowsInTable' /\ OpenBounded'
<1> DEFINE k == minted + 1
<1>1. /\ w \in Wishes /\ k \in Keys /\ sent' = sent \cup {<<k, w>>}
      /\ \A e \in sent : e[2] # w
      /\ UNCHANGED <<page, rows, told, reloads>> /\ reloads \in Nat
  BY SubmissionAssumption DEF Order, Send, WishInv, Inv, TypeOK, tables
<1> HIDE DEF k
<1>2. RowsInTable'
  BY <1>1 DEF WishInv, RowsInTable, Exists
<1>3. \A v \in Wishes \ {w} : Open(v)' = Open(v)
  BY <1>1 DEF Open, Exists
<1>4. Open(w)' \subseteq {} \cup {k}
  BY <1>1 DEF Open, Exists
<1>5. ASSUME NEW v \in Wishes
      PROVE  Cardinality(Open(v)') <= 1 + reloads'
  <2>1. CASE v # w
    BY <1>1, <1>3, <2>1 DEF WishInv, OpenBounded
  <2>2. CASE v = w
    <3>1. Cardinality(Open(v)') <= Cardinality({}) + 1 /\ Cardinality({}) = 0
      BY <1>1, <1>4, <2>2, KeysAdd, FS_EmptySet
    <3>2. Cardinality(Open(v)') \in Nat
      BY <1>1, <1>4, <2>2, KeysFinite
    <3> QED
      BY <1>1, <3>1, <3>2
  <2> QED
    BY <2>1, <2>2
<1>6. ASSUME NEW v \in PageWishes \ told'
      PROVE  Cardinality(Open(v)' \ {page'.ref}) <= reloads'
  <2>1. v \in Wishes \ {w} /\ v \in PageWishes \ told
    BY <1>1, <1>6 DEF PageWishes
  <2>2. Cardinality(Open(v) \ {page.ref}) <= reloads
    BY <2>1 DEF WishInv, OpenBounded
  <2> QED
    BY <1>1, <1>3, <2>1, <2>2
<1> QED
  BY <1>2, <1>5, <1>6 DEF OpenBounded

LEMMA FailedQuiet ==
  ASSUME WishInv, Failed, PageOnly
  PROVE  RowsInTable' /\ OpenBounded'
<1>1. UNCHANGED <<rows, sent, reloads, told>> /\ page'.ref = page.ref
  BY DEF Failed, PageOnly, tables, WishInv, Inv, TypeOK, Pages
<1> QED
  BY <1>1, QuietKeeps

(* Before anything is submitted no key is open. *)
THEOREM InitWish == Init => WishInv
<1> SUFFICES ASSUME Init PROVE WishInv
  OBVIOUS
<1>1. RowsInTable
  BY DEF Init, RowsInTable, Exists
<1>2. \A w : Open(w) = {}
  BY DEF Init, Open
<1>3. OpenBounded
  BY <1>2, FS_EmptySet DEF Init, OpenBounded
<1> QED
  BY <1>1, <1>3, InitInv DEF WishInv

(* Keys are opened by submissions and orders, and given up by answers that *)
(* say what has become of them, or by reloads; all else closes keys.       *)
THEOREM StepWish == WishInv /\ [Next]_vars => WishInv'
<1> SUFFICES ASSUME WishInv, [Next]_vars PROVE WishInv'
  OBVIOUS
<1>1. Inv'
  BY StepInv DEF WishInv
<1>2. page \in Pages
  BY DEF WishInv, Inv, TypeOK
<1> SUFFICES RowsInTable' /\ OpenBounded'
  BY <1>1 DEF WishInv
<1>3. CASE UNCHANGED vars
  BY <1>3, QuietKeeps DEF vars, tables, history
<1>4. ASSUME NEW i \in Requests,
             \/ Lose(i) \/ Known(i) \/ Fresh(i) \/ Pass(i) \/ Refuse(i) \/ Existing(i)
             \/ Dispatch(i)
      PROVE  RowsInTable' /\ OpenBounded'
  <2>1. UNCHANGED <<rows, sent, reloads, page, told>>
    BY <1>4 DEF Lose, Known, Fresh, Pass, Refuse, Existing, Dispatch, Step, tables, history
  <2> QED
    BY <2>1, QuietKeeps
<1>5. ASSUME NEW s \in Slots, End(s) \/ PollShows(s)
      PROVE  RowsInTable' /\ OpenBounded'
  <2>1. UNCHANGED <<rows, sent, reloads>> /\ page'.ref = page.ref /\ told \subseteq told'
    BY <1>2, <1>5 DEF End, PollShows, PageOnly, Show, tables, history, Pages
  <2> QED
    BY <2>1, QuietKeeps
<1>6. CASE Restart \/ PollFinds \/ PollEnds
  <2>1. UNCHANGED <<rows, sent, reloads>> /\ page'.ref = page.ref /\ told \subseteq told'
    BY <1>2, <1>6 DEF Restart, PollFinds, PollEnds, PageOnly, tables, history, Pages
  <2> QED
    BY <2>1, QuietKeeps
<1>7. CASE Answered
  <2>1. CASE requests[page.awaited].step = "found" /\ Done(Row(page.awaited))
    <3> DEFINE r == Row(page.awaited)
    <3>1. /\ r \in Slots /\ r[1] = page.ref /\ Exists(r) /\ page.phase # "idle"
          /\ Done(r) /\ PageOnly
      <4>1. /\ page.phase = "sending" /\ page.awaited \in Requests
            /\ requests[page.awaited].step # "none"
            /\ requests[page.awaited].key = page.ref
        BY <1>7 DEF Answered, WishInv, Inv, Waiting
      <4>2. r \in Slots /\ r[1] = page.ref
        BY <4>1, RowType DEF WishInv, Inv
      <4> QED
        BY <1>7, <2>1, <4>1, <4>2 DEF Answered, WishInv, Inv, Tables, RequestsFound
    <3> HIDE DEF r
    <3> QED
      BY <3>1, DoneOpens
  <2> QED
    BY <1>7, <2>1, FailedQuiet DEF Answered
<1>8. CASE Unanswered
  <2>1. CASE page' = [page EXCEPT !.phase = "recovering"] /\ UNCHANGED <<shown, told>>
    <3>1. UNCHANGED <<rows, sent, reloads, told>> /\ page'.ref = page.ref
      BY <1>2, <1>8, <2>1 DEF Unanswered, PageOnly, tables, Pages
    <3> QED
      BY <3>1, QuietKeeps
  <2> QED
    BY <1>8, <2>1, FailedQuiet DEF Unanswered
<1>9. CASE Recover
  <2>1. ASSUME NEW s \in Recovery(page.ref), Done(s)
        PROVE  RowsInTable' /\ OpenBounded'
    BY <1>9, <2>1, RecoveryRows, DoneOpens DEF Recover
  <2> QED
    BY <1>9, <2>1, FailedQuiet DEF Recover
<1>10. ASSUME NEW i \in Requests,
              \/ \E w \in PageWishes : Submit(i, w)
              \/ \E w \in Orders : Order(i, w)
              \/ Create(i)
       PROVE  RowsInTable' /\ OpenBounded'
  BY <1>10, SubmitOpens, OrderOpens, CreateOpens
<1> QED
  BY <1>3, <1>4, <1>5, <1>6, <1>7, <1>8, <1>9, <1>10, ReloadOpens, Zenon DEF Next

(* The rows of a wish lie under its open keys, but where one lies in the   *)
(* other table as well.                                                    *)
LEMMA OpenRows ==
  ASSUME WishInv, NEW w \in Wishes
  PROVE  Cardinality({s \in Slots : rows[s] = w}) <= 1 + reloads + Cardinality(Doubled)
<1> DEFINE R == {s \in Slots : rows[s] = w}
           T == Open(w) \cup Doubled
           key == [s \in R |-> s[1]]
<1>1. w # None
  BY SubmissionAssumption
<1>2. \A s \in R : s \in Slots /\ s = <<s[1], Table(w)>> /\ s[1] \in Keys /\ Exists(s)
  BY <1>1 DEF WishInv, RowsInTable, Exists, Slots
<1>3. \A s \in R : s[1] \in T
  <2> TAKE s \in R
  <2>1. <<s[1], w>> \in sent /\ rows[<<s[1], Table(w)>>] = w
    BY <1>2 DEF WishInv, Inv, Tables, RowsSent
  <2>2. CASE Exists(<<s[1], Other(w)>>)
    BY <1>2, <2>2 DEF Doubled, Other, Table
  <2>3. CASE ~Exists(<<s[1], Other(w)>>)
    BY <1>2, <2>1, <2>3 DEF Open
  <2> QED
    BY <2>2, <2>3
<1>4. key \in [R -> T] /\ \A s, t \in R : key[s] = key[t] => s = t
  BY <1>2, <1>3
<1>5. key \in Injection(R, T)
  BY <1>4 DEF Injection, IsInjective
<1>6. Open(w) \subseteq Keys /\ Doubled \subseteq Keys
  BY DEF Open, Doubled
<1>7. /\ IsFiniteSet(Open(w)) /\ IsFiniteSet(Doubled)
      /\ Cardinality(Open(w)) \in Nat /\ Cardinality(Doubled) \in Nat
  BY <1>6, KeysFinite
<1>8. /\ IsFiniteSet(T)
      /\ Cardinality(T) = Cardinality(Open(w)) + Cardinality(Doubled)
                          - Cardinality(Open(w) \cap Doubled)
  BY <1>7, FS_Union
<1>9. Cardinality(Open(w) \cap Doubled) \in Nat
  BY <1>6, KeysFinite
<1> HIDE DEF R, T, key
<1>10. Cardinality(R) <= Cardinality(T) /\ Cardinality(R) \in Nat
  BY <1>5, <1>8, FS_Injection, FS_CardinalityType
<1>11. Cardinality(Open(w)) <= 1 + reloads /\ reloads \in Nat
  BY SubmissionAssumption DEF WishInv, OpenBounded, Inv, TypeOK
<1>12. Cardinality(R) <= 1 + reloads + Cardinality(Doubled)
  BY <1>7, <1>8, <1>9, <1>10, <1>11
<1> QED
  BY <1>12 DEF R

(* A customer gets a wish at most once per life of the page, but for keys  *)
(* that are in use in both tables, whatever is lost, late or repeated.     *)
THEOREM WishedCorrect == Spec => []WishedOnce
<1>1. WishInv => WishedOnce
  BY OpenRows DEF WishedOnce
<1> QED
  BY <1>1, InitWish, StepWish, PTL DEF Spec
=============================================================================
