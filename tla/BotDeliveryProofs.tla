------------------------- MODULE BotDeliveryProofs -------------------------
(***************************************************************************)
(* Proofs about BotDelivery, for any number of overlapping rounds, faults  *)
(* and restarts.                                                           *)
(***************************************************************************)
EXTENDS BotDelivery, TLAPS

USE DEF task

-----------------------------------------------------------------------------
(* Types.                                                                  *)

LEMMA AgentSets ==
  /\ Pollers \subseteq Agents /\ Drainers \subseteq Agents /\ Scanners \subseteq Agents
  /\ \A p \in Pollers : p \notin Drainers /\ p \notin Scanners
  /\ \A d \in Drainers : d \notin Pollers /\ d \notin Scanners
  /\ \A s \in Scanners : s \notin Pollers /\ s \notin Drainers
BY AgentsAssumption DEF Agents

(* What every push leaves well typed.                                      *)
LEMMA PushedType ==
  ASSUME TypeOK, NEW o \in Outcomes, NEW kind, Pushed(o, kind)
  PROVE  faults' \in 0..MaxFaults /\ answered' \in BOOLEAN /\ shown' \in 0..ShownCap
BY BoundsAssumption DEF TypeOK, Pushed, Fails, AnotherShown, ShownCap, Outcomes

LEMMA ConfirmsType ==
  ASSUME TypeOK, NEW ok \in BOOLEAN, Confirms(ok)
  PROVE  faults' \in 0..MaxFaults /\ acks' \in BOOLEAN
<1>1. faults \in 0..MaxFaults /\ acks \in BOOLEAN
  BY DEF TypeOK
<1>2. CASE ok
  BY <1>1, <1>2 DEF Confirms
<1>3. CASE ~ok
  BY <1>1, <1>3, BoundsAssumption DEF Confirms, Fails
<1> QED
  BY <1>2, <1>3

LEMMA PushToQueueType ==
  ASSUME TypeOK, NEW key \in Keys, NEW kind \in Kinds, PushToQueue(key, kind)
  PROVE  /\ item' \in [Keys -> Kinds \cup {"none"}] /\ held' \in SUBSET Keys
         /\ load' \in [Drainers -> [key : Keys, kind : Kinds]]
BY DEF TypeOK, PushToQueue

(* The entry keeps its type whatever a step does to it.                    *)
EntryType ==
  /\ pending \in Pendings /\ file \in Pendings
  /\ inFlight \in BOOLEAN /\ queued \in BOOLEAN
  /\ pending # "live" => inFlight = FALSE /\ queued = FALSE

LEMMA EntrySteps ==
  ASSUME TypeOK, DropEntry \/ LeavesToQueue \/ UNCHANGED entry
  PROVE  EntryType'
BY DEF TypeOK, EntryType, DropEntry, LeavesToQueue, entry, Pendings

LEMMA NoLoadType == NoLoad \in [key : Keys, kind : Kinds]
BY DEF NoLoad, Keys, Kinds

LEMMA QueueSteps ==
  ASSUME TypeOK, NEW d \in Drainers, DrainReturns(d) \/ Releases(d) \/ UNCHANGED queue
  PROVE  /\ item' \in [Keys -> Kinds \cup {"none"}] /\ held' \in SUBSET Keys
         /\ load' \in [Drainers -> [key : Keys, kind : Kinds]]
<1>1. /\ item \in [Keys -> Kinds \cup {"none"}] /\ held \in SUBSET Keys
      /\ load \in [Drainers -> [key : Keys, kind : Kinds]]
      /\ load[d].key \in Keys /\ load[d].kind \in Kinds
  BY DEF TypeOK
<1>2. CASE DrainReturns(d)
  BY <1>1, <1>2, NoLoadType DEF DrainReturns, LetsGo
<1>3. CASE Releases(d)
  BY <1>1, <1>3, NoLoadType DEF Releases, LetsGo
<1>4. CASE UNCHANGED queue
  BY <1>1, <1>4 DEF queue
<1> QED
  BY <1>2, <1>3, <1>4

(* The rest of the type invariant.                                         *)
OtherTypes ==
  /\ status \in Statuses /\ picture \in BOOLEAN /\ repair \in BOOLEAN
  /\ restoring \in {"asking", "found", "done"}
  /\ acks \in BOOLEAN
  /\ recovering \in BOOLEAN
  /\ item \in [Keys -> Kinds \cup {"none"}]
  /\ held \in SUBSET Keys
  /\ at \in [Agents -> {"idle", "read", "push", "text", "tell", "settle"}]
  /\ seen \in [Pollers -> Views]
  /\ load \in [Drainers -> [key : Keys, kind : Kinds]]
  /\ shown \in 0..ShownCap
  /\ answered \in BOOLEAN
  /\ scanned \in BOOLEAN
  /\ faults \in 0..MaxFaults
  /\ crashes \in 0..MaxCrashes

LEMMA TypeSplit == TypeOK <=> EntryType /\ OtherTypes
BY DEF TypeOK, EntryType, OtherTypes

LEMMA PollerType ==
  ASSUME TypeOK, NEW p \in Pollers, PollerStep(p)
  PROVE  TypeOK'
<1>0. p \in Agents
  BY AgentSets
<1>1. PollKey(p) \in Keys /\ "task" \in Keys
  BY DEF PollKey, Keys
<1>2. CASE PollReads(p)
  BY <1>0, <1>2 DEF PollReads, TypeOK, Goes, entry, queue, history, Views
<1>3. CASE PollSkips(p)
  <2>1. EntryType'
    BY <1>3, EntrySteps DEF PollSkips
  <2>2. OtherTypes'
    BY <1>0, <1>3 DEF PollSkips, TypeOK, OtherTypes, Goes, Remembers, queue, history, Views, Statuses
  <2> QED
    BY <2>1, <2>2, TypeSplit DEF TypeOK, EntryType, OtherTypes
<1>4. CASE PollBegins(p)
  BY <1>0, <1>4 DEF PollBegins, Takes, TypeOK, Goes, queue, history
<1>9. CASE PollGivesBack(p)
  <2>1. EntryType'
    BY <1>9 DEF PollGivesBack, TypeOK, EntryType
  <2>2. OtherTypes'
    BY <1>0, <1>9 DEF PollGivesBack, TypeOK, OtherTypes, Goes, Remembers, queue, history, Views, Statuses
  <2> QED
    BY <2>1, <2>2, TypeSplit DEF TypeOK, EntryType, OtherTypes
<1>5. CASE PollSends(p)
  <2>1. PICK o \in Outcomes :
         /\ Pushed(o, "picture")
         /\ CASE o = "offline" -> /\ PushToQueue(PollKey(p), "picture")
                                  /\ LeavesToQueue
                                  /\ Goes(p, "idle")
              [] o = "refused" -> Goes(p, "text") /\ UNCHANGED <<entry, queue>>
              [] OTHER -> PollAnswered(p) /\ UNCHANGED queue
    BY <1>5 DEF PollSends
  <2>2. EntryType'
    BY <2>1, EntrySteps DEF PollAnswered, Outcomes, entry
  <2>3. /\ item' \in [Keys -> Kinds \cup {"none"}] /\ held' \in SUBSET Keys
        /\ load' \in [Drainers -> [key : Keys, kind : Kinds]]
    BY <2>1, <1>1, PushToQueueType DEF Outcomes, queue, TypeOK, Kinds
  <2>4. at' \in [Agents -> {"idle", "read", "push", "text", "tell", "settle"}]
    BY <2>1, <1>0 DEF PollAnswered, Goes, TypeOK, Outcomes
  <2>5. seen' \in [Pollers -> Views]
    BY <1>5 DEF PollSends, Remembers, TypeOK, Views, Statuses
  <2>6. OtherTypes'
    BY <1>5, <2>1, <2>3, <2>4, <2>5, PushedType DEF PollSends, OtherTypes, TypeOK
  <2> QED
    BY <2>2, <2>6, TypeSplit DEF TypeOK, EntryType, OtherTypes
<1>6. CASE PollTexts(p)
  <2>1. PICK o \in Outcomes :
         /\ Pushed(o, "text")
         /\ IF o = "offline"
            THEN /\ PushToQueue(PollKey(p), "text")
                 /\ LeavesToQueue
                 /\ Goes(p, "idle")
            ELSE PollAnswered(p) /\ UNCHANGED queue
    BY <1>6 DEF PollTexts
  <2>2. EntryType'
    BY <2>1, EntrySteps DEF PollAnswered
  <2>3. /\ item' \in [Keys -> Kinds \cup {"none"}] /\ held' \in SUBSET Keys
        /\ load' \in [Drainers -> [key : Keys, kind : Kinds]]
    BY <2>1, <1>1, PushToQueueType DEF queue, TypeOK, Kinds
  <2>4. at' \in [Agents -> {"idle", "read", "push", "text", "tell", "settle"}]
    BY <2>1, <1>0 DEF PollAnswered, Goes, TypeOK
  <2>5. seen' \in [Pollers -> Views]
    BY <1>6 DEF PollTexts, Remembers, TypeOK, Views, Statuses
  <2>6. OtherTypes'
    BY <1>6, <2>1, <2>3, <2>4, <2>5, PushedType DEF PollTexts, OtherTypes, TypeOK
  <2> QED
    BY <2>2, <2>6, TypeSplit DEF TypeOK, EntryType, OtherTypes
<1>7. CASE PollTells(p)
  <2>1. EntryType'
    BY <1>7, EntrySteps DEF PollTells
  <2>2. faults' \in 0..MaxFaults /\ acks' \in BOOLEAN
    BY <1>7, ConfirmsType DEF PollTells
  <2>3. OtherTypes'
    BY <1>0, <1>7, <2>2 DEF PollTells, TypeOK, OtherTypes, Goes, Remembers, queue, history, Views, Statuses
  <2> QED
    BY <2>1, <2>3, TypeSplit DEF TypeOK, EntryType, OtherTypes
<1>8. CASE PollSendsFailure(p)
  <2>1. PICK o \in Outcomes, kind \in {"card", "text"} :
         /\ Pushed(o, kind)
         /\ IF o \in {"offline", "refused"}
            THEN PushToQueue("task", kind) /\ LeavesToQueue
            ELSE DropEntry /\ UNCHANGED queue
    BY <1>8 DEF PollSendsFailure
  <2>2. EntryType'
    BY <2>1, EntrySteps
  <2>3. /\ item' \in [Keys -> Kinds \cup {"none"}] /\ held' \in SUBSET Keys
        /\ load' \in [Drainers -> [key : Keys, kind : Kinds]]
    BY <2>1, <1>1, PushToQueueType DEF queue, TypeOK, Kinds
  <2>4. at' \in [Agents -> {"idle", "read", "push", "text", "tell", "settle"}]
    BY <1>8, <1>0 DEF PollSendsFailure, Goes, TypeOK
  <2>5. seen' \in [Pollers -> Views]
    BY <1>8 DEF PollSendsFailure, Remembers, TypeOK, Views, Statuses
  <2>6. OtherTypes'
    BY <1>8, <2>1, <2>3, <2>4, <2>5, PushedType DEF PollSendsFailure, OtherTypes, TypeOK
  <2> QED
    BY <2>2, <2>6, TypeSplit DEF TypeOK, EntryType, OtherTypes
<1> QED
  BY <1>2, <1>3, <1>4, <1>5, <1>6, <1>7, <1>8, <1>9 DEF PollerStep

LEMMA DrainerType ==
  ASSUME TypeOK, NEW d \in Drainers, DrainerStep(d)
  PROVE  TypeOK'
<1>0. d \in Agents
  BY AgentSets
<1>1. CASE DrainTakes(d)
  BY <1>0, <1>1 DEF DrainTakes, TypeOK, Goes, entry, history
<1>2. CASE DrainSends(d)
  <2>1. PICK o \in Outcomes :
         /\ Pushed(o, load[d].kind)
         /\ CASE o = "offline" -> DrainReturns(d)
              [] o = "sent" ->
                   /\ Releases(d)
                   /\ IF load[d].key = "delivered"
                      THEN Goes(d, "tell") /\ UNCHANGED entry
                      ELSE Goes(d, "idle") /\ DropEntry
              [] o = "uncertain" /\ load[d].key = "delivered" -> DrainAnswered(d)
              [] OTHER -> IF load[d].kind = "card"
                          THEN DrainAnswered(d)
                          ELSE Goes(d, "text") /\ UNCHANGED <<entry, queue>>
    BY <1>2 DEF DrainSends
  <2>2. /\ DropEntry \/ UNCHANGED entry
        /\ DrainReturns(d) \/ Releases(d) \/ UNCHANGED queue
        /\ \E place \in {"idle", "tell", "settle", "text"} : Goes(d, place)
    BY <2>1 DEF DrainReturns, DrainAnswered, Outcomes
  <2>3. EntryType'
    BY <2>2, EntrySteps
  <2>4. OtherTypes'
    BY <1>0, <1>2, <2>1, <2>2, QueueSteps, PushedType
      DEF DrainSends, OtherTypes, TypeOK, Goes
  <2> QED
    BY <2>3, <2>4, TypeSplit DEF TypeOK, EntryType, OtherTypes
<1>3. CASE DrainTexts(d)
  <2>1. PICK o \in Outcomes :
         /\ Pushed(o, "text")
         /\ IF o = "offline" THEN DrainReturns(d) ELSE DrainAnswered(d)
    BY <1>3 DEF DrainTexts
  <2>2. /\ DropEntry \/ UNCHANGED entry
        /\ DrainReturns(d) \/ Releases(d) \/ UNCHANGED queue
        /\ \E place \in {"idle", "tell", "settle", "text"} : Goes(d, place)
    BY <2>1 DEF DrainReturns, DrainAnswered
  <2>3. EntryType'
    BY <2>2, EntrySteps
  <2>4. OtherTypes'
    BY <1>0, <1>3, <2>1, <2>2, QueueSteps, PushedType
      DEF DrainTexts, OtherTypes, TypeOK, Goes
  <2> QED
    BY <2>3, <2>4, TypeSplit DEF TypeOK, EntryType, OtherTypes
<1>4. CASE DrainTells(d)
  <2>1. EntryType'
    BY <1>4, EntrySteps DEF DrainTells
  <2>2. faults' \in 0..MaxFaults /\ acks' \in BOOLEAN
    BY <1>4, ConfirmsType DEF DrainTells
  <2>3. OtherTypes'
    BY <1>0, <1>4, <2>2, QueueSteps DEF DrainTells, TypeOK, OtherTypes, Goes, history
  <2> QED
    BY <2>1, <2>3, TypeSplit DEF TypeOK, EntryType, OtherTypes
<1> QED
  BY <1>1, <1>2, <1>3, <1>4 DEF DrainerStep

LEMMA ScannerType ==
  ASSUME TypeOK, NEW s \in Scanners, ScannerStep(s)
  PROVE  TypeOK'
<1>0. s \in Agents
  BY AgentSets
<1>1. CASE ScanReads(s) \/ ScanSkips(s) \/ ScanBegins(s)
  <2>1. /\ UNCHANGED <<task, entry, restoring, acks, queue, seen, history, faults, crashes>>
        /\ recovering' \in BOOLEAN /\ scanned' \in BOOLEAN
        /\ \E place \in {"idle", "read", "push"} : Goes(s, place)
    BY <1>1 DEF ScanReads, ScanSkips, ScanBegins, TypeOK
  <2> QED
    BY <1>0, <2>1 DEF TypeOK, Goes, entry, queue, history
<1>2. CASE ScanSends(s)
  <2>1. PICK o \in Outcomes :
         /\ Pushed(o, "picture")
         /\ CASE o = "offline" -> /\ PushToQueue("delivered", "picture")
                                  /\ recovering' = FALSE
                                  /\ Goes(s, "idle")
              [] o = "refused" -> Goes(s, "text") /\ UNCHANGED <<recovering, queue>>
              [] OTHER -> Goes(s, "tell") /\ UNCHANGED <<recovering, queue>>
    BY <1>2 DEF ScanSends
  <2>2. /\ item' \in [Keys -> Kinds \cup {"none"}] /\ held' \in SUBSET Keys
        /\ load' \in [Drainers -> [key : Keys, kind : Kinds]]
    BY <2>1, PushToQueueType DEF Outcomes, queue, TypeOK, Kinds, Keys
  <2>3. /\ at' \in [Agents -> {"idle", "read", "push", "text", "tell", "settle"}]
        /\ recovering' \in BOOLEAN
    BY <2>1, <1>0 DEF Goes, TypeOK, Outcomes
  <2>4. EntryType'
    BY <1>2, EntrySteps DEF ScanSends
  <2>5. OtherTypes'
    BY <1>2, <2>1, <2>2, <2>3, PushedType DEF ScanSends, OtherTypes, TypeOK
  <2> QED
    BY <2>4, <2>5, TypeSplit DEF TypeOK, EntryType, OtherTypes
<1>3. CASE ScanTexts(s)
  <2>1. PICK o \in Outcomes :
         /\ Pushed(o, "text")
         /\ \/ /\ o # "offline"
               /\ Goes(s, "tell")
               /\ UNCHANGED <<recovering, queue>>
            \/ /\ o \in {"refused", "offline"}
               /\ PushToQueue("delivered", "text")
               /\ recovering' = FALSE
               /\ Goes(s, "idle")
    BY <1>3 DEF ScanTexts
  <2>2. /\ item' \in [Keys -> Kinds \cup {"none"}] /\ held' \in SUBSET Keys
        /\ load' \in [Drainers -> [key : Keys, kind : Kinds]]
    BY <2>1, PushToQueueType DEF queue, TypeOK, Kinds, Keys
  <2>3. /\ at' \in [Agents -> {"idle", "read", "push", "text", "tell", "settle"}]
        /\ recovering' \in BOOLEAN
    BY <2>1, <1>0 DEF Goes, TypeOK
  <2>4. EntryType'
    BY <1>3, EntrySteps DEF ScanTexts
  <2>5. OtherTypes'
    BY <1>3, <2>1, <2>2, <2>3, PushedType DEF ScanTexts, OtherTypes, TypeOK
  <2> QED
    BY <2>4, <2>5, TypeSplit DEF TypeOK, EntryType, OtherTypes
<1>4. CASE ScanTells(s)
  <2>1. faults' \in 0..MaxFaults /\ acks' \in BOOLEAN
    BY <1>4, ConfirmsType DEF ScanTells
  <2>2. EntryType'
    BY <1>4 DEF ScanTells, DropEntry, TypeOK, EntryType, Pendings
  <2>3. OtherTypes'
    BY <1>0, <1>4, <2>1 DEF ScanTells, TypeOK, OtherTypes, Goes, queue, history
  <2> QED
    BY <2>2, <2>3, TypeSplit DEF TypeOK, EntryType, OtherTypes
<1> QED
  BY <1>1, <1>2, <1>3, <1>4 DEF ScannerStep

(* Every variable keeps its type, and only a live entry carries flags.     *)
THEOREM TypeCorrect == Spec => []TypeOK
<1>1. Init => TypeOK
  <2> SUFFICES ASSUME Init PROVE TypeOK
    OBVIOUS
  <2>1. EntryType
    BY DEF Init, EntryType, Pendings
  <2>2. OtherTypes
    <3>1. /\ item \in [Keys -> Kinds \cup {"none"}] /\ held \in SUBSET Keys
          /\ at \in [Agents -> {"idle", "read", "push", "text", "tell", "settle"}]
      BY DEF Init
    <3>2. /\ seen \in [Pollers -> Views]
          /\ load \in [Drainers -> [key : Keys, kind : Kinds]]
      BY NoLoadType DEF Init, Views, Statuses
    <3>3. /\ shown \in 0..ShownCap /\ faults \in 0..MaxFaults /\ crashes \in 0..MaxCrashes
      BY BoundsAssumption DEF Init, ShownCap
    <3> QED
      BY <3>1, <3>2, <3>3 DEF Init, OtherTypes, Statuses
  <2> QED
    BY <2>1, <2>2, TypeSplit
<1>2. TypeOK /\ [Next]_vars => TypeOK'
  <2> SUFFICES ASSUME TypeOK, [Next]_vars PROVE TypeOK'
    OBVIOUS
  <2>1. CASE \E p \in Pollers : PollerStep(p)
    BY <2>1, PollerType
  <2>2. CASE \E d \in Drainers : DrainerStep(d)
    BY <2>2, DrainerType
  <2>3. CASE \E s \in Scanners : ScannerStep(s)
    BY <2>3, ScannerType
  <2>4. CASE BackendStep \/ MarkDelivered \/ AckRetries
    <3>1. /\ UNCHANGED <<entry, restoring, recovering, queue, rounds, history, scanned,
                        faults, crashes>>
          /\ status' \in Statuses /\ picture' \in BOOLEAN /\ repair' \in BOOLEAN
          /\ acks' \in BOOLEAN
      BY <2>4 DEF BackendStep, WorkerFinalizes, PictureArrives, WorkerFails,
         RepairReads, RepairFails, MarkDelivered, AckRetries, TypeOK, Statuses
    <3> QED
      BY <3>1 DEF TypeOK, entry, queue, rounds, history
  <2>5. CASE Expires \/ RestoreReads \/ RestoreSets
    <3>1. EntryType' /\ restoring' \in {"asking", "found", "done"}
      BY <2>5 DEF Expires, DropEntry, RestoreReads, RestoreSets, TypeOK, EntryType,
         Pendings, entry
    <3>2. UNCHANGED <<task, acks, recovering, queue, rounds, history, scanned, faults,
                      crashes>>
      BY <2>5 DEF Expires, RestoreReads, RestoreSets
    <3>3. OtherTypes'
      BY <3>1, <3>2 DEF OtherTypes, TypeOK, queue, rounds, history
    <3> QED
      BY <3>1, <3>3, TypeSplit DEF TypeOK, EntryType, OtherTypes
  <2>6. CASE Crash
    <3>1. EntryType'
      BY <2>6 DEF Crash, TypeOK, EntryType, Pendings
    <3>2. status' \in Statuses
      BY <2>6 DEF Crash, TypeOK, Statuses
    <3>3. shown' \in 0..ShownCap /\ crashes' \in 0..MaxCrashes
      BY <2>6, BoundsAssumption DEF Crash, TypeOK, ShownCap
    <3>4. answered' \in BOOLEAN
      BY <2>6 DEF Crash, TypeOK
    <3>5. seen' \in [Pollers -> Views] /\ load' \in [Drainers -> [key : Keys, kind : Kinds]]
      BY <2>6, NoLoadType DEF Crash, Views, Statuses
    <3>6. OtherTypes'
      BY <2>6, <3>2, <3>3, <3>4, <3>5 DEF Crash, TypeOK, OtherTypes
    <3> QED
      BY <3>1, <3>6, TypeSplit DEF TypeOK, EntryType, OtherTypes
  <2>7. CASE UNCHANGED vars
    BY <2>7 DEF vars, TypeOK, entry, queue, rounds, history
  <2> QED
    BY <2>1, <2>2, <2>3, <2>4, <2>5, <2>6, <2>7 DEF Next
<1> QED
  BY <1>1, <1>2, PTL DEF Spec

-----------------------------------------------------------------------------
(* The keys of the queue.                                                  *)

(* A key is reserved when its message waits or a round holds it, and never *)
(* for two of them.                                                        *)
KeyInv ==
  /\ \A k \in Keys : k \in held <=> \/ item[k] # "none"
                                    \/ \E d \in Drainers : Holding(d) /\ load[d].key = k
  /\ \A d \in Drainers : Holding(d) => item[load[d].key] = "none"
  /\ \A d, e \in Drainers : Holding(d) /\ Holding(e) /\ load[d].key = load[e].key => d = e

LEMMA KeyInvHeld == TypeOK /\ KeyInv => KeysHeld
<1> SUFFICES ASSUME TypeOK, KeyInv PROVE KeysHeld
  OBVIOUS
<1>1. held \subseteq Keys /\ \A d \in Drainers : load[d].key \in Keys
  BY DEF TypeOK
<1> QED
  BY <1>1 DEF KeyInv, KeysHeld

(* What a step does to the queue and to the rounds that serve it.          *)
DrainersSame == \A d \in Drainers : at'[d] = at[d] /\ load'[d] = load[d]
OthersSame(d) == \A e \in Drainers \ {d} : at'[e] = at[e] /\ load'[e] = load[e]

Enqueues == /\ DrainersSame
            /\ \E key \in Keys, kind \in Kinds : PushToQueue(key, kind)
Leaves == DrainersSame /\ UNCHANGED <<item, held>>
MovesOn(d) == /\ OthersSame(d)
              /\ Holding(d) /\ at'[d] \in {"text", "settle"}
              /\ UNCHANGED queue
HandsOver(d) == /\ OthersSame(d)
                /\ Holding(d) /\ at'[d] \in {"idle", "tell"}
                /\ Releases(d)
PutsBack(d) == OthersSame(d) /\ Holding(d) /\ at'[d] = "idle" /\ DrainReturns(d)
Finishes(d) == /\ OthersSame(d)
               /\ at[d] = "tell" /\ at'[d] = "idle"
               /\ UNCHANGED queue

QueueStep ==
  \/ Enqueues
  \/ Leaves
  \/ \E d \in Drainers : DrainTakes(d) \/ MovesOn(d) \/ HandsOver(d) \/ PutsBack(d) \/ Finishes(d)

LEMMA KeyStep ==
  ASSUME TypeOK, KeyInv, QueueStep
  PROVE  KeyInv'
<1>0. /\ item \in [Keys -> Kinds \cup {"none"}]
      /\ load \in [Drainers -> [key : Keys, kind : Kinds]]
      /\ at \in [Agents -> {"idle", "read", "push", "text", "tell", "settle"}]
      /\ \A d \in Drainers : load[d].key \in Keys /\ load[d].kind \in Kinds /\ d \in Agents
      /\ "none" \notin Kinds
  BY AgentSets DEF TypeOK, Kinds
<1>1. CASE Leaves
  BY <1>1 DEF Leaves, DrainersSame, KeyInv, Holding
<1>2. CASE Enqueues
  <2>1. PICK key \in Keys, kind \in Kinds : PushToQueue(key, kind)
    BY <1>2 DEF Enqueues
  <2>2. \A d \in Drainers : Holding(d)' = Holding(d) /\ load'[d] = load[d]
    BY <1>2 DEF Enqueues, DrainersSame, Holding
  <2>3. CASE key \in held
    <3>1. item' = item /\ held' = held
      BY <2>1, <2>3 DEF PushToQueue
    <3> QED
      BY <2>2, <3>1 DEF KeyInv
  <2>4. CASE key \notin held
    <3>1. item' = [item EXCEPT ![key] = kind] /\ held' = held \cup {key}
      BY <2>1, <2>4 DEF PushToQueue
    <3>2. item[key] = "none" /\ \A d \in Drainers : Holding(d) => load[d].key # key
      BY <2>4 DEF KeyInv
    <3> QED
      BY <1>0, <2>2, <3>1, <3>2 DEF KeyInv
  <2> QED
    BY <2>3, <2>4
<1>3. ASSUME NEW d \in Drainers, DrainTakes(d) PROVE KeyInv'
  <2>1. PICK k \in Keys :
          /\ item[k] # "none"
          /\ load' = [load EXCEPT ![d] = [key |-> k, kind |-> item[k]]]
          /\ item' = [item EXCEPT ![k] = "none"]
    BY <1>3 DEF DrainTakes
  <2>2. /\ ~Holding(d) /\ Holding(d)' /\ held' = held
        /\ \A e \in Drainers \ {d} : Holding(e)' = Holding(e) /\ load'[e] = load[e]
        /\ load'[d].key = k
    BY <1>0, <1>3, <2>1 DEF DrainTakes, Goes, Holding
  <2>3. \A e \in Drainers : Holding(e) => load[e].key # k
    BY <2>1 DEF KeyInv
  <2>4. \A j \in Keys : item'[j] = IF j = k THEN "none" ELSE item[j]
    BY <1>0, <2>1
  <2> QED
    BY <1>0, <2>1, <2>2, <2>3, <2>4 DEF KeyInv
<1>4. ASSUME NEW d \in Drainers, MovesOn(d) PROVE KeyInv'
  <2>1. /\ \A e \in Drainers : Holding(e)' = Holding(e) /\ load'[e] = load[e]
        /\ item' = item /\ held' = held
    BY <1>4 DEF MovesOn, OthersSame, Holding, queue
  <2> QED
    BY <2>1 DEF KeyInv
<1>5. ASSUME NEW d \in Drainers, HandsOver(d) PROVE KeyInv'
  <2>1. /\ Holding(d) /\ ~Holding(d)'
        /\ \A e \in Drainers \ {d} : Holding(e)' = Holding(e) /\ load'[e] = load[e]
        /\ item' = item /\ held' = held \ {load[d].key}
    BY <1>5 DEF HandsOver, OthersSame, Holding, Releases
  <2>2. /\ item[load[d].key] = "none"
        /\ \A e \in Drainers \ {d} : Holding(e) => load[e].key # load[d].key
    BY <2>1 DEF KeyInv
  <2>3. \A k \in Keys : k \in held' <=> k \in held /\ k # load[d].key
    BY <2>1
  <2>4. \A k \in Keys : k \in held' <=> \/ item'[k] # "none"
                                        \/ \E e \in Drainers : Holding(e)' /\ load'[e].key = k
    BY <1>0, <2>1, <2>2, <2>3 DEF KeyInv
  <2>5. \A e \in Drainers : Holding(e)' => e # d /\ Holding(e) /\ load'[e] = load[e]
    BY <2>1
  <2>6. \A e \in Drainers : Holding(e)' => item'[load'[e].key] = "none"
    BY <2>1, <2>5 DEF KeyInv
  <2>7. \A e, g \in Drainers : Holding(e)' /\ Holding(g)' /\ load'[e].key = load'[g].key => e = g
    BY <2>5 DEF KeyInv
  <2> QED
    BY <2>4, <2>6, <2>7 DEF KeyInv
<1>6. ASSUME NEW d \in Drainers, PutsBack(d) PROVE KeyInv'
  <2>1. /\ Holding(d) /\ ~Holding(d)'
        /\ \A e \in Drainers \ {d} : Holding(e)' = Holding(e) /\ load'[e] = load[e]
        /\ item' = [item EXCEPT ![load[d].key] = load[d].kind] /\ held' = held
    BY <1>6 DEF PutsBack, OthersSame, Holding, DrainReturns
  <2>2. /\ load[d].key \in held
        /\ \A e \in Drainers \ {d} : Holding(e) => load[e].key # load[d].key
    BY <1>0, <2>1 DEF KeyInv
  <2>3. \A j \in Keys : item'[j] = IF j = load[d].key THEN load[d].kind ELSE item[j]
    BY <1>0, <2>1
  <2> QED
    BY <1>0, <2>1, <2>2, <2>3 DEF KeyInv
<1>7. ASSUME NEW d \in Drainers, Finishes(d) PROVE KeyInv'
  <2>1. /\ \A e \in Drainers : Holding(e)' = Holding(e) /\ load'[e] = load[e]
        /\ item' = item /\ held' = held
    BY <1>7 DEF Finishes, OthersSame, Holding, queue
  <2> QED
    BY <2>1 DEF KeyInv
<1> QED
  BY <1>1, <1>2, <1>3, <1>4, <1>5, <1>6, <1>7 DEF QueueStep

LEMMA PollerQueue ==
  ASSUME TypeOK, NEW p \in Pollers, PollerStep(p)
  PROVE  QueueStep
<1>1. /\ p \in Agents /\ p \notin Drainers /\ Drainers \subseteq Agents
      /\ at \in [Agents -> {"idle", "read", "push", "text", "tell", "settle"}]
      /\ PollKey(p) \in Keys /\ "task" \in Keys
      /\ "picture" \in Kinds /\ "text" \in Kinds /\ "card" \in Kinds
  BY AgentSets DEF TypeOK, PollKey, Keys, Kinds
<1>2. \A x : Goes(p, x) => \A d \in Drainers : at'[d] = at[d]
  BY <1>1 DEF Goes
<1>3. CASE \/ PollReads(p) \/ PollSkips(p) \/ PollBegins(p)
         \/ PollGivesBack(p) \/ PollTells(p)
  <2>1. UNCHANGED queue /\ \E x : Goes(p, x)
    BY <1>3 DEF PollReads, PollSkips, PollBegins, PollGivesBack, PollTells
  <2> QED
    BY <1>2, <2>1 DEF QueueStep, Leaves, DrainersSame, queue
<1>4. CASE PollSends(p)
  <2>1. /\ \E x : Goes(p, x)
        /\ PushToQueue(PollKey(p), "picture") \/ UNCHANGED queue
    BY <1>4 DEF PollSends, PollAnswered, Outcomes
  <2> QED
    BY <1>1, <1>2, <2>1 DEF QueueStep, Leaves, Enqueues, DrainersSame, queue, PushToQueue
<1>5. CASE PollTexts(p)
  <2>1. /\ \E x : Goes(p, x)
        /\ PushToQueue(PollKey(p), "text") \/ UNCHANGED queue
    BY <1>5 DEF PollTexts, PollAnswered
  <2> QED
    BY <1>1, <1>2, <2>1 DEF QueueStep, Leaves, Enqueues, DrainersSame, queue, PushToQueue
<1>6. CASE PollSendsFailure(p)
  <2>1. /\ \E x : Goes(p, x)
        /\ PushToQueue("task", "card") \/ PushToQueue("task", "text") \/ UNCHANGED queue
    BY <1>6 DEF PollSendsFailure
  <2> QED
    BY <1>1, <1>2, <2>1 DEF QueueStep, Leaves, Enqueues, DrainersSame, queue, PushToQueue
<1> QED
  BY <1>3, <1>4, <1>5, <1>6 DEF PollerStep

LEMMA ScannerQueue ==
  ASSUME TypeOK, NEW s \in Scanners, ScannerStep(s)
  PROVE  QueueStep
<1>1. /\ s \in Agents /\ s \notin Drainers /\ Drainers \subseteq Agents
      /\ at \in [Agents -> {"idle", "read", "push", "text", "tell", "settle"}]
      /\ "delivered" \in Keys /\ "picture" \in Kinds /\ "text" \in Kinds
  BY AgentSets DEF TypeOK, Keys, Kinds
<1>2. \A x : Goes(s, x) => \A d \in Drainers : at'[d] = at[d]
  BY <1>1 DEF Goes
<1>3. CASE ScanReads(s) \/ ScanSkips(s) \/ ScanBegins(s) \/ ScanTells(s)
  <2>1. UNCHANGED queue /\ \E x : Goes(s, x)
    BY <1>3 DEF ScanReads, ScanSkips, ScanBegins, ScanTells
  <2> QED
    BY <1>2, <2>1 DEF QueueStep, Leaves, DrainersSame, queue
<1>4. CASE ScanSends(s)
  <2>1. /\ \E x : Goes(s, x)
        /\ PushToQueue("delivered", "picture") \/ UNCHANGED queue
    BY <1>4 DEF ScanSends, Outcomes
  <2> QED
    BY <1>1, <1>2, <2>1 DEF QueueStep, Leaves, Enqueues, DrainersSame, queue, PushToQueue
<1>5. CASE ScanTexts(s)
  <2>1. /\ \E x : Goes(s, x)
        /\ PushToQueue("delivered", "text") \/ UNCHANGED queue
    BY <1>5 DEF ScanTexts
  <2> QED
    BY <1>1, <1>2, <2>1 DEF QueueStep, Leaves, Enqueues, DrainersSame, queue, PushToQueue
<1> QED
  BY <1>3, <1>4, <1>5 DEF ScannerStep

LEMMA DrainerQueue ==
  ASSUME TypeOK, NEW d \in Drainers, DrainerStep(d)
  PROVE  DrainTakes(d) \/ MovesOn(d) \/ HandsOver(d) \/ PutsBack(d) \/ Finishes(d)
<1>1. /\ d \in Agents /\ Drainers \subseteq Agents
      /\ at \in [Agents -> {"idle", "read", "push", "text", "tell", "settle"}]
      /\ load \in [Drainers -> [key : Keys, kind : Kinds]]
  BY AgentSets DEF TypeOK
<1>2. \A x : Goes(d, x) => at'[d] = x /\ \A e \in Drainers \ {d} : at'[e] = at[e]
  BY <1>1 DEF Goes
<1>3. (LetsGo(d) \/ UNCHANGED load) => \A e \in Drainers \ {d} : load'[e] = load[e]
  BY <1>1 DEF LetsGo
<1>4. DrainReturns(d) /\ Holding(d) => PutsBack(d)
  BY <1>2, <1>3 DEF DrainReturns, PutsBack, OthersSame
<1>5. DrainAnswered(d) /\ Holding(d) => MovesOn(d) \/ HandsOver(d)
  BY <1>2, <1>3 DEF DrainAnswered, MovesOn, HandsOver, OthersSame, Releases, queue
<1>6. CASE DrainSends(d)
  <2>1. Holding(d)
    BY <1>6 DEF DrainSends, Holding
  <2>2. \/ DrainReturns(d) \/ DrainAnswered(d)
        \/ Releases(d) /\ (Goes(d, "tell") \/ Goes(d, "idle"))
        \/ Goes(d, "text") /\ UNCHANGED queue
    BY <1>6 DEF DrainSends, Outcomes
  <2>3. Releases(d) /\ (Goes(d, "tell") \/ Goes(d, "idle")) => HandsOver(d)
    BY <1>2, <1>3, <2>1 DEF HandsOver, OthersSame, Releases
  <2>4. Goes(d, "text") /\ UNCHANGED queue => MovesOn(d)
    BY <1>2, <1>3, <2>1 DEF MovesOn, OthersSame, queue
  <2> QED
    BY <1>4, <1>5, <2>1, <2>2, <2>3, <2>4
<1>7. CASE DrainTexts(d)
  BY <1>4, <1>5, <1>7 DEF DrainTexts, Holding
<1>8. CASE DrainTells(d)
  <2>1. CASE at[d] = "settle"
    BY <1>2, <1>3, <1>8, <2>1 DEF DrainTells, HandsOver, OthersSame, Releases, Holding
  <2>2. CASE at[d] = "tell"
    BY <1>2, <1>3, <1>8, <2>2 DEF DrainTells, Finishes, OthersSame, queue
  <2> QED
    BY <1>8, <2>1, <2>2 DEF DrainTells
<1> QED
  BY <1>6, <1>7, <1>8 DEF DrainerStep

LEMMA KeyInvCorrect == Spec => []KeyInv
<1>1. Init => KeyInv
  BY AgentSets DEF Init, KeyInv, Holding
<1>2. TypeOK /\ KeyInv /\ [Next]_vars => KeyInv'
  <2> SUFFICES ASSUME TypeOK, KeyInv, [Next]_vars PROVE KeyInv'
    OBVIOUS
  <2>1. CASE \E p \in Pollers : PollerStep(p)
    BY <2>1, PollerQueue, KeyStep
  <2>2. CASE \E d \in Drainers : DrainerStep(d)
    BY <2>2, DrainerQueue, KeyStep DEF QueueStep
  <2>3. CASE \E s \in Scanners : ScannerStep(s)
    BY <2>3, ScannerQueue, KeyStep
  <2>4. CASE Crash
    BY <2>4, AgentSets DEF Crash, KeyInv, Holding
  <2>5. CASE \/ BackendStep \/ MarkDelivered \/ AckRetries
             \/ Expires \/ RestoreReads \/ RestoreSets \/ UNCHANGED vars
    <3>1. UNCHANGED <<at, item, held, load>>
      BY <2>5 DEF BackendStep, WorkerFinalizes, PictureArrives, WorkerFails,
      RepairReads, RepairFails, MarkDelivered, AckRetries, Expires,
        RestoreReads, RestoreSets, vars, queue, rounds
    <3> QED
      BY <3>1, KeyStep DEF QueueStep, Leaves, DrainersSame
  <2> QED
    BY <2>1, <2>2, <2>3, <2>4, <2>5 DEF Next
<1> QED
  BY <1>1, <1>2, TypeCorrect, PTL DEF Spec

(* The keys reserved are those of the messages that wait or are on their   *)
(* way.                                                                    *)
THEOREM KeysCorrect == Spec => []KeysHeld
<1>1. TypeOK /\ KeyInv => KeysHeld
  BY KeyInvHeld
<1> QED
  BY <1>1, KeyInvCorrect, TypeCorrect, PTL

-----------------------------------------------------------------------------
(* What a confirmation stands for.                                         *)

(* Only messages that need no confirmation may be without a text.          *)
CardInv ==
  /\ item["delivered"] # "card"
  /\ \A d \in Drainers : load[d].kind = "card" => load[d].key = "task"

(* Whoever waits for a confirmation has been answered, at the latest when  *)
(* the wait began.                                                         *)
AnswerInv ==
  /\ \A a \in Agents : Telling(a) => answered
  /\ acks => answered
  /\ status = "success" => answered

LEMMA CardPush ==
  ASSUME TypeOK, CardInv, NEW key \in Keys, NEW kind \in Kinds, PushToQueue(key, kind),
         kind = "card" => key = "task"
  PROVE  CardInv'
<1>1. item \in [Keys -> Kinds \cup {"none"}] /\ load' = load
  BY DEF TypeOK, PushToQueue
<1>2. item'["delivered"] # "card"
  BY <1>1 DEF PushToQueue, CardInv, Keys
<1> QED
  BY <1>1, <1>2 DEF CardInv

LEMMA CardDrain ==
  ASSUME TypeOK, CardInv, NEW d \in Drainers,
         DrainTakes(d) \/ MovesOn(d) \/ HandsOver(d) \/ PutsBack(d) \/ Finishes(d)
  PROVE  CardInv'
<1>1. /\ item \in [Keys -> Kinds \cup {"none"}]
      /\ load \in [Drainers -> [key : Keys, kind : Kinds]]
      /\ load[d].key \in Keys
      /\ "delivered" \in Keys /\ \A k \in Keys : k = "delivered" \/ k = "task"
  BY DEF TypeOK, Keys
<1>2. CASE DrainTakes(d)
  <2>1. PICK k \in Keys :
          /\ load' = [load EXCEPT ![d] = [key |-> k, kind |-> item[k]]]
          /\ item' = [item EXCEPT ![k] = "none"]
    BY <1>2 DEF DrainTakes
  <2>2. item'["delivered"] # "card"
    BY <1>1, <2>1 DEF CardInv
  <2>3. /\ load'[d].key = k /\ load'[d].kind = item[k]
        /\ \A e \in Drainers \ {d} : load'[e] = load[e]
    BY <1>1, <2>1
  <2>4. item[k] = "card" => k = "task"
    BY <1>1 DEF CardInv
  <2> QED
    BY <2>2, <2>3, <2>4 DEF CardInv
<1>3. CASE PutsBack(d)
  <2>1. /\ item' = [item EXCEPT ![load[d].key] = load[d].kind]
        /\ load' = [load EXCEPT ![d] = NoLoad]
    BY <1>3 DEF PutsBack, DrainReturns, LetsGo
  <2>2. item'["delivered"] # "card"
    BY <1>1, <2>1 DEF CardInv
  <2> QED
    BY <1>1, <2>1, <2>2 DEF CardInv, NoLoad
<1>4. CASE HandsOver(d)
  BY <1>1, <1>4 DEF HandsOver, Releases, LetsGo, NoLoad, CardInv
<1>5. CASE MovesOn(d) \/ Finishes(d)
  BY <1>5 DEF MovesOn, Finishes, queue, CardInv
<1> QED
  BY <1>2, <1>3, <1>4, <1>5

LEMMA PollerAnswer ==
  ASSUME TypeOK, AnswerInv, CardInv, NEW p \in Pollers, PollerStep(p)
  PROVE  AnswerInv' /\ CardInv'
<1>1. /\ p \in Agents /\ answered \in BOOLEAN
      /\ at \in [Agents -> {"idle", "read", "push", "text", "tell", "settle"}]
      /\ PollKey(p) \in Keys /\ "task" \in Keys
      /\ "picture" \in Kinds /\ "text" \in Kinds /\ "card" \in Kinds
  BY AgentSets DEF TypeOK, PollKey, Keys, Kinds
<1>2. \A x : Goes(p, x) => at'[p] = x /\ \A a \in Agents \ {p} : at'[a] = at[a]
  BY <1>1 DEF Goes
<1>3. UNCHANGED queue => CardInv'
  BY DEF queue, CardInv
<1>4. CASE PollReads(p) \/ PollSkips(p) \/ PollBegins(p) \/ PollGivesBack(p)
  <2>1. /\ \E x \in {"read", "idle", "push"} : Goes(p, x)
        /\ UNCHANGED <<answered, acks, status, queue>>
    BY <1>4 DEF PollReads, PollSkips, PollBegins, PollGivesBack, history
  <2> QED
    BY <1>2, <1>3, <2>1 DEF AnswerInv, Telling
<1>5. CASE PollSends(p)
  <2>1. PICK o \in Outcomes :
         /\ Pushed(o, "picture")
         /\ CASE o = "offline" -> /\ PushToQueue(PollKey(p), "picture")
                                  /\ LeavesToQueue
                                  /\ Goes(p, "idle")
              [] o = "refused" -> Goes(p, "text") /\ UNCHANGED <<entry, queue>>
              [] OTHER -> PollAnswered(p) /\ UNCHANGED queue
    BY <1>5 DEF PollSends
  <2>2. CardInv'
    BY <1>1, <1>3, <2>1, CardPush DEF Outcomes
  <2>3. (answered => answered') /\ UNCHANGED <<acks, status>>
    BY <1>1, <1>5, <2>1 DEF Pushed, PollSends
  <2>4. \/ answered'
        \/ \E x \in {"idle", "text"} : Goes(p, x)
    BY <1>1, <2>1 DEF Pushed, Outcomes
  <2>5. \E x : Goes(p, x)
    BY <2>1 DEF PollAnswered, Outcomes
  <2> QED
    BY <1>2, <2>2, <2>3, <2>4, <2>5 DEF AnswerInv, Telling
<1>6. CASE PollTexts(p)
  <2>1. PICK o \in Outcomes :
         /\ Pushed(o, "text")
         /\ IF o = "offline"
            THEN /\ PushToQueue(PollKey(p), "text")
                 /\ LeavesToQueue
                 /\ Goes(p, "idle")
            ELSE PollAnswered(p) /\ UNCHANGED queue
    BY <1>6 DEF PollTexts
  <2>2. CardInv'
    BY <1>1, <1>3, <2>1, CardPush
  <2>3. (answered => answered') /\ UNCHANGED <<acks, status>>
    BY <1>1, <1>6, <2>1 DEF Pushed, PollTexts
  <2>4. answered' \/ Goes(p, "idle")
    BY <1>1, <2>1 DEF Pushed, Outcomes
  <2>5. \E x : Goes(p, x)
    BY <2>1 DEF PollAnswered
  <2> QED
    BY <1>2, <2>2, <2>3, <2>4, <2>5 DEF AnswerInv, Telling
<1>7. CASE PollTells(p)
  <2>1. answered /\ answered' = answered /\ status' = status
    BY <1>1, <1>7 DEF PollTells, AnswerInv, Telling, history
  <2>2. Goes(p, "idle") /\ UNCHANGED queue
    BY <1>7 DEF PollTells
  <2> QED
    BY <1>3, <2>1, <2>2 DEF AnswerInv
<1>8. CASE PollSendsFailure(p)
  <2>1. PICK o \in Outcomes, kind \in {"card", "text"} :
         /\ Pushed(o, kind)
         /\ IF o \in {"offline", "refused"}
            THEN PushToQueue("task", kind) /\ LeavesToQueue
            ELSE DropEntry /\ UNCHANGED queue
    BY <1>8 DEF PollSendsFailure
  <2>2. CardInv'
    BY <1>1, <1>3, <2>1, CardPush
  <2>3. (answered => answered') /\ UNCHANGED <<acks, status>> /\ Goes(p, "idle")
    BY <1>1, <1>8, <2>1 DEF Pushed, PollSendsFailure
  <2> QED
    BY <1>2, <2>2, <2>3 DEF AnswerInv, Telling
<1> QED
  BY <1>4, <1>5, <1>6, <1>7, <1>8 DEF PollerStep

LEMMA DrainerAnswer ==
  ASSUME TypeOK, AnswerInv, CardInv, NEW d \in Drainers, DrainerStep(d)
  PROVE  AnswerInv' /\ CardInv'
<1>1. /\ d \in Agents /\ answered \in BOOLEAN
      /\ at \in [Agents -> {"idle", "read", "push", "text", "tell", "settle"}]
      /\ load[d].kind \in Kinds
  BY AgentSets DEF TypeOK
<1>2. \A x : Goes(d, x) => at'[d] = x /\ \A a \in Agents \ {d} : at'[a] = at[a]
  BY <1>1 DEF Goes
<1>3. CardInv'
  BY DrainerQueue, CardDrain
<1>4. CASE DrainTakes(d)
  BY <1>2, <1>3, <1>4 DEF DrainTakes, AnswerInv, Telling, history
<1>5. CASE DrainSends(d)
  <2>1. PICK o \in Outcomes :
         /\ Pushed(o, load[d].kind)
         /\ CASE o = "offline" -> DrainReturns(d)
              [] o = "sent" ->
                   /\ Releases(d)
                   /\ IF load[d].key = "delivered"
                      THEN Goes(d, "tell") /\ UNCHANGED entry
                      ELSE Goes(d, "idle") /\ DropEntry
              [] o = "uncertain" /\ load[d].key = "delivered" -> DrainAnswered(d)
              [] OTHER -> IF load[d].kind = "card"
                          THEN DrainAnswered(d)
                          ELSE Goes(d, "text") /\ UNCHANGED <<entry, queue>>
    BY <1>5 DEF DrainSends
  <2>2. (answered => answered') /\ UNCHANGED <<acks, status>>
    BY <1>1, <1>5, <2>1 DEF Pushed, DrainSends
  <2>3. load[d].kind = "card" => load[d].key # "delivered"
    BY DEF CardInv
  <2>4. answered' \/ \E x \in {"idle", "text"} : Goes(d, x)
    BY <1>1, <2>1, <2>3 DEF Pushed, Outcomes, DrainReturns, DrainAnswered
  <2>5. \E x : Goes(d, x)
    BY <2>1 DEF DrainReturns, DrainAnswered, Outcomes
  <2> QED
    BY <1>2, <1>3, <2>2, <2>4, <2>5 DEF AnswerInv, Telling
<1>6. CASE DrainTexts(d)
  <2>1. PICK o \in Outcomes :
         /\ Pushed(o, "text")
         /\ IF o = "offline" THEN DrainReturns(d) ELSE DrainAnswered(d)
    BY <1>6 DEF DrainTexts
  <2>2. (answered => answered') /\ UNCHANGED <<acks, status>>
    BY <1>1, <1>6, <2>1 DEF Pushed, DrainTexts
  <2>3. answered' \/ Goes(d, "idle")
    BY <1>1, <2>1 DEF Pushed, Outcomes, DrainReturns
  <2>4. \E x : Goes(d, x)
    BY <2>1 DEF DrainReturns, DrainAnswered
  <2> QED
    BY <1>2, <1>3, <2>2, <2>3, <2>4 DEF AnswerInv, Telling
<1>7. CASE DrainTells(d)
  <2>1. answered /\ answered' = answered /\ status' = status
    BY <1>1, <1>7 DEF DrainTells, AnswerInv, Telling, history
  <2> QED
    BY <1>3, <2>1 DEF AnswerInv
<1> QED
  BY <1>4, <1>5, <1>6, <1>7 DEF DrainerStep

LEMMA ScannerAnswer ==
  ASSUME TypeOK, AnswerInv, CardInv, NEW s \in Scanners, ScannerStep(s)
  PROVE  AnswerInv' /\ CardInv'
<1>1. /\ s \in Agents /\ answered \in BOOLEAN
      /\ at \in [Agents -> {"idle", "read", "push", "text", "tell", "settle"}]
      /\ "delivered" \in Keys /\ "picture" \in Kinds /\ "text" \in Kinds
  BY AgentSets DEF TypeOK, Keys, Kinds
<1>2. \A x : Goes(s, x) => at'[s] = x /\ \A a \in Agents \ {s} : at'[a] = at[a]
  BY <1>1 DEF Goes
<1>3. UNCHANGED queue => CardInv'
  BY DEF queue, CardInv
<1>4. CASE ScanReads(s) \/ ScanSkips(s) \/ ScanBegins(s)
  <2>1. /\ \E x \in {"read", "idle", "push"} : Goes(s, x)
        /\ UNCHANGED <<answered, acks, status, queue>>
    BY <1>4 DEF ScanReads, ScanSkips, ScanBegins, history
  <2> QED
    BY <1>2, <1>3, <2>1 DEF AnswerInv, Telling
<1>5. CASE ScanSends(s)
  <2>1. PICK o \in Outcomes :
         /\ Pushed(o, "picture")
         /\ CASE o = "offline" -> /\ PushToQueue("delivered", "picture")
                                  /\ recovering' = FALSE
                                  /\ Goes(s, "idle")
              [] o = "refused" -> Goes(s, "text") /\ UNCHANGED <<recovering, queue>>
              [] OTHER -> Goes(s, "tell") /\ UNCHANGED <<recovering, queue>>
    BY <1>5 DEF ScanSends
  <2>2. CardInv'
    BY <1>1, <1>3, <2>1, CardPush DEF Outcomes
  <2>3. (answered => answered') /\ UNCHANGED <<acks, status>>
    BY <1>1, <1>5, <2>1 DEF Pushed, ScanSends
  <2>4. answered' \/ \E x \in {"idle", "text"} : Goes(s, x)
    BY <1>1, <2>1 DEF Pushed, Outcomes
  <2>5. \E x : Goes(s, x)
    BY <2>1 DEF Outcomes
  <2> QED
    BY <1>2, <2>2, <2>3, <2>4, <2>5 DEF AnswerInv, Telling
<1>6. CASE ScanTexts(s)
  <2>1. PICK o \in Outcomes :
         /\ Pushed(o, "text")
         /\ \/ /\ o # "offline"
               /\ Goes(s, "tell")
               /\ UNCHANGED <<recovering, queue>>
            \/ /\ o \in {"refused", "offline"}
               /\ PushToQueue("delivered", "text")
               /\ recovering' = FALSE
               /\ Goes(s, "idle")
    BY <1>6 DEF ScanTexts
  <2>2. CardInv'
    BY <1>1, <1>3, <2>1, CardPush
  <2>3. (answered => answered') /\ UNCHANGED <<acks, status>>
    BY <1>1, <1>6, <2>1 DEF Pushed, ScanTexts
  <2>4. answered' \/ Goes(s, "idle")
    BY <1>1, <2>1 DEF Pushed, Outcomes
  <2>5. \E x : Goes(s, x)
    BY <2>1
  <2> QED
    BY <1>2, <2>2, <2>3, <2>4, <2>5 DEF AnswerInv, Telling
<1>7. CASE ScanTells(s)
  <2>1. answered /\ answered' = answered /\ status' = status
    BY <1>1, <1>7 DEF ScanTells, AnswerInv, Telling, history
  <2>2. UNCHANGED queue
    BY <1>7 DEF ScanTells
  <2> QED
    BY <1>3, <2>1, <2>2 DEF AnswerInv
<1> QED
  BY <1>4, <1>5, <1>6, <1>7 DEF ScannerStep

(* A task becomes successful only when a push of its result got, or may    *)
(* have got, as far as the user, or not even a text does.                  *)
THEOREM SuccessCorrect == Spec => []SuccessAnswered
<1>1. Init => AnswerInv /\ CardInv
  BY DEF Init, AnswerInv, CardInv, Telling, NoLoad, Keys
<1>2. TypeOK /\ AnswerInv /\ CardInv /\ [Next]_vars => AnswerInv' /\ CardInv'
  <2> SUFFICES ASSUME TypeOK, AnswerInv, CardInv, [Next]_vars PROVE AnswerInv' /\ CardInv'
    OBVIOUS
  <2>1. CASE \E p \in Pollers : PollerStep(p)
    BY <2>1, PollerAnswer
  <2>2. CASE \E d \in Drainers : DrainerStep(d)
    BY <2>2, DrainerAnswer
  <2>3. CASE \E s \in Scanners : ScannerStep(s)
    BY <2>3, ScannerAnswer
  <2>4. CASE Crash
    <3>1. CardInv'
      BY <2>4 DEF Crash, CardInv, NoLoad, Keys
    <3>2. /\ answered => answered'
          /\ status' = "success" => status = "success" \/ \E a \in Agents : Telling(a)
          /\ acks' = FALSE /\ \A a \in Agents : ~Telling(a)'
      BY <2>4 DEF Crash, Telling
    <3> QED
      BY <3>1, <3>2 DEF AnswerInv
  <2>5. CASE MarkDelivered
    BY <2>5 DEF MarkDelivered, AnswerInv, CardInv, Telling, queue, rounds, history
  <2>6. CASE BackendStep \/ AckRetries
    BY <2>6 DEF BackendStep, WorkerFinalizes, PictureArrives, WorkerFails,
      RepairReads, RepairFails, AckRetries, AnswerInv, CardInv, Telling,
      queue, rounds, history
  <2>7. CASE Expires \/ RestoreReads \/ RestoreSets \/ UNCHANGED vars
    BY <2>7 DEF Expires, RestoreReads, RestoreSets, vars, AnswerInv, CardInv, Telling,
      queue, rounds, history
  <2> QED
    BY <2>1, <2>2, <2>3, <2>4, <2>5, <2>6, <2>7 DEF Next
<1>3. AnswerInv => SuccessAnswered
  BY DEF AnswerInv, SuccessAnswered
<1> QED
  BY <1>1, <1>2, <1>3, TypeCorrect, PTL DEF Spec

-----------------------------------------------------------------------------
(* Who has the result in hand.                                             *)

Quiet == ~scanned /\ crashes = 0

(* The flags of a live entry show every sender; the result is in one hand  *)
(* while the entry is live, and at any time before the first scan sends.   *)
SenderInv ==
  /\ pending = "live" => /\ \A p \in Pollers : p \in Senders => inFlight = TRUE
                         /\ \A x \in Drainers \cup Keys : x \in Senders => queued = TRUE
  /\ pending = "live" \/ Quiet => /\ \A s \in Scanners : s \notin Senders
                                  /\ \A x, y \in Senders : x = y

LEMMA SenderMembers ==
  /\ \A a \in Agents : a \in Senders <=> Sending(a)
  /\ \A k \in Keys : k \in Senders <=> item[k] # "none"
  /\ Senders \subseteq Agents \cup Keys
BY KeysAssumption DEF Senders

LEMMA SenderMembersNext ==
  /\ \A a \in Agents : a \in Senders' <=> Sending(a)'
  /\ \A k \in Keys : k \in Senders' <=> item'[k] # "none"
  /\ Senders' \subseteq Agents \cup Keys
BY KeysAssumption DEF Senders, Sending

LEMMA KeySets == \A k \in Keys : k \notin Pollers /\ k \notin Drainers /\ k \notin Scanners
BY KeysAssumption DEF Agents

(* Steps after which nobody new has the result.                            *)
LEMMA SendersShrink ==
  ASSUME SenderInv, Senders' \subseteq Senders,
         pending' = "live" => pending = "live" /\ inFlight' = inFlight /\ queued' = queued,
         Quiet' => Quiet
  PROVE  SenderInv'
BY DEF SenderInv

(* Steps that hand it from one to another, who is the queue or serves it.  *)
LEMMA SendersSwap ==
  ASSUME SenderInv, NEW x \in Senders, NEW y \in Drainers \cup Keys,
         Senders' \subseteq (Senders \ {x}) \cup {y},
         pending' = "live" => pending = "live" /\ queued' = TRUE,
         Quiet' => Quiet
  PROVE  SenderInv'
<1>1. y \notin Pollers /\ y \notin Scanners
  BY AgentSets, KeySets
<1>2. pending' = "live" \/ Quiet' => Senders' \subseteq {y}
  BY DEF SenderInv
<1> QED
  BY <1>1, <1>2 DEF SenderInv

LEMMA SameAgents ==
  ASSUME TypeOK, NEW a \in Agents, NEW place, Goes(a, place), UNCHANGED item,
         Sending(a) \/ place \in {"idle", "read"}
  PROVE  Senders' \subseteq Senders
<1>1. /\ at'[a] = place /\ \A b \in Agents \ {a} : at'[b] = at[b]
  BY DEF Goes, TypeOK
<1> QED
  BY <1>1, SenderMembers, SenderMembersNext DEF Sending

LEMMA SwapKey ==
  ASSUME TypeOK, NEW a \in Agents, Goes(a, "idle"),
         NEW k \in Keys, NEW kind, PushToQueue(k, kind)
  PROVE  Senders' \subseteq (Senders \ {a}) \cup {k}
<1>1. /\ at'[a] = "idle" /\ \A b \in Agents \ {a} : at'[b] = at[b]
      /\ \A j \in Keys \ {k} : item'[j] = item[j]
  BY DEF Goes, TypeOK, PushToQueue
<1>2. a \notin Senders'
  BY <1>1, SenderMembersNext DEF Sending
<1> QED
  BY <1>1, <1>2, SenderMembers, SenderMembersNext DEF Sending

LEMMA PollerSender ==
  ASSUME TypeOK, SenderInv, NEW p \in Pollers, PollerStep(p)
  PROVE  SenderInv'
<1>1. /\ p \in Agents /\ p \notin Drainers /\ p \notin Scanners
      /\ at \in [Agents -> {"idle", "read", "push", "text", "tell", "settle"}]
      /\ PollKey(p) \in Keys /\ "task" \in Keys
      /\ inFlight \in BOOLEAN /\ queued \in BOOLEAN
  BY AgentSets DEF TypeOK, PollKey, Keys
<1>2. Quiet' => Quiet
  BY DEF PollerStep, PollReads, PollSkips, PollBegins, PollGivesBack, PollSends, PollTexts, PollTells,
     PollSendsFailure, Quiet
<1>3. DropEntry \/ UNCHANGED entry
        => (pending' = "live" => pending = "live" /\ inFlight' = inFlight /\ queued' = queued)
  BY DEF DropEntry, entry
<1>4. LeavesToQueue => (pending' = "live" => pending = "live" /\ queued' = TRUE)
  BY DEF LeavesToQueue
<1>5. CASE PollReads(p) \/ PollSkips(p)
  <2>1. /\ UNCHANGED item /\ \E x \in {"idle", "read"} : Goes(p, x)
        /\ DropEntry \/ UNCHANGED entry
    BY <1>5 DEF PollReads, PollSkips, queue
  <2> QED
    BY <1>1, <1>2, <1>3, <2>1, SameAgents, SendersShrink
<1>6. CASE PollBegins(p)
  <2>1. Senders = {}
    BY <1>1, <1>6, SenderMembers DEF PollBegins, Takes, SenderInv, Agents
  <2>2. Senders' \subseteq {p}
    <3>1. /\ \A b \in Agents \ {p} : at'[b] = at[b]
          /\ item' = item
      BY <1>1, <1>6 DEF PollBegins, Goes, queue
    <3> QED
      BY <2>1, <3>1, SenderMembers, SenderMembersNext DEF Sending
  <2>3. inFlight' = TRUE
    BY <1>6 DEF PollBegins
  <2> QED
    BY <1>1, <2>2, <2>3, KeySets DEF SenderInv
<1>7. CASE PollSends(p)
  <2>1. Sending(p) /\ p \in Senders
    BY <1>1, <1>7, SenderMembers DEF PollSends, Sending
  <2>2. \/ PushToQueue(PollKey(p), "picture") /\ LeavesToQueue /\ Goes(p, "idle")
        \/ /\ UNCHANGED queue
           /\ \E x : Goes(p, x)
           /\ DropEntry \/ UNCHANGED entry
    BY <1>7 DEF PollSends, PollAnswered, Outcomes
  <2>3. CASE PushToQueue(PollKey(p), "picture") /\ LeavesToQueue /\ Goes(p, "idle")
    <3>1. Senders' \subseteq (Senders \ {p}) \cup {PollKey(p)}
      BY <1>1, <2>3, SwapKey
    <3> QED
      BY <1>1, <1>2, <1>4, <2>1, <2>3, <3>1, SendersSwap
  <2>4. CASE /\ UNCHANGED queue
             /\ \E x : Goes(p, x)
             /\ DropEntry \/ UNCHANGED entry
    BY <1>1, <1>2, <1>3, <2>1, <2>4, SameAgents, SendersShrink DEF queue
  <2> QED
    BY <2>2, <2>3, <2>4
<1>8. CASE PollTexts(p)
  <2>1. Sending(p) /\ p \in Senders
    BY <1>1, <1>8, SenderMembers DEF PollTexts, Sending
  <2>2. \/ PushToQueue(PollKey(p), "text") /\ LeavesToQueue /\ Goes(p, "idle")
        \/ /\ UNCHANGED queue
           /\ \E x : Goes(p, x)
           /\ DropEntry \/ UNCHANGED entry
    BY <1>8 DEF PollTexts, PollAnswered
  <2>3. CASE PushToQueue(PollKey(p), "text") /\ LeavesToQueue /\ Goes(p, "idle")
    <3>1. Senders' \subseteq (Senders \ {p}) \cup {PollKey(p)}
      BY <1>1, <2>3, SwapKey
    <3> QED
      BY <1>1, <1>2, <1>4, <2>1, <2>3, <3>1, SendersSwap
  <2>4. CASE /\ UNCHANGED queue
             /\ \E x : Goes(p, x)
             /\ DropEntry \/ UNCHANGED entry
    BY <1>1, <1>2, <1>3, <2>1, <2>4, SameAgents, SendersShrink DEF queue
  <2> QED
    BY <2>2, <2>3, <2>4
<1>9. CASE PollTells(p)
  <2>1. Sending(p) /\ UNCHANGED item /\ Goes(p, "idle") /\ DropEntry
    BY <1>9 DEF PollTells, Sending, queue
  <2> QED
    BY <1>1, <1>2, <1>3, <2>1, SameAgents, SendersShrink
<1>10. CASE PollSendsFailure(p)
  <2>1. p \in Senders /\ Sending(p) /\ Goes(p, "idle")
    BY <1>1, <1>10, SenderMembers DEF PollSendsFailure, Sending
  <2>2. \/ \E kind : PushToQueue("task", kind) /\ LeavesToQueue
        \/ UNCHANGED queue /\ DropEntry
    BY <1>10 DEF PollSendsFailure
  <2>3. CASE \E kind : PushToQueue("task", kind) /\ LeavesToQueue
    <3>1. Senders' \subseteq (Senders \ {p}) \cup {"task"}
      BY <1>1, <2>1, <2>3, SwapKey
    <3> QED
      BY <1>1, <1>2, <1>4, <2>1, <2>3, <3>1, SendersSwap
  <2>4. CASE UNCHANGED queue /\ DropEntry
    BY <1>1, <1>2, <1>3, <2>1, <2>4, SameAgents, SendersShrink DEF queue
  <2> QED
    BY <2>2, <2>3, <2>4
<1>11. CASE PollGivesBack(p)
  <2>1. p \in Senders /\ Sending(p) /\ Goes(p, "idle") /\ item' = item /\ pending' = pending
    BY <1>1, <1>11, SenderMembers DEF PollGivesBack, Sending, queue
  <2>2. Senders' \subseteq Senders /\ p \notin Senders'
    BY <1>1, <2>1, SameAgents, SenderMembersNext DEF Goes, Sending
  <2>3. pending' = "live" \/ Quiet' => Senders' = {}
    BY <1>2, <2>1, <2>2 DEF SenderInv
  <2> QED
    BY <2>3 DEF SenderInv
<1> QED
  BY <1>5, <1>6, <1>7, <1>8, <1>9, <1>10, <1>11 DEF PollerStep

LEMMA DrainerSender ==
  ASSUME TypeOK, SenderInv, NEW d \in Drainers, DrainerStep(d)
  PROVE  SenderInv'
<1>1. /\ d \in Agents
      /\ at \in [Agents -> {"idle", "read", "push", "text", "tell", "settle"}]
      /\ item \in [Keys -> Kinds \cup {"none"}]
      /\ load[d].key \in Keys
  BY AgentSets DEF TypeOK
<1>2. Quiet' => Quiet
  BY DEF DrainerStep, DrainTakes, DrainSends, DrainTexts, DrainTells, Quiet
<1>3. DropEntry \/ UNCHANGED entry
        => (pending' = "live" => pending = "live" /\ inFlight' = inFlight /\ queued' = queued)
  BY DEF DropEntry, entry
<1>4. CASE DrainTakes(d)
  <2>1. PICK k \in Keys : item[k] # "none" /\ item' = [item EXCEPT ![k] = "none"]
    BY <1>4 DEF DrainTakes
  <2>2. /\ k \in Senders
        /\ Senders' \subseteq (Senders \ {k}) \cup {d}
    <3>1. /\ \A b \in Agents \ {d} : at'[b] = at[b]
          /\ item'[k] = "none" /\ \A j \in Keys \ {k} : item'[j] = item[j]
      BY <1>1, <1>4, <2>1 DEF DrainTakes, Goes
    <3> QED
      BY <2>1, <3>1, SenderMembers, SenderMembersNext DEF Sending
  <2>3. pending' = "live" => pending = "live" /\ queued' = TRUE
    BY <1>4, <2>2 DEF DrainTakes, entry, SenderInv
  <2> QED
    BY <1>2, <2>2, <2>3, SendersSwap
<1>5. CASE DrainReturns(d) /\ Sending(d)
  <2>1. /\ d \in Senders
        /\ Senders' \subseteq (Senders \ {d}) \cup {load[d].key}
    <3>1. /\ \A b \in Agents \ {d} : at'[b] = at[b]
          /\ at'[d] = "idle" /\ \A j \in Keys \ {load[d].key} : item'[j] = item[j]
      BY <1>1, <1>5 DEF DrainReturns, Goes
    <3> QED
      BY <1>1, <1>5, <3>1, SenderMembers, SenderMembersNext DEF Sending
  <2>2. pending' = "live" => pending = "live" /\ queued' = TRUE
    BY <1>5, <2>1 DEF DrainReturns, entry, SenderInv
  <2> QED
    BY <1>1, <1>2, <2>1, <2>2, SendersSwap
<1>6. CASE /\ Sending(d) /\ UNCHANGED item
           /\ \E x : Goes(d, x)
           /\ DropEntry \/ UNCHANGED entry
  BY <1>1, <1>2, <1>3, <1>6, SameAgents, SendersShrink
<1>7. DrainSends(d) \/ DrainTexts(d) \/ DrainTells(d) => Sending(d)
  BY DEF DrainSends, DrainTexts, DrainTells, Sending
<1>8. CASE DrainSends(d)
  <2>1. \/ DrainReturns(d)
        \/ /\ UNCHANGED item
           /\ \E x : Goes(d, x)
           /\ DropEntry \/ UNCHANGED entry
    BY <1>8 DEF DrainSends, DrainAnswered, Releases, queue, Outcomes
  <2> QED
    BY <1>5, <1>6, <1>7, <1>8, <2>1
<1>9. CASE DrainTexts(d)
  <2>1. \/ DrainReturns(d)
        \/ /\ UNCHANGED item
           /\ \E x : Goes(d, x)
           /\ DropEntry \/ UNCHANGED entry
    BY <1>9 DEF DrainTexts, DrainAnswered, Releases, queue
  <2> QED
    BY <1>5, <1>6, <1>7, <1>9, <2>1
<1>10. CASE DrainTells(d)
  <2>1. UNCHANGED item /\ Goes(d, "idle") /\ DropEntry
    BY <1>10 DEF DrainTells, Releases, queue
  <2> QED
    BY <1>6, <1>7, <1>10, <2>1
<1> QED
  BY <1>4, <1>8, <1>9, <1>10 DEF DrainerStep

LEMMA ScannerSender ==
  ASSUME TypeOK, SenderInv, NEW s \in Scanners, ScannerStep(s)
  PROVE  SenderInv'
<1>1. /\ s \in Agents /\ s \in Scanners /\ s \notin Pollers /\ s \notin Drainers
      /\ at \in [Agents -> {"idle", "read", "push", "text", "tell", "settle"}]
  BY AgentSets DEF TypeOK
<1>2. CASE ScanReads(s) \/ ScanSkips(s)
  <2>1. /\ UNCHANGED item /\ UNCHANGED entry /\ \E x \in {"idle", "read"} : Goes(s, x)
        /\ UNCHANGED <<scanned, crashes>>
    BY <1>2 DEF ScanReads, ScanSkips, queue
  <2> QED
    BY <1>1, <2>1, SameAgents, SendersShrink DEF entry, Quiet
<1>3. CASE ScanBegins(s)
  BY <1>3 DEF ScanBegins, Spoken, SenderInv, Quiet, entry
<1>4. CASE ScanSends(s) \/ ScanTexts(s) \/ ScanTells(s)
  <2>1. Sending(s) /\ s \in Senders
    BY <1>1, <1>4, SenderMembers DEF ScanSends, ScanTexts, ScanTells, Sending
  <2>2. pending # "live" /\ ~Quiet
    BY <1>1, <2>1 DEF SenderInv
  <2>3. /\ UNCHANGED <<scanned, crashes>>
        /\ DropEntry \/ pending' = pending
    BY <1>4 DEF ScanSends, ScanTexts, ScanTells, entry
  <2>4. pending' # "live" /\ ~Quiet'
    BY <2>2, <2>3 DEF DropEntry, Quiet
  <2> QED
    BY <2>4 DEF SenderInv
<1> QED
  BY <1>2, <1>3, <1>4 DEF ScannerStep

LEMMA SenderNext ==
  ASSUME TypeOK, SenderInv, [Next]_vars
  PROVE  SenderInv'
<1>1. CASE \E p \in Pollers : PollerStep(p)
  BY <1>1, PollerSender
<1>2. CASE \E d \in Drainers : DrainerStep(d)
  BY <1>2, DrainerSender
<1>3. CASE \E s \in Scanners : ScannerStep(s)
  BY <1>3, ScannerSender
<1>4. CASE Crash
  <2>1. Senders' = {}
    BY <1>4, SenderMembersNext DEF Crash, Sending
  <2> QED
    BY <2>1 DEF SenderInv
<1>5. CASE \/ BackendStep \/ MarkDelivered \/ AckRetries
           \/ Expires \/ RestoreReads \/ RestoreSets \/ UNCHANGED vars
  <2>1. UNCHANGED <<at, item, scanned, crashes>>
    BY <1>5 DEF BackendStep, WorkerFinalizes, PictureArrives, WorkerFails,
      RepairReads, RepairFails, MarkDelivered, AckRetries, Expires,
      RestoreReads, RestoreSets, vars, queue, rounds
  <2>2. Senders' = Senders /\ Quiet' = Quiet
    BY <2>1 DEF Senders, Sending, Quiet
  <2>3. pending' = "live" => pending = "live" /\ inFlight' = inFlight /\ queued' = queued
    BY <1>5 DEF BackendStep, WorkerFinalizes, PictureArrives, WorkerFails,
      RepairReads, RepairFails, MarkDelivered, AckRetries, Expires, DropEntry,
      RestoreReads, RestoreSets, vars, entry
  <2> QED
    BY <2>2, <2>3, SendersShrink
<1> QED
  BY <1>1, <1>2, <1>3, <1>4, <1>5 DEF Next

LEMMA SenderInit == Init => SenderInv
<1> SUFFICES ASSUME Init PROVE SenderInv
  OBVIOUS
<1>1. Senders = {}
  BY SenderMembers DEF Init, Sending
<1> QED
  BY <1>1 DEF SenderInv

(* As long as the conversation is known the result is in one hand.         *)
THEOREM OneSenderCorrect == Spec => []OneSender
<1>1. SenderInv => OneSender
  BY DEF SenderInv, OneSender
<1> QED
  BY <1>1, SenderInit, SenderNext, TypeCorrect, PTL DEF Spec

-----------------------------------------------------------------------------
(* Who stands behind a flag.                                               *)

(* The poller's flag and that of the queue, for the rounds and messages.   *)
EntryHeld ==
  /\ inFlight => \E p \in Pollers : p \in Senders
  /\ queued => \E x \in Drainers \cup Keys : x \in Senders

ScanHeld == recovering => \E s \in Scanners : s \in Senders

(* A live entry has one sender: when he is done he drops the entry, gives  *)
(* the flag back, or leaves his message to the queue.                      *)
LEMMA PollerFlags ==
  ASSUME TypeOK, KeyInv, SenderInv, EntryHeld, NEW p \in Pollers, PollerStep(p)
  PROVE  EntryHeld' /\ (ScanHeld => ScanHeld')
<1>1. /\ p \in Agents /\ p \notin Drainers /\ p \notin Scanners
      /\ at \in [Agents -> {"idle", "read", "push", "text", "tell", "settle"}]
      /\ PollKey(p) \in Keys /\ "task" \in Keys
      /\ item \in [Keys -> Kinds \cup {"none"}] /\ Kinds \cap {"none"} = {}
  BY AgentSets DEF TypeOK, PollKey, Keys, Kinds
<1>2. \A a \in Agents \ {p} : at'[a] = at[a]
  BY <1>1 DEF PollerStep, PollReads, PollSkips, PollBegins, PollGivesBack, PollSends, PollTexts, PollTells,
     PollSendsFailure, PollAnswered, Goes
<1>3. ScanHeld => ScanHeld'
  <2>1. recovering' = recovering
    BY DEF PollerStep, PollReads, PollSkips, PollBegins, PollGivesBack, PollSends, PollTexts, PollTells,
       PollSendsFailure
  <2>2. \A s \in Scanners : s \in Senders => s \in Senders'
    BY <1>1, <1>2, AgentSets, SenderMembers, SenderMembersNext DEF Sending
  <2> QED
    BY <2>1, <2>2 DEF ScanHeld
<1>4. ASSUME DropEntry PROVE EntryHeld'
  BY <1>4 DEF DropEntry, EntryHeld
<1>5. \A d \in Drainers : d \in Senders <=> d \in Senders'
  BY <1>1, <1>2, AgentSets, SenderMembers, SenderMembersNext DEF Sending
<1>6. ASSUME UNCHANGED item PROVE \A k \in Keys : k \in Senders <=> k \in Senders'
  BY <1>6, SenderMembers, SenderMembersNext
<1>7. ASSUME UNCHANGED <<entry, item>>, Sending(p) => Sending(p)' PROVE EntryHeld'
  <2>1. \A q \in Pollers : q \in Senders => q \in Senders'
    BY <1>1, <1>2, <1>7, AgentSets, SenderMembers, SenderMembersNext DEF Sending
  <2> QED
    BY <1>5, <1>6, <1>7, <2>1 DEF EntryHeld, entry
<1>8. ASSUME NEW k \in Keys, NEW kind \in Kinds, PushToQueue(k, kind), LeavesToQueue
      PROVE  EntryHeld'
  <2>1. inFlight' = FALSE
    BY <1>8 DEF LeavesToQueue
  <2>2. CASE k \in held
    <3>1. item' = item
      BY <1>8, <2>2 DEF PushToQueue
    <3>2. k \in Senders \/ \E d \in Drainers : d \in Senders
      BY <2>2, AgentSets, SenderMembers DEF KeyInv, Holding, Sending
    <3> QED
      BY <1>5, <1>6, <2>1, <3>1, <3>2 DEF EntryHeld
  <2>3. CASE k \notin held
    <3>1. item'[k] # "none"
      BY <1>1, <1>8, <2>3 DEF PushToQueue
    <3>2. k \in Senders'
      BY <3>1, SenderMembersNext
    <3> QED
      BY <2>1, <3>2 DEF EntryHeld
  <2> QED
    BY <2>2, <2>3
<1>9. CASE PollReads(p) \/ PollSkips(p)
  <2>1. UNCHANGED item /\ (DropEntry \/ UNCHANGED entry) /\ ~Sending(p)
    BY <1>9 DEF PollReads, PollSkips, queue, Sending
  <2> QED
    BY <1>3, <1>4, <1>7, <2>1 DEF entry
<1>10. CASE PollBegins(p)
  <2>1. p \in Senders' /\ queued' = FALSE
    <3>1. Sending(p)'
      BY <1>1, <1>10 DEF PollBegins, Goes, Sending
    <3> QED
      BY <1>1, <1>10, <3>1, SenderMembersNext DEF PollBegins, Takes, TypeOK
  <2> QED
    BY <1>3, <2>1 DEF EntryHeld
<1>11. ASSUME PollAnswered(p), UNCHANGED queue PROVE EntryHeld'
  <2>1. CASE DropEntry
    BY <1>4, <2>1
  <2>2. CASE Goes(p, "tell") /\ UNCHANGED entry
    <3>1. Sending(p)'
      BY <1>1, <2>2 DEF Goes, Sending
    <3> QED
      BY <1>7, <1>11, <2>2, <3>1 DEF queue
  <2> QED
    BY <1>11, <2>1, <2>2 DEF PollAnswered
<1>12. CASE PollSends(p)
  <2>1. \/ PushToQueue(PollKey(p), "picture") /\ LeavesToQueue
        \/ Goes(p, "text") /\ UNCHANGED <<entry, queue>>
        \/ PollAnswered(p) /\ UNCHANGED queue
    BY <1>12 DEF PollSends, Outcomes
  <2>2. CASE Goes(p, "text") /\ UNCHANGED <<entry, queue>>
    <3>1. Sending(p)'
      BY <1>1, <2>2 DEF Goes, Sending
    <3> QED
      BY <1>3, <1>7, <2>2, <3>1 DEF queue
  <2> QED
    BY <1>1, <1>3, <1>8, <1>11, <2>1, <2>2 DEF Kinds
<1>13. CASE PollTexts(p)
  <2>1. \/ PushToQueue(PollKey(p), "text") /\ LeavesToQueue
        \/ PollAnswered(p) /\ UNCHANGED queue
    BY <1>13 DEF PollTexts
  <2> QED
    BY <1>1, <1>3, <1>8, <1>11, <2>1 DEF Kinds
<1>14. CASE PollTells(p)
  BY <1>3, <1>4, <1>14 DEF PollTells
<1>15. CASE PollSendsFailure(p)
  <2>1. DropEntry \/ \E kind \in Kinds : PushToQueue("task", kind) /\ LeavesToQueue
    BY <1>15 DEF PollSendsFailure, Kinds
  <2> QED
    BY <1>1, <1>3, <1>4, <1>8, <2>1
<1>16. CASE PollGivesBack(p)
  <2>1. inFlight' = FALSE /\ queued' = queued /\ item' = item
    BY <1>16 DEF PollGivesBack, queue
  <2> QED
    BY <1>3, <1>5, <1>6, <2>1 DEF EntryHeld
<1> QED
  BY <1>9, <1>10, <1>12, <1>13, <1>14, <1>15, <1>16 DEF PollerStep

LEMMA DrainerFlags ==
  ASSUME TypeOK, EntryHeld, NEW d \in Drainers, DrainerStep(d)
  PROVE  EntryHeld' /\ (ScanHeld => ScanHeld')
<1>1. /\ d \in Agents /\ d \notin Pollers /\ d \notin Scanners
      /\ at \in [Agents -> {"idle", "read", "push", "text", "tell", "settle"}]
      /\ item \in [Keys -> Kinds \cup {"none"}] /\ Kinds \cap {"none"} = {}
      /\ load[d].key \in Keys /\ load[d].kind \in Kinds
  BY AgentSets DEF TypeOK, Kinds
<1>2. \A a \in Agents \ {d} : at'[a] = at[a]
  BY <1>1 DEF DrainerStep, DrainTakes, DrainSends, DrainTexts, DrainTells, DrainReturns,
     DrainAnswered, Goes
<1>3. \A a \in Pollers \cup Scanners : a \in Senders <=> a \in Senders'
  BY <1>1, <1>2, AgentSets, SenderMembers, SenderMembersNext DEF Sending
<1>4. ScanHeld => ScanHeld'
  <2>1. recovering' = recovering
    BY DEF DrainerStep, DrainTakes, DrainSends, DrainTexts, DrainTells
  <2> QED
    BY <1>3, <2>1 DEF ScanHeld
<1>5. ASSUME DropEntry PROVE EntryHeld'
  BY <1>5 DEF DropEntry, EntryHeld
<1>6. ASSUME UNCHANGED entry, NEW x \in Drainers \cup Keys, x \in Senders'
      PROVE  EntryHeld'
  BY <1>3, <1>6 DEF EntryHeld, entry
<1>7. ASSUME UNCHANGED entry, NEW place \in {"push", "text", "tell", "settle"}, Goes(d, place)
      PROVE  EntryHeld'
  <2>1. Sending(d)'
    BY <1>1, <1>7 DEF Goes, Sending
  <2>2. d \in Senders'
    BY <1>1, <2>1, SenderMembersNext
  <2> QED
    BY <1>6, <1>7, <2>2
<1>8. ASSUME DrainReturns(d) PROVE EntryHeld'
  <2>1. item'[load[d].key] # "none"
    BY <1>1, <1>8 DEF DrainReturns
  <2>2. load[d].key \in Senders'
    BY <1>1, <2>1, SenderMembersNext
  <2> QED
    BY <1>1, <1>6, <1>8, <2>2 DEF DrainReturns
<1>9. ASSUME DrainAnswered(d) PROVE EntryHeld'
  BY <1>5, <1>7, <1>9 DEF DrainAnswered
<1>10. CASE DrainTakes(d)
  BY <1>4, <1>7, <1>10 DEF DrainTakes
<1>11. CASE DrainSends(d)
  <2>1. \/ DrainReturns(d) \/ DrainAnswered(d) \/ DropEntry
        \/ UNCHANGED entry /\ (Goes(d, "tell") \/ Goes(d, "text"))
    BY <1>11 DEF DrainSends, Outcomes
  <2> QED
    BY <1>4, <1>5, <1>7, <1>8, <1>9, <2>1
<1>12. CASE DrainTexts(d)
  <2>1. DrainReturns(d) \/ DrainAnswered(d)
    BY <1>12 DEF DrainTexts
  <2> QED
    BY <1>4, <1>8, <1>9, <2>1
<1>13. CASE DrainTells(d)
  BY <1>4, <1>5, <1>13 DEF DrainTells
<1> QED
  BY <1>10, <1>11, <1>12, <1>13 DEF DrainerStep

LEMMA ScannerFlags ==
  ASSUME TypeOK, EntryHeld, ScanHeld, NEW s \in Scanners, ScannerStep(s)
  PROVE  EntryHeld' /\ ScanHeld'
<1>1. /\ s \in Agents /\ s \notin Pollers /\ s \notin Drainers
      /\ at \in [Agents -> {"idle", "read", "push", "text", "tell", "settle"}]
      /\ item \in [Keys -> Kinds \cup {"none"}] /\ Kinds \cap {"none"} = {}
      /\ "delivered" \in Keys
  BY AgentSets DEF TypeOK, Kinds, Keys
<1>2. \A a \in Agents \ {s} : at'[a] = at[a]
  BY <1>1 DEF ScannerStep, ScanReads, ScanSkips, ScanBegins, ScanSends, ScanTexts, ScanTells,
     Goes
<1>3. EntryHeld'
  <2>1. \A a \in Pollers \cup Drainers : a \in Senders <=> a \in Senders'
    BY <1>1, <1>2, AgentSets, SenderMembers, SenderMembersNext DEF Sending
  <2>2. \A k \in Keys : item[k] # "none" => item'[k] # "none"
    BY <1>1 DEF ScannerStep, ScanReads, ScanSkips, ScanBegins, ScanSends, ScanTexts, ScanTells,
       PushToQueue, queue, Kinds
  <2>3. \A k \in Keys : k \in Senders => k \in Senders'
    BY <2>2, SenderMembers, SenderMembersNext
  <2>4. DropEntry \/ (inFlight' = inFlight /\ queued' = queued)
    BY DEF ScannerStep, ScanReads, ScanSkips, ScanBegins, ScanSends, ScanTexts, ScanTells, entry
  <2> QED
    BY <2>1, <2>3, <2>4 DEF DropEntry, EntryHeld
<1>4. ASSUME recovering' # FALSE PROVE Sending(s)' \/ (recovering' = recovering /\ ~Sending(s))
  BY <1>1, <1>4 DEF ScannerStep, ScanReads, ScanSkips, ScanBegins, ScanSends, ScanTexts,
     ScanTells, Goes, Sending
<1>5. ScanHeld'
  <2>1. \A t \in Scanners \ {s} : t \in Senders => t \in Senders'
    BY <1>1, <1>2, AgentSets, SenderMembers, SenderMembersNext DEF Sending
  <2>2. s \in Senders <=> Sending(s)
    BY <1>1, SenderMembers
  <2>3. s \in Senders' <=> Sending(s)'
    BY <1>1, SenderMembersNext
  <2> QED
    BY <1>4, <2>1, <2>2, <2>3 DEF ScanHeld
<1> QED
  BY <1>3, <1>5

LEMMA FlagsNext ==
  TypeOK /\ KeyInv /\ SenderInv /\ EntryHeld /\ ScanHeld /\ [Next]_vars
    => EntryHeld' /\ ScanHeld'
<1> SUFFICES ASSUME TypeOK, KeyInv, SenderInv, EntryHeld, ScanHeld, [Next]_vars
             PROVE  EntryHeld' /\ ScanHeld'
  OBVIOUS
<1>1. CASE \E p \in Pollers : PollerStep(p)
  BY <1>1, PollerFlags
<1>2. CASE \E d \in Drainers : DrainerStep(d)
  BY <1>2, DrainerFlags
<1>3. CASE \E s \in Scanners : ScannerStep(s)
  BY <1>3, ScannerFlags
<1>4. CASE Crash
  BY <1>4 DEF Crash, EntryHeld, ScanHeld
<1>5. CASE \/ BackendStep \/ MarkDelivered \/ AckRetries
           \/ Expires \/ RestoreReads \/ RestoreSets \/ UNCHANGED vars
  <2>1. UNCHANGED <<at, item, recovering>>
    BY <1>5 DEF BackendStep, WorkerFinalizes, PictureArrives, WorkerFails,
      RepairReads, RepairFails, MarkDelivered, AckRetries, Expires,
      RestoreReads, RestoreSets, vars, queue, rounds
  <2>2. Senders' = Senders
    BY <2>1 DEF Senders, Sending
  <2>3. DropEntry \/ (inFlight' = inFlight /\ queued' = queued)
    BY <1>5 DEF BackendStep, WorkerFinalizes, PictureArrives, WorkerFails,
      RepairReads, RepairFails, MarkDelivered, AckRetries, Expires,
      RestoreReads, RestoreSets, vars, entry
  <2> QED
    BY <2>1, <2>2, <2>3 DEF DropEntry, EntryHeld, ScanHeld
<1> QED
  BY <1>1, <1>2, <1>3, <1>4, <1>5 DEF Next

(* No flag is left behind: whoever is kept out of a task, by the entry or  *)
(* by another scan, is kept out by somebody who is sending its result.     *)
THEOREM FlagsCorrect == Spec => []FlagsHeld
<1>1. Init => EntryHeld /\ ScanHeld
  BY DEF Init, EntryHeld, ScanHeld
<1>2. EntryHeld /\ ScanHeld => FlagsHeld
  <2>1. \A a \in Pollers \cup Scanners : a \in Senders <=> Sending(a)
    BY AgentSets, SenderMembers
  <2> QED
    BY <2>1 DEF EntryHeld, ScanHeld, FlagsHeld
<1> QED
  BY <1>1, <1>2, FlagsNext, SenderInit, SenderNext, TypeCorrect, KeyInvCorrect, PTL DEF Spec

-----------------------------------------------------------------------------
(* The picture, before any scan or restart.                                *)

(* Rounds that may still push the picture.                                 *)
Loaded(a) ==
  \/ a \in Pollers /\ at[a] = "push" /\ seen[a] \notin {"failed", "pictureless"}
  \/ a \in Drainers /\ at[a] \in {"push", "text"} /\ load[a].kind = "picture"

AnyPicture == (\E a \in Agents : Loaded(a)) \/ (\E k \in Keys : item[k] = "picture")
AnyTelling == \E a \in Agents : Telling(a)

(* The entry is never restored; once the picture was shown, or the task    *)
(* is known to be successful, a live entry belongs to a round that waits   *)
(* for the confirmation, so that nobody can take it again.                 *)
EntryKept == pending # "bare" /\ restoring = "done" /\ (acks = TRUE => pending # "live")
ShownTold ==
  pending = "live" /\ (status = "success" \/ shown # 0 \/ \E p \in Pollers : seen[p] = "success")
    => AnyTelling
PollersKnow ==
  \A p \in Pollers : /\ Sending(p) => seen[p] \in {"finalizing", "failed", "pictureless"}
                     /\ at[p] = "read" => seen[p] # "queued"
PictureKeys ==
  /\ item["task"] # "picture"
  /\ \A d \in Drainers : load[d].kind = "picture" => load[d].key = "delivered"
ShownOnce == shown <= 1 /\ (shown # 0 => ~AnyPicture)

PictureInv == Quiet => EntryKept /\ ShownTold /\ PollersKnow /\ PictureKeys /\ ShownOnce

(* Steps that show nothing and hand nothing new to anybody.                *)
LEMMA PictureKeep ==
  ASSUME TypeOK, PictureInv, Quiet' => Quiet,
         shown' = shown, restoring' = restoring,
         status' = "success" => status = "success",
         pending' \in {pending, "none"},
         acks' = acks \/ pending' = "none",
         \A p \in Pollers : seen'[p] = "success" => seen[p] = "success",
         Quiet' => PollersKnow' /\ PictureKeys',
         AnyPicture' => AnyPicture,
         pending' = "live" /\ AnyTelling => AnyTelling'
  PROVE  PictureInv'
<1> SUFFICES ASSUME Quiet' PROVE EntryKept' /\ ShownTold' /\ ShownOnce'
  BY DEF PictureInv
<1>1. EntryKept /\ ShownTold /\ ShownOnce
  BY DEF PictureInv
<1>2. EntryKept'
  BY <1>1 DEF EntryKept
<1>3. ShownTold'
  BY <1>1 DEF ShownTold
<1>4. ShownOnce'
  BY <1>1 DEF ShownOnce
<1> QED
  BY <1>2, <1>3, <1>4

(* In a quiet state those who may push the picture are the only senders.   *)
LEMMA LoadedSends == \A a \in Agents : Loaded(a) \/ Telling(a) => a \in Senders
BY SenderMembers DEF Loaded, Telling, Sending

LEMMA PictureItem == \A k \in Keys : item[k] = "picture" => k \in Senders
BY SenderMembers

(* The place a round goes to, and what the others do meanwhile.            *)
LEMMA GoesPlace ==
  ASSUME TypeOK, NEW a \in Agents, NEW place, Goes(a, place)
  PROVE  /\ at'[a] = place
         /\ \A b \in Agents \ {a} : at'[b] = at[b]
BY DEF TypeOK, Goes

LEMMA RemembersSeen ==
  ASSUME TypeOK, NEW p \in Pollers, NEW place, Goes(p, place), Remembers(p)
  PROVE  /\ \A q \in Pollers \ {p} : seen'[q] = seen[q]
         /\ seen'[p] = IF place = "idle" THEN "queued" ELSE seen[p]
<1>1. at'[p] = place /\ seen \in [Pollers -> Views]
  BY AgentSets, GoesPlace DEF TypeOK
<1> QED
  BY <1>1 DEF Remembers

(* A round of the poller that goes on or ends and hands nothing over.      *)
LEMMA PollerMoves ==
  ASSUME TypeOK, PictureInv, NEW p \in Pollers, NEW place, Goes(p, place), Remembers(p),
         Quiet' => Quiet, UNCHANGED <<shown, restoring, status, queue>>,
         pending' \in {pending, "none"}, acks' = acks \/ pending' = "none",
         place = "idle" \/ (Sending(p) /\ place \in {"text", "tell"}),
         Telling(p) => pending' = "none"
  PROVE  PictureInv'
<1>1. /\ p \in Agents /\ at'[p] = place /\ \A b \in Agents \ {p} : at'[b] = at[b]
      /\ Pollers \subseteq Agents /\ p \notin Drainers /\ place # "push"
  BY AgentSets, GoesPlace
<1>2. /\ \A q \in Pollers \ {p} : seen'[q] = seen[q]
      /\ seen'[p] = IF place = "idle" THEN "queued" ELSE seen[p]
  BY RemembersSeen
<1>3. item' = item /\ load' = load
  BY DEF queue
<1>4. AnyPicture' => AnyPicture
  BY <1>1, <1>2, <1>3 DEF AnyPicture, Loaded
<1>5. pending' = "live" /\ AnyTelling => AnyTelling'
  BY <1>1 DEF AnyTelling, Telling
<1>6. Quiet' => PollersKnow' /\ PictureKeys'
  BY <1>1, <1>2, <1>3 DEF PictureInv, PollersKnow, PictureKeys, Sending
<1>7. \A q \in Pollers : seen'[q] = "success" => seen[q] = "success"
  BY <1>2
<1> QED
  BY <1>4, <1>5, <1>6, <1>7, PictureKeep

(* A round of the poller that leaves its message to the queue.             *)
LEMMA PollerQueues ==
  ASSUME TypeOK, PictureInv, NEW p \in Pollers, Goes(p, "idle"), Remembers(p),
         Quiet' => Quiet, UNCHANGED <<shown, restoring, status, acks, pending>>,
         Sending(p), ~Telling(p),
         NEW k \in Keys, NEW kind \in Kinds, PushToQueue(k, kind),
         Quiet /\ kind = "picture" => k = "delivered" /\ Loaded(p)
  PROVE  PictureInv'
<1>1. /\ p \in Agents /\ at'[p] = "idle" /\ \A b \in Agents \ {p} : at'[b] = at[b]
      /\ Pollers \subseteq Agents
      /\ item \in [Keys -> Kinds \cup {"none"}]
      /\ "task" \in Keys
  BY AgentSets, GoesPlace DEF TypeOK, Keys
<1>2. /\ \A q \in Pollers \ {p} : seen'[q] = seen[q]
      /\ seen'[p] = "queued"
  BY RemembersSeen
<1>3. load' = load /\ (item' = item \/ item' = [item EXCEPT ![k] = kind])
  BY DEF PushToQueue
<1>4. CASE ~Quiet'
  BY <1>4 DEF PictureInv
<1>5. CASE Quiet'
  <2>1. AnyPicture' => AnyPicture
    BY <1>1, <1>2, <1>3, <1>5 DEF AnyPicture, Loaded
  <2>2. AnyTelling => AnyTelling'
    BY <1>1 DEF AnyTelling, Telling
  <2>3. PollersKnow'
    BY <1>1, <1>2, <1>5 DEF PictureInv, PollersKnow, Sending
  <2>4. PictureKeys'
    BY <1>1, <1>3, <1>5 DEF PictureInv, PictureKeys
  <2>5. \A q \in Pollers : seen'[q] = "success" => seen[q] = "success"
    BY <1>2
  <2> QED
    BY <1>5, <2>1, <2>2, <2>3, <2>4, <2>5, PictureKeep
<1> QED
  BY <1>4, <1>5

LEMMA PollerPicture ==
  ASSUME TypeOK, SenderInv, PictureInv, NEW p \in Pollers, PollerStep(p)
  PROVE  PictureInv'
<1>1. /\ p \in Agents /\ p \notin Drainers /\ Pollers \subseteq Agents /\ Drainers \subseteq Agents
      /\ PollKey(p) \in Keys /\ "task" \in Keys
      /\ "picture" \in Kinds /\ "text" \in Kinds /\ "card" \in Kinds
      /\ shown \in Nat
  BY AgentSets DEF TypeOK, PollKey, Keys, Kinds
<1>2. Quiet' => Quiet
  BY DEF PollerStep, PollReads, PollSkips, PollBegins, PollGivesBack, PollSends, PollTexts, PollTells,
     PollSendsFailure, Quiet
<1>3. DropEntry \/ UNCHANGED entry \/ LeavesToQueue => pending' \in {pending, "none"}
  BY DEF DropEntry, entry, LeavesToQueue
<1>4. CASE PollReads(p)
  <2> SUFFICES ASSUME Quiet' PROVE PictureInv'
    BY DEF PictureInv
  <2>0. EntryKept /\ ShownTold /\ PollersKnow /\ PictureKeys /\ ShownOnce
    BY <1>2 DEF PictureInv
  <2>1. /\ at[p] = "idle" /\ at'[p] = "read" /\ \A b \in Agents \ {p} : at'[b] = at[b]
        /\ seen'[p] \in {status, "pictureless"} /\ \A q \in Pollers \ {p} : seen'[q] = seen[q]
        /\ UNCHANGED <<status, pending, restoring, acks, item, load, shown>>
        /\ status # "queued"
    BY <1>1, <1>4, GoesPlace DEF PollReads, entry, queue, history, TypeOK
  <2>2. AnyPicture' => AnyPicture
    BY <1>1, <2>1 DEF AnyPicture, Loaded
  <2>3. AnyTelling => AnyTelling'
    BY <2>1 DEF AnyTelling, Telling
  <2>4. EntryKept' /\ PictureKeys'
    BY <2>0, <2>1 DEF EntryKept, PictureKeys
  <2>5. ShownTold'
    BY <2>0, <2>1, <2>3 DEF ShownTold
  <2>6. PollersKnow'
    BY <1>1, <2>0, <2>1 DEF PollersKnow, Sending
  <2>7. ShownOnce'
    BY <2>0, <2>1, <2>2 DEF ShownOnce
  <2> QED
    BY <2>4, <2>5, <2>6, <2>7 DEF PictureInv
<1>5. CASE PollSkips(p)
  <2>1. /\ Goes(p, "idle") /\ Remembers(p) /\ ~Telling(p)
        /\ UNCHANGED <<shown, restoring, status, queue, acks>>
        /\ pending' \in {pending, "none"}
    BY <1>3, <1>5 DEF PollSkips, history, Telling
  <2> QED
    BY <1>1, <1>2, <2>1, PollerMoves DEF TypeOK
<1>6. CASE PollBegins(p)
  <2> SUFFICES ASSUME Quiet' PROVE PictureInv'
    BY DEF PictureInv
  <2>0. EntryKept /\ ShownTold /\ PollersKnow /\ PictureKeys /\ ShownOnce
    BY <1>2 DEF PictureInv
  <2>1. Senders = {} /\ pending = "live"
    BY <1>1, <1>6, SenderMembers DEF PollBegins, Takes, SenderInv, Agents
  <2>2. ~AnyTelling
    BY <2>1, LoadedSends DEF AnyTelling
  <2>3. status # "success" /\ shown = 0 /\ seen[p] # "success"
    BY <2>0, <2>1, <2>2 DEF ShownTold
  <2>4. /\ at[p] = "read" /\ at'[p] = "push" /\ \A b \in Agents \ {p} : at'[b] = at[b]
        /\ UNCHANGED <<status, pending, restoring, acks, item, load, shown, seen>>
    BY <1>1, <1>6, GoesPlace DEF PollBegins, queue, history
  <2>5. EntryKept' /\ PictureKeys'
    BY <2>0, <2>4 DEF EntryKept, PictureKeys
  <2>6. ShownTold'
    BY <2>0, <2>1, <2>2, <2>4 DEF ShownTold
  <2>7. PollersKnow'
    <3>1. seen[p] \in {"finalizing", "failed", "pictureless"}
      BY <2>0, <2>3, <2>4 DEF PollersKnow, TypeOK, Views, Statuses
    <3> QED
      BY <1>1, <2>0, <2>4, <3>1 DEF PollersKnow, Sending
  <2>8. ShownOnce'
    BY <2>3, <2>4 DEF ShownOnce
  <2> QED
    BY <2>5, <2>6, <2>7, <2>8 DEF PictureInv
<1>7. CASE PollSends(p)
  <2>1. PICK o \in Outcomes :
         /\ Pushed(o, "picture")
         /\ CASE o = "offline" -> /\ PushToQueue(PollKey(p), "picture")
                                  /\ LeavesToQueue
                                  /\ Goes(p, "idle")
              [] o = "refused" -> Goes(p, "text") /\ UNCHANGED <<entry, queue>>
              [] OTHER -> PollAnswered(p) /\ UNCHANGED queue
    BY <1>7 DEF PollSends
  <2>2. /\ Remembers(p) /\ UNCHANGED <<status, restoring, acks>>
        /\ Sending(p) /\ ~Telling(p) /\ Loaded(p)
        /\ seen[p] \notin {"failed", "pictureless"}
    BY <1>7 DEF PollSends, Sending, Telling, Loaded
  <2>3. Quiet => seen[p] = "finalizing" /\ PollKey(p) = "delivered"
    BY <2>2 DEF PictureInv, PollersKnow, PollKey
  <2>4. CASE o = "offline"
    <3>1. /\ PushToQueue(PollKey(p), "picture") /\ Goes(p, "idle") /\ shown' = shown
          /\ pending' = pending
      BY <2>1, <2>4 DEF Pushed, LeavesToQueue
    <3> QED
      BY <1>1, <1>2, <2>2, <2>3, <3>1, PollerQueues
  <2>5. CASE o = "refused"
    <3>1. Goes(p, "text") /\ UNCHANGED queue /\ shown' = shown /\ pending' = pending
      BY <2>1, <2>5 DEF Pushed, entry
    <3> QED
      BY <1>1, <1>2, <2>2, <3>1, PollerMoves DEF TypeOK
  <2>6. CASE o \in {"sent", "uncertain"}
    <3> SUFFICES ASSUME Quiet' PROVE PictureInv'
      BY DEF PictureInv
    <3>0. EntryKept /\ ShownTold /\ PollersKnow /\ PictureKeys /\ ShownOnce
      BY <1>2 DEF PictureInv
    <3>1. Goes(p, "tell") /\ UNCHANGED entry /\ UNCHANGED queue
      BY <1>2, <2>1, <2>3, <2>6 DEF PollAnswered
    <3>2. shown = 0 /\ shown' <= 1 /\ shown' \in Nat
      <4>1. shown = 0
        BY <1>1, <2>2, <3>0 DEF ShownOnce, AnyPicture
      <4> QED
        BY <2>1, <4>1 DEF Pushed, AnotherShown, ShownCap
    <3>3. /\ at'[p] = "tell" /\ \A b \in Agents \ {p} : at'[b] = at[b]
          /\ seen'[p] = "finalizing" /\ \A q \in Pollers \ {p} : seen'[q] = seen[q]
          /\ UNCHANGED <<status, pending, restoring, acks, item, load>>
      BY <1>1, <1>2, <2>2, <2>3, <3>1, GoesPlace, RemembersSeen DEF entry, queue
    <3>4. \A x \in Senders : x = p
      BY <1>1, <1>2, <2>2, SenderMembers DEF SenderInv
    <3>5. ~AnyPicture'
      <4>1. \A a \in Agents : ~Loaded(a)'
        BY <1>1, <3>3, <3>4, LoadedSends DEF Loaded
      <4>2. \A k \in Keys : item'[k] # "picture"
        BY <1>1, <3>3, <3>4, PictureItem, KeySets
      <4> QED
        BY <4>1, <4>2 DEF AnyPicture
    <3>6. AnyTelling'
      BY <1>1, <3>3 DEF AnyTelling, Telling
    <3>7. EntryKept' /\ PictureKeys'
      BY <3>0, <3>3 DEF EntryKept, PictureKeys
    <3>8. PollersKnow'
      BY <1>1, <3>0, <3>3 DEF PollersKnow, Sending
    <3> QED
      BY <3>2, <3>5, <3>6, <3>7, <3>8 DEF PictureInv, ShownTold, ShownOnce
  <2> QED
    BY <2>4, <2>5, <2>6 DEF Outcomes
<1>8. CASE PollTexts(p)
  <2>1. PICK o \in Outcomes :
         /\ Pushed(o, "text")
         /\ IF o = "offline"
            THEN /\ PushToQueue(PollKey(p), "text")
                 /\ LeavesToQueue
                 /\ Goes(p, "idle")
            ELSE PollAnswered(p) /\ UNCHANGED queue
    BY <1>8 DEF PollTexts
  <2>2. /\ Remembers(p) /\ UNCHANGED <<status, restoring, acks, shown>>
        /\ Sending(p) /\ ~Telling(p)
    BY <1>8, <2>1 DEF PollTexts, Sending, Telling, Pushed
  <2>3. CASE o = "offline"
    <3>1. /\ PushToQueue(PollKey(p), "text") /\ Goes(p, "idle") /\ pending' = pending
      BY <2>1, <2>3 DEF LeavesToQueue
    <3> QED
      BY <1>1, <1>2, <2>2, <3>1, PollerQueues
  <2>4. CASE o # "offline"
    <3>1. /\ UNCHANGED queue
          /\ Goes(p, "idle") \/ Goes(p, "tell")
          /\ pending' \in {pending, "none"}
      BY <1>3, <2>1, <2>4 DEF PollAnswered
    <3> QED
      BY <1>1, <1>2, <2>1, <2>2, <2>4, <3>1, PollerMoves DEF TypeOK
  <2> QED
    BY <2>3, <2>4
<1>9. CASE PollTells(p)
  <2>1. /\ Goes(p, "idle") /\ Remembers(p) /\ pending' = "none"
        /\ UNCHANGED <<shown, restoring, status, queue>>
    BY <1>9 DEF PollTells, DropEntry, history
  <2> QED
    BY <1>1, <1>2, <2>1, PollerMoves
<1>10. CASE PollSendsFailure(p)
  <2>1. PICK o \in Outcomes, kind \in {"card", "text"} :
         /\ Pushed(o, kind)
         /\ IF o \in {"offline", "refused"}
            THEN PushToQueue("task", kind) /\ LeavesToQueue
            ELSE DropEntry /\ UNCHANGED queue
    BY <1>10 DEF PollSendsFailure
  <2>2. /\ Remembers(p) /\ UNCHANGED <<status, restoring, acks, shown>>
        /\ Sending(p) /\ ~Telling(p) /\ Goes(p, "idle")
        /\ kind # "picture" /\ kind \in Kinds
    BY <1>1, <1>10, <2>1 DEF PollSendsFailure, Sending, Telling, Pushed
  <2>3. CASE o \in {"offline", "refused"}
    <3>1. PushToQueue("task", kind) /\ pending' = pending
      BY <2>1, <2>3 DEF LeavesToQueue
    <3> QED
      BY <1>1, <1>2, <2>2, <3>1, PollerQueues
  <2>4. CASE o \notin {"offline", "refused"}
    <3>1. UNCHANGED queue /\ pending' = "none"
      BY <2>1, <2>4 DEF DropEntry
    <3> QED
      BY <1>1, <1>2, <2>2, <3>1, PollerMoves
  <2> QED
    BY <2>3, <2>4
<1>11. CASE PollGivesBack(p)
  <2>1. /\ Goes(p, "idle") /\ Remembers(p) /\ ~Telling(p)
        /\ UNCHANGED <<shown, restoring, status, queue, acks, pending>>
    BY <1>11 DEF PollGivesBack, history, Telling
  <2> QED
    BY <1>1, <1>2, <2>1, PollerMoves
<1> QED
  BY <1>4, <1>5, <1>6, <1>7, <1>8, <1>9, <1>10, <1>11 DEF PollerStep

(* A round of the queue that goes on, gives its message back or is done.   *)
LEMMA DrainerMoves ==
  ASSUME TypeOK, PictureInv, NEW d \in Drainers, NEW place, Goes(d, place),
         Quiet' => Quiet, UNCHANGED <<shown, restoring, status, seen>>,
         pending' \in {pending, "none"}, acks' = acks \/ pending' = "none",
         \/ /\ at[d] \in {"push", "text"}
            /\ place \in {"text", "tell", "settle"} /\ UNCHANGED queue
         \/ /\ at[d] \in {"push", "text"}
            /\ place \in {"idle", "tell"} /\ Releases(d)
         \/ at[d] \in {"push", "text"} /\ place = "idle" /\ DrainReturns(d)
         \/ place = "idle" /\ pending' = "none" /\ (Releases(d) \/ UNCHANGED queue)
  PROVE  PictureInv'
<1>1. /\ d \in Agents /\ d \notin Pollers /\ Pollers \subseteq Agents
      /\ at'[d] = place /\ \A b \in Agents \ {d} : at'[b] = at[b]
      /\ item \in [Keys -> Kinds \cup {"none"}]
      /\ load \in [Drainers -> [key : Keys, kind : Kinds]]
      /\ load[d].key \in Keys /\ "task" \in Keys
      /\ NoLoad.kind # "picture"
  BY AgentSets, GoesPlace DEF TypeOK, Keys, NoLoad
<1>2. /\ \A e \in Drainers \ {d} : load'[e] = load[e]
      /\ load'[d] = load[d] \/ load'[d] = NoLoad
  BY <1>1 DEF Releases, DrainReturns, LetsGo, queue
<1>3. \/ item' = item
      \/ /\ at[d] \in {"push", "text"}
         /\ item' = [item EXCEPT ![load[d].key] = load[d].kind]
  BY DEF Releases, DrainReturns, queue
<1>4. at'[d] \in {"push", "text"} => at[d] \in {"push", "text"}
  BY <1>1
<1>5. AnyPicture' => AnyPicture
  <2>1. \A a \in Agents : Loaded(a)' => Loaded(a)
    BY <1>1, <1>2, <1>4 DEF Loaded
  <2>2. \A k \in Keys : item'[k] = "picture" => item[k] = "picture" \/ Loaded(d)
    BY <1>1, <1>3 DEF Loaded
  <2> QED
    BY <1>1, <2>1, <2>2 DEF AnyPicture
<1>6. pending' = "live" /\ AnyTelling => AnyTelling'
  BY <1>1 DEF AnyTelling, Telling
<1>7. Quiet' => PollersKnow' /\ PictureKeys'
  <2> SUFFICES ASSUME Quiet' PROVE PollersKnow' /\ PictureKeys'
    OBVIOUS
  <2>1. PollersKnow /\ PictureKeys
    BY DEF PictureInv
  <2>2. PollersKnow'
    BY <1>1, <2>1 DEF PollersKnow, Sending
  <2>3. item'["task"] # "picture"
    BY <1>1, <1>3, <2>1 DEF PictureKeys
  <2>4. PictureKeys'
    BY <1>1, <1>2, <2>1, <2>3 DEF PictureKeys
  <2> QED
    BY <2>2, <2>4
<1> QED
  BY <1>5, <1>6, <1>7, PictureKeep

LEMMA DrainerPicture ==
  ASSUME TypeOK, SenderInv, PictureInv, NEW d \in Drainers, DrainerStep(d)
  PROVE  PictureInv'
<1>1. /\ d \in Agents /\ d \notin Pollers /\ Pollers \subseteq Agents /\ Drainers \subseteq Agents
      /\ item \in [Keys -> Kinds \cup {"none"}]
      /\ load \in [Drainers -> [key : Keys, kind : Kinds]]
      /\ load[d].key \in Keys /\ load[d].kind \in Kinds
      /\ "task" \in Keys /\ \A k \in Keys : k = "task" \/ k = "delivered"
      /\ shown \in Nat
  BY AgentSets DEF TypeOK, Keys
<1>2. Quiet' => Quiet
  BY DEF DrainerStep, DrainTakes, DrainSends, DrainTexts, DrainTells, Quiet
<1>3. DropEntry \/ UNCHANGED entry => pending' \in {pending, "none"}
  BY DEF DropEntry, entry
<1>4. CASE DrainTakes(d)
  <2>1. PICK k \in Keys :
          /\ item[k] # "none"
          /\ load' = [load EXCEPT ![d] = [key |-> k, kind |-> item[k]]]
          /\ item' = [item EXCEPT ![k] = "none"]
    BY <1>4 DEF DrainTakes
  <2>2. /\ at[d] = "idle" /\ at'[d] = "push" /\ \A b \in Agents \ {d} : at'[b] = at[b]
        /\ UNCHANGED <<status, pending, restoring, acks, shown, seen>>
    BY <1>1, <1>4, GoesPlace DEF DrainTakes, entry, history
  <2>3. /\ load'[d].key = k /\ load'[d].kind = item[k]
        /\ \A e \in Drainers \ {d} : load'[e] = load[e]
        /\ item'[k] = "none" /\ \A j \in Keys \ {k} : item'[j] = item[j]
    BY <1>1, <2>1
  <2>4. AnyPicture' => AnyPicture
    <3>1. \A a \in Agents \ {d} : Loaded(a)' => Loaded(a)
      BY <1>1, <2>2, <2>3 DEF Loaded
    <3>2. Loaded(d)' => item[k] = "picture"
      BY <1>1, <2>2, <2>3 DEF Loaded
    <3>3. \A j \in Keys : item'[j] = "picture" => item[j] = "picture"
      BY <2>3
    <3> QED
      BY <3>1, <3>2, <3>3 DEF AnyPicture
  <2>5. AnyTelling => AnyTelling'
    BY <2>2 DEF AnyTelling, Telling
  <2>6. Quiet' => PollersKnow' /\ PictureKeys'
    <3> SUFFICES ASSUME Quiet' PROVE PollersKnow' /\ PictureKeys'
      OBVIOUS
    <3>1. PollersKnow /\ PictureKeys
      BY <1>2 DEF PictureInv
    <3>2. PollersKnow'
      BY <1>1, <2>2, <3>1 DEF PollersKnow, Sending
    <3>3. PictureKeys'
      BY <1>1, <2>3, <3>1 DEF PictureKeys
    <3> QED
      BY <3>2, <3>3
  <2> QED
    BY <1>2, <2>2, <2>4, <2>5, <2>6, PictureKeep
<1>5. CASE DrainSends(d)
  <2>1. PICK o \in Outcomes :
         /\ Pushed(o, load[d].kind)
         /\ CASE o = "offline" -> DrainReturns(d)
              [] o = "sent" ->
                   /\ Releases(d)
                   /\ IF load[d].key = "delivered"
                      THEN Goes(d, "tell") /\ UNCHANGED entry
                      ELSE Goes(d, "idle") /\ DropEntry
              [] o = "uncertain" /\ load[d].key = "delivered" -> DrainAnswered(d)
              [] OTHER -> IF load[d].kind = "card"
                          THEN DrainAnswered(d)
                          ELSE Goes(d, "text") /\ UNCHANGED <<entry, queue>>
    BY <1>5 DEF DrainSends
  <2>2. at[d] = "push" /\ UNCHANGED <<status, restoring, acks, seen>>
    BY <1>5 DEF DrainSends
  <2>3. \/ DrainReturns(d) /\ Goes(d, "idle") /\ pending' = pending
        \/ Releases(d) /\ (Goes(d, "tell") \/ Goes(d, "idle")) /\ pending' \in {pending, "none"}
        \/ UNCHANGED queue /\ (Goes(d, "settle") \/ Goes(d, "text")) /\ pending' = pending
    BY <1>3, <2>1 DEF DrainReturns, DrainAnswered, DropEntry, entry, Outcomes
  <2>4. CASE shown' = shown
    BY <1>2, <2>2, <2>3, <2>4, DrainerMoves
  <2>5. CASE load[d].kind = "picture" /\ o \in {"sent", "uncertain"}
    <3> SUFFICES ASSUME Quiet' PROVE PictureInv'
      BY DEF PictureInv
    <3>0. EntryKept /\ ShownTold /\ PollersKnow /\ PictureKeys /\ ShownOnce
      BY <1>2 DEF PictureInv
    <3>1. load[d].key = "delivered" /\ load[d].kind # "card" /\ load[d].key # "task"
      BY <2>5, <3>0 DEF PictureKeys
    <3>2. /\ UNCHANGED item /\ UNCHANGED entry
          /\ \/ Releases(d) /\ Goes(d, "tell")
             \/ UNCHANGED queue /\ Goes(d, "settle")
      <4>1. CASE o = "sent"
        BY <2>1, <3>1, <4>1 DEF Releases
      <4>2. CASE o = "uncertain"
        <5>1. DrainAnswered(d)
          BY <2>1, <3>1, <4>2
        <5> QED
          BY <3>1, <5>1 DEF DrainAnswered, queue
      <4> QED
        BY <2>5, <4>1, <4>2
    <3>3. shown = 0 /\ shown' <= 1 /\ shown' \in Nat
      <4>1. Loaded(d)
        BY <2>2, <2>5 DEF Loaded
      <4>2. shown = 0
        BY <1>1, <3>0, <4>1 DEF ShownOnce, AnyPicture
      <4> QED
        BY <2>1, <2>5, <4>2 DEF Pushed, AnotherShown, ShownCap
    <3>4. /\ at'[d] \in {"tell", "settle"} /\ \A b \in Agents \ {d} : at'[b] = at[b]
          /\ \A e \in Drainers \ {d} : load'[e] = load[e]
          /\ load'[d] = load[d] \/ load'[d] = NoLoad
          /\ UNCHANGED <<status, pending, restoring, acks, item, seen>>
      BY <1>1, <2>2, <3>2, GoesPlace DEF entry, queue, Releases, LetsGo
    <3>5. \A x \in Senders : x = d
      BY <1>1, <1>2, <2>2, SenderMembers DEF SenderInv, Sending
    <3>6. ~AnyPicture'
      <4>1. \A a \in Agents : ~Loaded(a)'
        BY <1>1, <3>4, <3>5, LoadedSends DEF Loaded
      <4>2. \A k \in Keys : item'[k] # "picture"
        BY <1>1, <3>4, <3>5, PictureItem, KeySets
      <4> QED
        BY <4>1, <4>2 DEF AnyPicture
    <3>7. AnyTelling'
      BY <1>1, <3>4 DEF AnyTelling, Telling
    <3>8. EntryKept' /\ PictureKeys'
      BY <3>0, <3>4 DEF EntryKept, PictureKeys, NoLoad
    <3>9. PollersKnow'
      BY <1>1, <3>0, <3>4 DEF PollersKnow, Sending
    <3> QED
      BY <3>3, <3>6, <3>7, <3>8, <3>9 DEF PictureInv, ShownTold, ShownOnce
  <2>6. shown' = shown \/ (load[d].kind = "picture" /\ o \in {"sent", "uncertain"})
    BY <2>1 DEF Pushed, Outcomes
  <2> QED
    BY <2>4, <2>5, <2>6
<1>6. CASE DrainTexts(d)
  <2>1. /\ at[d] = "text" /\ UNCHANGED <<status, restoring, acks, seen, shown>>
        /\ DrainReturns(d) \/ DrainAnswered(d)
    BY <1>6 DEF DrainTexts, Pushed
  <2>2. \/ DrainReturns(d) /\ Goes(d, "idle") /\ pending' = pending
        \/ Releases(d) /\ Goes(d, "idle") /\ pending' = "none"
        \/ UNCHANGED queue /\ Goes(d, "settle") /\ pending' = pending
    BY <2>1 DEF DrainReturns, DrainAnswered, DropEntry, entry
  <2> QED
    BY <1>2, <2>1, <2>2, DrainerMoves
<1>7. CASE DrainTells(d)
  <2>1. /\ Goes(d, "idle") /\ pending' = "none" /\ UNCHANGED <<status, restoring, seen, shown>>
        /\ Releases(d) \/ UNCHANGED queue
    BY <1>7 DEF DrainTells, DropEntry, history
  <2> QED
    BY <1>2, <2>1, DrainerMoves
<1> QED
  BY <1>4, <1>5, <1>6, <1>7 DEF DrainerStep

LEMMA ScannerPicture ==
  ASSUME TypeOK, SenderInv, PictureInv, NEW s \in Scanners, ScannerStep(s)
  PROVE  PictureInv'
<1>1. /\ s \in Agents /\ s \in Scanners /\ s \notin Pollers /\ s \notin Drainers
      /\ Pollers \subseteq Agents
  BY AgentSets
<1>2. CASE ScanReads(s) \/ ScanSkips(s)
  <2>1. PICK place \in {"idle", "read"} : Goes(s, place) /\ ~Telling(s)
    BY <1>2 DEF ScanReads, ScanSkips, Telling
  <2>2. UNCHANGED <<status, pending, restoring, acks, item, load, shown, seen, scanned, crashes>>
    BY <1>2 DEF ScanReads, ScanSkips, entry, queue, history
  <2>3. at'[s] = place /\ \A b \in Agents \ {s} : at'[b] = at[b]
    BY <1>1, <2>1, GoesPlace
  <2>4. AnyPicture' => AnyPicture
    BY <1>1, <2>2, <2>3 DEF AnyPicture, Loaded
  <2>5. AnyTelling => AnyTelling'
    BY <2>1, <2>3 DEF AnyTelling, Telling
  <2>6. (Quiet' => Quiet) /\ (Quiet' => PollersKnow' /\ PictureKeys')
    BY <1>1, <2>2, <2>3 DEF PictureInv, PollersKnow, PictureKeys, Sending, Quiet
  <2> QED
    BY <2>2, <2>4, <2>5, <2>6, PictureKeep
<1>3. CASE ScanBegins(s)
  BY <1>3 DEF ScanBegins, PictureInv, Quiet
<1>4. CASE ScanSends(s) \/ ScanTexts(s) \/ ScanTells(s)
  <2>1. Sending(s) /\ s \in Senders
    BY <1>1, <1>4, SenderMembers DEF ScanSends, ScanTexts, ScanTells, Sending
  <2>2. ~Quiet
    BY <1>1, <2>1 DEF SenderInv
  <2>3. UNCHANGED <<scanned, crashes>>
    BY <1>4 DEF ScanSends, ScanTexts, ScanTells
  <2> QED
    BY <2>2, <2>3 DEF PictureInv, Quiet
<1> QED
  BY <1>2, <1>3, <1>4 DEF ScannerStep

LEMMA PictureNext ==
  ASSUME TypeOK, SenderInv, PictureInv, [Next]_vars
  PROVE  PictureInv'
<1>1. CASE \E p \in Pollers : PollerStep(p)
  BY <1>1, PollerPicture
<1>2. CASE \E d \in Drainers : DrainerStep(d)
  BY <1>2, DrainerPicture
<1>3. CASE \E s \in Scanners : ScannerStep(s)
  BY <1>3, ScannerPicture
<1>4. CASE Crash
  <2>1. crashes \in Nat /\ crashes' = crashes + 1
    BY <1>4 DEF Crash, TypeOK
  <2> QED
    BY <2>1 DEF PictureInv, Quiet
<1>5. CASE BackendStep \/ AckRetries \/ Expires \/ UNCHANGED vars
  <2>1. /\ UNCHANGED <<at, item, load, seen, shown, restoring, scanned, crashes>>
        /\ pending' \in {pending, "none"}
        /\ status' = "success" => status = "success"
    BY <1>5 DEF BackendStep, WorkerFinalizes, PictureArrives, WorkerFails,
      RepairReads, RepairFails, AckRetries, Expires, DropEntry, vars, entry,
      queue, rounds, history
  <2>2. CASE acks' = acks \/ pending' = "none"
    <3>1. Quiet' => Quiet /\ PollersKnow' /\ PictureKeys'
      BY <2>1 DEF PictureInv, PollersKnow, Sending, PictureKeys, Quiet
    <3>2. /\ AnyTelling => AnyTelling'
          /\ AnyPicture' => AnyPicture
      BY <2>1 DEF AnyPicture, Loaded, AnyTelling, Telling
    <3> QED
      BY <2>1, <2>2, <3>1, <3>2, PictureKeep
  <2>3. CASE AckRetries
    <3>1. /\ UNCHANGED <<status, pending>> /\ acks' = FALSE
      BY <2>3 DEF AckRetries, entry
    <3>2. /\ AnyTelling' = AnyTelling /\ AnyPicture' = AnyPicture /\ Quiet' = Quiet
          /\ PollersKnow' = PollersKnow /\ PictureKeys' = PictureKeys
      BY <2>1 DEF AnyPicture, Loaded, AnyTelling, Telling, PollersKnow, Sending,
        PictureKeys, Quiet
    <3> QED
      BY <2>1, <3>1, <3>2 DEF PictureInv, EntryKept, ShownTold, ShownOnce
  <2>4. acks' = acks \/ pending' = "none" \/ AckRetries
    BY <1>5 DEF BackendStep, WorkerFinalizes, PictureArrives, WorkerFails,
      RepairReads, RepairFails, Expires, DropEntry, vars
  <2> QED
    BY <2>2, <2>3, <2>4
<1>6. CASE MarkDelivered
  <2> SUFFICES ASSUME Quiet' PROVE PictureInv'
    BY DEF PictureInv
  <2>1. UNCHANGED <<at, item, load, seen, shown, restoring, pending, acks, scanned, crashes>>
    BY <1>6 DEF MarkDelivered, entry, queue, rounds, history
  <2>2. EntryKept /\ ShownTold /\ PollersKnow /\ PictureKeys /\ ShownOnce
    BY <2>1 DEF PictureInv, Quiet
  <2>3. /\ AnyTelling' = AnyTelling /\ AnyPicture' = AnyPicture
        /\ PollersKnow' = PollersKnow /\ PictureKeys' = PictureKeys
    BY <2>1 DEF AnyPicture, Loaded, AnyTelling, Telling, PollersKnow, Sending, PictureKeys
  <2>4. pending = "live" => AnyTelling
    BY <1>6, <2>2 DEF MarkDelivered, EntryKept, AnyTelling, TypeOK
  <2> QED
    BY <2>1, <2>2, <2>3, <2>4 DEF PictureInv, EntryKept, ShownTold, ShownOnce
<1>7. CASE RestoreReads \/ RestoreSets
  <2>1. restoring # "done" /\ UNCHANGED <<scanned, crashes>>
    BY <1>7 DEF RestoreReads, RestoreSets
  <2> QED
    BY <2>1 DEF PictureInv, EntryKept, Quiet
<1> QED
  BY <1>1, <1>2, <1>3, <1>4, <1>5, <1>6, <1>7 DEF Next

(* Without a scan or a restart the picture is shown at most once.          *)
THEOREM PictureCorrect == Spec => []PictureOnce
<1>1. Init => PictureInv
  <2> SUFFICES ASSUME Init PROVE PictureInv
    OBVIOUS
  <2>1. EntryKept /\ ShownOnce
    BY DEF Init, EntryKept, ShownOnce
  <2>2. ShownTold
    BY DEF Init, ShownTold
  <2>3. PollersKnow
    BY AgentSets DEF Init, PollersKnow, Sending
  <2>4. PictureKeys
    BY DEF Init, PictureKeys, NoLoad, Keys
  <2> QED
    BY <2>1, <2>2, <2>3, <2>4 DEF PictureInv
<1>2. PictureInv => PictureOnce
  BY DEF PictureInv, PictureOnce, ShownOnce, Quiet
<1> QED
  BY <1>1, <1>2, SenderInit, SenderNext, PictureNext, TypeCorrect, PTL DEF Spec

=============================================================================
