------------------------ MODULE SiteSelectionProofs ------------------------
(* The quota of SiteSelection holds for any numbers of processes, tasks,   *)
(* sites, minutes, attempts and faults.                                    *)
EXTENDS SiteSelection, FiniteSetTheorems, TLAPS

----------------------------------------------------------------------------
(* Types *)

LEMMA TypeInit == Init => TypeOK
  <1>1. 0 \in Minutes /\ 1 \in 1..MaxAttempts
    BY BoundsAssumption, SMT DEF Minutes
  <1> QED
    BY <1>1, BoundsAssumption DEF Init, TypeOK, Places, Slots

(* What the shared endings of the actions keep. *)
LEMMA FinishType == ASSUME NEW t \in Tasks, TypeOK, Finish(t) PROVE TypeOK'
  <1>1. 0 \in Minutes /\ 1 \in 1..MaxAttempts /\ 0 \in 0..SiteRetries
    BY BoundsAssumption DEF Minutes
  <1> QED
    BY <1>1 DEF Finish, ForgetCandidates, Goto, shared, TypeOK, Places

(* The half of TypeOK that is about the tasks. *)
TaskTypes ==
  /\ scope \in Scopes
  /\ minute \in Minutes
  /\ pc \in [Tasks -> Places]
  /\ attempt \in [Tasks -> 1..MaxAttempts]
  /\ retryNo \in [Tasks -> 0..SiteRetries]
  /\ excluded \in [Tasks -> SUBSET Sites]
  /\ locked \in [Tasks -> Sites \cup {NoSite}]
  /\ todo \in [Tasks -> SUBSET Sites]
  /\ primary \in [Tasks -> SUBSET Sites]
  /\ fallback \in [Tasks -> SUBSET Sites]
  /\ began \in [Tasks -> Minutes]
  /\ slot \in [Tasks -> (Sites \cup {NoSite}) \X Minutes]
  /\ \A t \in Tasks : pc[t] \in {"undo", "call"} => slot[t] \in Slots

(* The half that is about the counters. *)
CounterTypes ==
  /\ count \in [Slots -> Int]
  /\ memory \in [Processes -> [Slots -> Nat]]
  /\ admitted \in [Slots -> Nat]
  /\ overUndone \in [Slots -> Nat]
  /\ faults \in 0..MaxFaults

LEMMA Halves == TypeOK <=> TaskTypes /\ CounterTypes
  BY DEF TypeOK, TaskTypes, CounterTypes

LEMMA HalvesNext == ASSUME TaskTypes', CounterTypes' PROVE TypeOK'
  BY DEF TypeOK, TaskTypes, CounterTypes

LEMMA ChooseType ==
  ASSUME TaskTypes, NEW t \in Tasks, NEW s \in Sites, NEW m \in Minutes,
         Choose(t, s, m)
  PROVE  TaskTypes'
  <1>1. 0 \in Minutes /\ 0 \in 0..SiteRetries /\ <<s, m>> \in Slots
    BY BoundsAssumption DEF Minutes, Slots
  <1> QED
    BY <1>1 DEF Choose, ForgetCandidates, Goto, TaskTypes, Places, Slots

LEMMA RefuseType ==
  ASSUME TaskTypes, NEW t \in Tasks, NEW s \in Sites, Refuse(t, s)
  PROVE  TaskTypes'
  <1>1. 0 \in Minutes
    BY BoundsAssumption DEF Minutes
  <1> QED
    BY <1>1 DEF Refuse, progress, Goto, TaskTypes, Places, Slots

LEMMA CandidateSites ==
  ASSUME TaskTypes, NEW t \in Tasks PROVE Candidates(t) \subseteq Sites
  BY DEF TaskTypes, Candidates

LEMMA MemoryType ==
  ASSUME TaskTypes, CounterTypes, NEW t \in Tasks, NEW s \in Sites,
         TakeInMemory(t, s)
  PROVE  TaskTypes' /\ memory' \in [Processes -> [Slots -> Nat]]
  <1> DEFINE mine == memory[Owner[t]][<<s, began[t]>>] + 1
  <1>0. Owner[t] \in Processes /\ <<s, began[t]>> \in Slots /\ minute \in Minutes
    BY OwnerAssumption DEF TaskTypes, Slots
  <1>1. mine \in Nat
    BY <1>0 DEF CounterTypes
  <1>2. CASE Refuse(t, s) /\ UNCHANGED memory
    BY <1>2, RefuseType DEF CounterTypes
  <1>3. CASE /\ memory' = [memory EXCEPT ![Owner[t]][<<s, began[t]>>] = mine]
             /\ Choose(t, s, minute)
    <2>1. TaskTypes'
      BY <1>0, <1>3, ChooseType
    <2>2. memory' \in [Processes -> [Slots -> Nat]]
      BY <1>0, <1>1, <1>3 DEF CounterTypes
    <2> QED
      BY <2>1, <2>2
  <1> QED
    BY <1>2, <1>3 DEF TakeInMemory

LEMMA TypeStep ==
  ASSUME NEW t \in Tasks, TypeOK, Step(t) PROVE TypeOK'
  <1> USE DEF Goto, shared, selection, progress
  <1>0. 0 \in Minutes /\ 0 \in 0..SiteRetries
    BY BoundsAssumption DEF Minutes
  <1>a. TaskTypes /\ CounterTypes
    BY Halves
  <1>1. CASE Terminated(t) BY <1>1, FinishType DEF Terminated
  <1>2. CASE BeginSelection(t)
    BY <1>2 DEF BeginSelection, Selectable, TypeOK, Places
  <1>3. CASE Look(t)
    <2> PICK x \in todo[t] :
          /\ todo' = [todo EXCEPT ![t] = @ \ {x}]
          /\ \E n \in {count[<<x, minute>>], memory[Owner[t]][<<x, began[t]>>]} :
               LET seen == IF HasRoom(x, n) THEN {x} ELSE {} IN
               /\ primary' = [primary EXCEPT ![t] = @ \cup (seen \ excluded[t])]
               /\ fallback' = [fallback EXCEPT ![t] = @ \cup (seen \cap excluded[t])]
      BY <1>3 DEF Look
    <2>a. faults' \in 0..MaxFaults
      BY <1>3, BoundsAssumption DEF Look, Read, Fault, TypeOK
    <2>1. x \in Sites
      BY DEF TypeOK
    <2>2. /\ todo' \in [Tasks -> SUBSET Sites]
          /\ primary' \in [Tasks -> SUBSET Sites]
          /\ fallback' \in [Tasks -> SUBSET Sites]
      BY <2>1 DEF TypeOK
    <2> QED
      BY <1>3, <2>a, <2>2 DEF Look, TypeOK
  <1>4. CASE NoCandidate(t) BY <1>4, FinishType DEF NoCandidate
  <1>5. CASE TakeUnlimited(t)
    <2>1. PICK x \in Candidates(t) : Choose(t, x, minute)
      BY <1>5 DEF TakeUnlimited
    <2>2. TaskTypes'
      BY <1>a, <2>1, CandidateSites, ChooseType DEF TaskTypes
    <2> QED
      BY <1>5, <1>a, <2>2, HalvesNext DEF TakeUnlimited, CounterTypes
  <1>6. CASE Take(t)
    <2> PICK x \in Candidates(t), sent \in {1, 2} :
          LET here == <<x, minute>>
              n == count[here] + sent IN
          /\ Allowed[x] > 0
          /\ IF sent = 1 THEN UNCHANGED faults ELSE Fault
          /\ count' = [count EXCEPT ![here] = n]
          /\ \/ /\ Granted(x, n)
                /\ admitted' = [admitted EXCEPT ![here] = @ + 1]
                /\ Choose(t, x, minute)
             \/ /\ ~Granted(x, n)
                /\ Goto(t, "undo")
                /\ slot' = [slot EXCEPT ![t] = here]
                /\ UNCHANGED <<scope, minute, admitted, todo, primary, fallback,
                               began, progress>>
      BY <1>6 DEF Take
    <2>1. x \in Sites /\ minute \in Minutes /\ <<x, minute>> \in Slots
      BY <1>a, CandidateSites DEF TaskTypes, Slots
    <2>2. CounterTypes'
      <3>1. count' \in [Slots -> Int]
        BY <1>a, <2>1 DEF CounterTypes
      <3>2. admitted' \in [Slots -> Nat]
        BY <1>a, <2>1 DEF CounterTypes
      <3>3. faults' \in 0..MaxFaults
        BY <1>a, BoundsAssumption DEF CounterTypes, Fault
      <3> QED
        BY <1>a, <1>6, <3>1, <3>2, <3>3 DEF Take, CounterTypes
    <2>3. CASE Choose(t, x, minute)
      BY <1>a, <2>1, <2>2, <2>3, ChooseType, HalvesNext
    <2>4. CASE /\ Goto(t, "undo")
               /\ slot' = [slot EXCEPT ![t] = <<x, minute>>]
               /\ UNCHANGED <<scope, minute, admitted, todo, primary, fallback,
                              began, progress>>
      <3>1. TaskTypes'
        BY <1>a, <2>1, <2>4 DEF TaskTypes, Places, Slots
      <3> QED
        BY <2>2, <3>1, HalvesNext
    <2> QED
      BY <2>3, <2>4
  <1>7. CASE TakeUnanswered(t)
    <2> PICK x \in Candidates(t), executed \in 0..2 :
          /\ count' = [count EXCEPT ![<<x, minute>>] = @ + executed]
          /\ TakeInMemory(t, x)
      BY <1>7 DEF TakeUnanswered
    <2>1. x \in Sites /\ <<x, minute>> \in Slots
      BY <1>a, CandidateSites DEF TaskTypes, Slots
    <2>2. TaskTypes' /\ memory' \in [Processes -> [Slots -> Nat]]
      BY <1>a, <2>1, MemoryType
    <2>3. count' \in [Slots -> Int]
      BY <1>a, <2>1 DEF CounterTypes
    <2>4. faults' \in 0..MaxFaults
      BY <1>7, <1>a, BoundsAssumption DEF TakeUnanswered, Fault, CounterTypes
    <2>5. CounterTypes'
      BY <1>7, <1>a, <2>2, <2>3, <2>4 DEF TakeUnanswered, CounterTypes
    <2> QED
      BY <2>2, <2>5, HalvesNext
  <1>8. CASE Undo(t)
    <2>1. slot[t] \in Slots /\ slot[t][1] \in Sites
      BY <1>8, <1>a DEF Undo, TaskTypes, Slots
    <2>2. TaskTypes'
      BY <1>8, <1>a, <2>1, RefuseType DEF Undo
    <2>3. PICK executed \in {1, 2} :
            TakeBack(t, executed) /\ (IF executed = 1 THEN UNCHANGED faults ELSE Fault)
      BY <1>8 DEF Undo
    <2>4. faults' \in 0..MaxFaults
      BY <1>a, <2>3, BoundsAssumption DEF Fault, CounterTypes
    <2>5. count' \in [Slots -> Int] /\ overUndone' \in [Slots -> Nat]
      BY <1>a, <2>1, <2>3 DEF TakeBack, CounterTypes
    <2> QED
      BY <1>8, <1>a, <2>2, <2>4, <2>5, HalvesNext DEF Undo, CounterTypes
  <1>9. CASE UndoUnanswered(t)
    <2>1. slot[t] \in Slots /\ slot[t][1] \in Sites
      BY <1>9, <1>a DEF UndoUnanswered, TaskTypes, Slots
    <2>2. TaskTypes' /\ memory' \in [Processes -> [Slots -> Nat]]
      BY <1>9, <1>a, <2>1, MemoryType DEF UndoUnanswered
    <2>3. PICK executed \in 0..2 : TakeBack(t, executed)
      BY <1>9 DEF UndoUnanswered
    <2>4. faults' \in 0..MaxFaults
      BY <1>9, <1>a, BoundsAssumption DEF UndoUnanswered, Fault, CounterTypes
    <2>5. count' \in [Slots -> Int] /\ overUndone' \in [Slots -> Nat]
      BY <1>a, <2>1, <2>3 DEF TakeBack, CounterTypes
    <2> QED
      BY <1>9, <1>a, <2>2, <2>4, <2>5, HalvesNext DEF UndoUnanswered, CounterTypes
  <1>10. CASE Answered(t) BY <1>10, FinishType DEF Answered
  <1>11. CASE RequestRetried(t)
    BY <1>11, BoundsAssumption DEF RequestRetried, TypeOK
  <1>12. CASE AttemptStops(t) BY <1>12, FinishType DEF AttemptStops
  <1>13. CASE AttemptRetried(t)
    <2>1. attempt' \in [Tasks -> 1..MaxAttempts]
      BY <1>13, BoundsAssumption DEF AttemptRetried, TypeOK
    <2>2. excluded' \in [Tasks -> SUBSET Sites]
      <3>1. slot[t][1] \in Sites
        BY <1>13 DEF AttemptRetried, TypeOK, Slots
      <3> QED
        BY <1>13, <3>1 DEF AttemptRetried, Exclude, TypeOK
    <2> QED
      BY <1>0, <1>13, <2>1, <2>2 DEF AttemptRetried, Again, TypeOK, Places
  <1>14. CASE AttemptsSpent(t) BY <1>14, FinishType DEF AttemptsSpent
  <1> QED
    BY <1>1, <1>2, <1>3, <1>4, <1>5, <1>6, <1>7, <1>8, <1>9, <1>10, <1>11,
       <1>12, <1>13, <1>14 DEF Step

LEMMA TypeNext == TypeOK /\ [Next]_vars => TypeOK'
  <1> SUFFICES ASSUME TypeOK, [Next]_vars PROVE TypeOK'
    OBVIOUS
  <1>1. CASE UNCHANGED vars
    BY <1>1 DEF vars, shared, selection, progress, TypeOK, Undoing
  <1>2. CASE MinuteTicks
    BY <1>2, BoundsAssumption DEF MinuteTicks, Minutes, shared, selection, progress, TypeOK
  <1>3. CASE \E t \in Tasks : Step(t)
    BY <1>3, TypeStep
  <1> QED
    BY <1>1, <1>2, <1>3 DEF Next

(* Every reachable state is well typed: the counters are integers, and a
   task taking an increment back holds the counter it incremented. *)
THEOREM TypeCorrect == Spec => []TypeOK
  BY TypeInit, TypeNext, PTL DEF Spec

----------------------------------------------------------------------------
(* What a step of a task does to the counters: nothing; it is granted an
   acquisition; it goes past the limit; Redis counts without answering; it
   takes an increment back. *)

Quiet(t) ==
  /\ count' = count /\ admitted' = admitted /\ overUndone' = overUndone
  /\ pc[t] # "undo" /\ pc'[t] # "undo"

Grant(t) ==
  \E x \in Slots, sent \in {1, 2} :
    /\ sent = 2 => faults' > 0
    /\ count' = [count EXCEPT ![x] = @ + sent]
    /\ admitted' = [admitted EXCEPT ![x] = @ + 1]
    /\ overUndone' = overUndone
    /\ Allowed[x[1]] > 0 /\ count[x] + sent <= Allowed[x[1]]
    /\ pc[t] # "undo" /\ pc'[t] # "undo"

Exceed(t) ==
  \E x \in Slots, sent \in {1, 2} :
    /\ sent = 2 => faults' > 0
    /\ count' = [count EXCEPT ![x] = @ + sent]
    /\ admitted' = admitted /\ overUndone' = overUndone
    /\ Allowed[x[1]] > 0 /\ count[x] + sent > Allowed[x[1]]
    /\ pc[t] # "undo" /\ pc'[t] = "undo" /\ slot'[t] = x

Lost(t) ==
  \E x \in Slots, executed \in 0..2 :
    /\ faults' > 0
    /\ count' = [count EXCEPT ![x] = @ + executed]
    /\ admitted' = admitted /\ overUndone' = overUndone
    /\ pc[t] # "undo" /\ pc'[t] # "undo"

Back(t) ==
  \E executed \in 0..2 :
    /\ executed # 1 => faults' > 0
    /\ TakeBack(t, executed)
    /\ admitted' = admitted
    /\ pc[t] = "undo" /\ pc'[t] # "undo"

Others(t) == \A u \in Tasks \ {t} : pc'[u] = pc[u] /\ slot'[u] = slot[u]

LEMMA FinishEffect ==
  ASSUME TypeOK, NEW t \in Tasks, pc[t] # "undo", Finish(t)
  PROVE  Quiet(t) /\ Others(t) /\ faults' >= faults
  BY DEF Finish, Goto, shared, Quiet, Others, TypeOK, Places

LEMMA ChooseEffect ==
  ASSUME TypeOK, NEW t \in Tasks, NEW x, NEW m, Choose(t, x, m)
  PROVE  pc'[t] # "undo" /\ Others(t)
  BY DEF Choose, Goto, Others, TypeOK, Places

LEMMA RefuseEffect ==
  ASSUME TypeOK, NEW t \in Tasks, NEW x, Refuse(t, x)
  PROVE  pc'[t] # "undo" /\ Others(t)
  BY DEF Refuse, Goto, Others, TypeOK, Places

LEMMA MemoryEffect ==
  ASSUME TypeOK, NEW t \in Tasks, NEW x, TakeInMemory(t, x)
  PROVE  pc'[t] # "undo" /\ Others(t)
  BY ChooseEffect, RefuseEffect DEF TakeInMemory

LEMMA Effects ==
  ASSUME TypeOK, NEW t \in Tasks, Step(t)
  PROVE  /\ Quiet(t) \/ Grant(t) \/ Exceed(t) \/ Lost(t) \/ Back(t)
         /\ Others(t)
         /\ faults' >= faults
  <1> USE DEF shared, selection, progress
  <1>0. faults \in Nat
    BY BoundsAssumption DEF TypeOK
  <1>1. CASE Terminated(t) BY <1>1, FinishEffect DEF Terminated
  <1>2. CASE BeginSelection(t)
    BY <1>0, <1>2 DEF BeginSelection, Goto, Quiet, Others, TypeOK, Places
  <1>3. CASE Look(t)
    BY <1>0, <1>3 DEF Look, Read, Fault, Quiet, Others, TypeOK, Places
  <1>4. CASE NoCandidate(t) BY <1>4, FinishEffect DEF NoCandidate
  <1>5. CASE TakeUnlimited(t)
    BY <1>0, <1>5, ChooseEffect DEF TakeUnlimited, Quiet
  <1>6. CASE Take(t)
    <2> PICK s \in Candidates(t), sent \in {1, 2} :
          LET here == <<s, minute>>
              n == count[here] + sent IN
          /\ Allowed[s] > 0
          /\ IF sent = 1 THEN UNCHANGED faults ELSE Fault
          /\ count' = [count EXCEPT ![here] = n]
          /\ \/ /\ Granted(s, n)
                /\ admitted' = [admitted EXCEPT ![here] = @ + 1]
                /\ Choose(t, s, minute)
             \/ /\ ~Granted(s, n)
                /\ Goto(t, "undo")
                /\ slot' = [slot EXCEPT ![t] = here]
                /\ UNCHANGED <<scope, minute, admitted, todo, primary, fallback,
                               began, progress>>
      BY <1>6 DEF Take
    <2> DEFINE x == <<s, minute>>
    <2>1. x \in Slots /\ x[1] = s /\ s \in Sites
      BY CandidateSites, Halves DEF TaskTypes, Slots
    <2>2. count' = [count EXCEPT ![x] = @ + sent]
      BY <2>1 DEF TypeOK
    <2>3. (sent = 2 => faults' > 0) /\ faults' >= faults
      BY <1>0 DEF Fault
    <2>4. pc[t] # "undo" /\ overUndone' = overUndone
      BY <1>6 DEF Take
    <2>4a. count[x] + sent \in Int /\ Allowed[s] \in Nat
      BY <2>1, AllowedAssumption DEF TypeOK
    <2>5. CASE /\ Granted(s, count[x] + sent)
               /\ admitted' = [admitted EXCEPT ![x] = @ + 1]
               /\ Choose(t, s, minute)
      <3>1. count[x] + sent <= Allowed[x[1]]
        BY <2>1, <2>5 DEF Granted
      <3>2. Grant(t)
        BY <2>1, <2>2, <2>3, <2>4, <2>5, <3>1, ChooseEffect DEF Grant
      <3> QED
        BY <2>3, <2>5, <3>2, ChooseEffect
    <2>6. CASE /\ ~Granted(s, count[x] + sent)
               /\ Goto(t, "undo")
               /\ slot' = [slot EXCEPT ![t] = x]
               /\ UNCHANGED <<scope, minute, admitted, todo, primary, fallback,
                              began, progress>>
      <3>1. count[x] + sent > Allowed[x[1]]
        BY <2>1, <2>4a, <2>6 DEF Granted
      <3>2. pc'[t] = "undo" /\ slot'[t] = x /\ Others(t)
        BY <2>6 DEF Goto, Others, TypeOK, Places
      <3>3. Exceed(t)
        BY <2>1, <2>2, <2>3, <2>4, <2>6, <3>1, <3>2 DEF Exceed
      <3> QED
        BY <2>3, <3>2, <3>3
    <2> QED
      BY <2>5, <2>6
  <1>7. CASE TakeUnanswered(t)
    <2>1. PICK s \in Candidates(t), executed \in 0..2 :
          /\ count' = [count EXCEPT ![<<s, minute>>] = @ + executed]
          /\ TakeInMemory(t, s)
      BY <1>7 DEF TakeUnanswered
    <2>2. <<s, minute>> \in Slots
      BY CandidateSites, Halves DEF TaskTypes, Slots
    <2>3. faults' > 0 /\ faults' >= faults
      BY <1>0, <1>7 DEF TakeUnanswered, Fault
    <2> QED
      BY <1>7, <2>1, <2>2, <2>3, MemoryEffect DEF TakeUnanswered, Lost
  <1>8. CASE Undo(t)
    <2>1. PICK executed \in {1, 2} :
            TakeBack(t, executed) /\ (IF executed = 1 THEN UNCHANGED faults ELSE Fault)
      BY <1>8 DEF Undo
    <2>2. (executed # 1 => faults' > 0) /\ faults' >= faults
      BY <1>0, <2>1 DEF Fault
    <2>3. executed \in 0..2
      OBVIOUS
    <2> QED
      BY <1>8, <2>1, <2>2, <2>3, RefuseEffect DEF Undo, Back
  <1>9. CASE UndoUnanswered(t)
    <2>1. PICK executed \in 0..2 : TakeBack(t, executed)
      BY <1>9 DEF UndoUnanswered
    <2>2. faults' > 0 /\ faults' >= faults
      BY <1>0, <1>9 DEF UndoUnanswered, Fault
    <2> QED
      BY <1>9, <2>1, <2>2, MemoryEffect DEF UndoUnanswered, Back
  <1>10. CASE Answered(t) BY <1>10, FinishEffect DEF Answered
  <1>11. CASE RequestRetried(t)
    BY <1>0, <1>11 DEF RequestRetried, Quiet, Others
  <1>12. CASE AttemptStops(t) BY <1>12, FinishEffect DEF AttemptStops
  <1>13. CASE AttemptRetried(t)
    BY <1>0, <1>13 DEF AttemptRetried, Again, Goto, Quiet, Others, TypeOK, Places
  <1>14. CASE AttemptsSpent(t) BY <1>14, FinishEffect DEF AttemptsSpent
  <1> QED
    BY <1>1, <1>2, <1>3, <1>4, <1>5, <1>6, <1>7, <1>8, <1>9, <1>10, <1>11,
       <1>12, <1>13, <1>14 DEF Step

----------------------------------------------------------------------------
(* The tasks about to take an increment back *)

LEMMA UndoingFinite ==
  ASSUME NEW x
  PROVE  IsFiniteSet(Undoing(x)) /\ Cardinality(Undoing(x)) \in Nat
  <1>1. IsFiniteSet(Undoing(x))
    BY TasksAssumption, FS_Subset DEF Undoing
  <1> QED
    BY <1>1, FS_CardinalityType

LEMMA UndoingSame ==
  ASSUME NEW t \in Tasks, Others(t), pc[t] # "undo", pc'[t] # "undo", NEW x
  PROVE  Undoing(x)' = Undoing(x)
  BY DEF Others, Undoing

LEMMA UndoingMore ==
  ASSUME NEW t \in Tasks, Others(t), pc[t] # "undo", pc'[t] = "undo", NEW x
  PROVE  /\ slot'[t] # x => Undoing(x)' = Undoing(x)
         /\ slot'[t] = x => Cardinality(Undoing(x)') = Cardinality(Undoing(x)) + 1
  <1>1. slot'[t] # x => Undoing(x)' = Undoing(x)
    BY DEF Others, Undoing
  <1>2. slot'[t] = x => Undoing(x)' = Undoing(x) \cup {t} /\ t \notin Undoing(x)
    BY DEF Others, Undoing
  <1> QED
    BY <1>1, <1>2, UndoingFinite, FS_AddElement

LEMMA UndoingLess ==
  ASSUME NEW t \in Tasks, Others(t), pc[t] = "undo", pc'[t] # "undo", NEW x
  PROVE  /\ slot[t] # x => Undoing(x)' = Undoing(x)
         /\ slot[t] = x => Cardinality(Undoing(x)') = Cardinality(Undoing(x)) - 1
         /\ slot[t] = x => Cardinality(Undoing(x)) > 0
  <1>1. slot[t] # x => Undoing(x)' = Undoing(x)
    BY DEF Others, Undoing
  <1>2. slot[t] = x => Undoing(x)' = Undoing(x) \ {t} /\ t \in Undoing(x)
    BY DEF Others, Undoing
  <1>3. slot[t] = x => Cardinality(Undoing(x)') = Cardinality(Undoing(x)) - 1
    BY <1>2, UndoingFinite, FS_RemoveElement
  <1>4. slot[t] = x => Cardinality(Undoing(x)) # 0
    BY <1>2, UndoingFinite, FS_EmptySet
  <1> QED
    BY <1>1, <1>3, <1>4, UndoingFinite

----------------------------------------------------------------------------
(* The quota *)

(* Every granted call and every increment to be taken back is in the counter,
   except for what was taken back twice. *)
CountCovers ==
  \A x \in Slots :
    admitted[x] + Cardinality(Undoing(x)) <= count[x] + overUndone[x]

QuotaInv == CountCovers /\ QuotaHeld

LEMMA QuotaInit == Init => QuotaInv
  <1> SUFFICES ASSUME Init, NEW x \in Slots
               PROVE  /\ admitted[x] + Cardinality(Undoing(x)) <= count[x] + overUndone[x]
                      /\ admitted[x] <= Allowed[x[1]] + overUndone[x]
    BY DEF QuotaInv, CountCovers, QuotaHeld
  <1>1. Undoing(x) = {}
    BY DEF Undoing, Init
  <1>2. Cardinality(Undoing(x)) = 0
    BY <1>1, FS_EmptySet
  <1>3. Allowed[x[1]] \in Nat
    BY AllowedAssumption DEF Slots
  <1> QED
    BY <1>2, <1>3 DEF Init

LEMMA QuotaStep ==
  ASSUME TypeOK, QuotaInv, NEW t \in Tasks, Step(t)
  PROVE  QuotaInv'
  <1> SUFFICES ASSUME NEW y \in Slots
               PROVE  /\ admitted'[y] + Cardinality(Undoing(y)') <= count'[y] + overUndone'[y]
                      /\ admitted'[y] <= Allowed[y[1]] + overUndone'[y]
    BY DEF QuotaInv, CountCovers, QuotaHeld
  <1> DEFINE U == Cardinality(Undoing(y))
             V == Cardinality(Undoing(y)')
  <1>0. /\ admitted[y] + U <= count[y] + overUndone[y]
        /\ admitted[y] <= Allowed[y[1]] + overUndone[y]
    BY DEF QuotaInv, CountCovers, QuotaHeld
  <1>a. /\ admitted[y] \in Nat /\ overUndone[y] \in Nat /\ count[y] \in Int
        /\ U \in Nat /\ Allowed[y[1]] \in Nat
    BY UndoingFinite, AllowedAssumption DEF TypeOK, Slots
  <1>b. Others(t)
    BY Effects
  <1> HIDE DEF U, V
  <1>1. CASE Quiet(t)
    <2>1. V = U
      BY <1>b, <1>1, UndoingSame DEF Quiet, U, V
    <2> QED
      BY <1>0, <1>1, <2>1 DEF Quiet, V
  <1>2. CASE Grant(t)
    <2>1. V = U
      BY <1>b, <1>2, UndoingSame DEF Grant, U, V
    <2>2. PICK x \in Slots, sent \in {1, 2} :
            /\ count' = [count EXCEPT ![x] = @ + sent]
            /\ admitted' = [admitted EXCEPT ![x] = @ + 1]
            /\ overUndone' = overUndone
            /\ count[x] + sent <= Allowed[x[1]]
      BY <1>2 DEF Grant
    <2>3. CASE x = y
      <3>1. count'[y] = count[y] + sent /\ admitted'[y] = admitted[y] + 1
        BY <2>2, <2>3 DEF TypeOK
      <3> QED
        BY <1>0, <1>a, <2>1, <2>2, <2>3, <3>1 DEF V
    <2>4. CASE x # y
      <3>1. count'[y] = count[y] /\ admitted'[y] = admitted[y]
        BY <2>2, <2>4 DEF TypeOK
      <3> QED
        BY <1>0, <2>1, <2>2, <3>1 DEF V
    <2> QED
      BY <2>3, <2>4
  <1>3. CASE Exceed(t)
    <2>2. PICK x \in Slots, sent \in {1, 2} :
            /\ count' = [count EXCEPT ![x] = @ + sent]
            /\ admitted' = admitted /\ overUndone' = overUndone
            /\ pc[t] # "undo" /\ pc'[t] = "undo" /\ slot'[t] = x
      BY <1>3 DEF Exceed
    <2>3. CASE x = y
      <3>1. count'[y] = count[y] + sent
        BY <2>2, <2>3 DEF TypeOK
      <3>2. V = U + 1
        BY <1>b, <2>2, <2>3, UndoingMore DEF U, V
      <3> QED
        BY <1>0, <1>a, <2>2, <3>1, <3>2 DEF V
    <2>4. CASE x # y
      <3>1. count'[y] = count[y]
        BY <2>2, <2>4 DEF TypeOK
      <3>2. V = U
        BY <1>b, <2>2, <2>4, UndoingMore DEF U, V
      <3> QED
        BY <1>0, <2>2, <3>1, <3>2 DEF V
    <2> QED
      BY <2>3, <2>4
  <1>4. CASE Lost(t)
    <2>1. V = U
      BY <1>b, <1>4, UndoingSame DEF Lost, U, V
    <2>2. PICK x \in Slots, executed \in 0..2 :
            /\ count' = [count EXCEPT ![x] = @ + executed]
            /\ admitted' = admitted /\ overUndone' = overUndone
      BY <1>4 DEF Lost
    <2>3. count'[y] >= count[y]
      BY <1>a, <2>2 DEF TypeOK
    <2>4. count'[y] \in Int
      BY <1>a, <2>2 DEF TypeOK
    <2> QED
      BY <1>0, <1>a, <2>1, <2>2, <2>3, <2>4 DEF V
  <1>5. CASE Back(t)
    <2>1. PICK executed \in 0..2 :
            /\ TakeBack(t, executed) /\ admitted' = admitted
            /\ pc[t] = "undo" /\ pc'[t] # "undo"
      BY <1>5 DEF Back
    <2>2. CASE slot[t] = y
      <3>1. count'[y] = count[y] - executed
        BY <2>1, <2>2 DEF TakeBack, TypeOK
      <3>2. overUndone'[y] = IF executed = 2 THEN overUndone[y] + 1 ELSE overUndone[y]
        BY <2>1, <2>2 DEF TakeBack, TypeOK
      <3>3. V = U - 1
        BY <1>b, <2>1, <2>2, UndoingLess DEF U, V
      <3> QED
        BY <1>0, <1>a, <2>1, <3>1, <3>2, <3>3 DEF V
    <2>3. CASE slot[t] # y
      <3>1. count'[y] = count[y] /\ overUndone'[y] = overUndone[y]
        BY <2>1, <2>3 DEF TakeBack, TypeOK
      <3>2. V = U
        BY <1>b, <2>1, <2>3, UndoingLess DEF U, V
      <3> QED
        BY <1>0, <2>1, <3>1, <3>2 DEF V
    <2> QED
      BY <2>2, <2>3
  <1> QED
    BY <1>1, <1>2, <1>3, <1>4, <1>5, Effects

LEMMA QuotaNext == TypeOK /\ QuotaInv /\ [Next]_vars => QuotaInv'
  <1> SUFFICES ASSUME TypeOK, QuotaInv, [Next]_vars PROVE QuotaInv'
    OBVIOUS
  <1>1. CASE UNCHANGED vars \/ MinuteTicks
    <2>1. \A x : Undoing(x)' = Undoing(x)
      BY <1>1 DEF vars, MinuteTicks, selection, Undoing
    <2>2. count' = count /\ admitted' = admitted /\ overUndone' = overUndone
      BY <1>1 DEF vars, MinuteTicks, shared
    <2> QED
      BY <2>1, <2>2 DEF QuotaInv, CountCovers, QuotaHeld
  <1>2. CASE \E t \in Tasks : Step(t)
    BY <1>2, QuotaStep
  <1> QED
    BY <1>1, <1>2 DEF Next

(* The quota of a site holds for any numbers of processes and tasks: the
   counter is never below what it has granted and has still to take back,
   whatever commands fail. *)
THEOREM QuotaCorrect == Spec => []QuotaHeld
  <1>1. QuotaInv => QuotaHeld
    BY DEF QuotaInv
  <1> QED
    BY <1>1, TypeInit, TypeNext, QuotaInit, QuotaNext, PTL DEF Spec

----------------------------------------------------------------------------
(* The counter while Redis answers *)

(* Between its increment and its correction a task is at a full site. *)
ExactInv ==
  /\ CountTrue
  /\ faults = 0 =>
       \A x \in Slots :
         /\ overUndone[x] = 0
         /\ Cardinality(Undoing(x)) > 0 =>
              Allowed[x[1]] > 0 /\ admitted[x] = Allowed[x[1]]

LEMMA ExactInit == Init => ExactInv
  <1> SUFFICES ASSUME Init, NEW x \in Slots
               PROVE  /\ count[x] = admitted[x] + Cardinality(Undoing(x))
                      /\ Allowed[x[1]] > 0 /\ count[x] >= Allowed[x[1]]
                           => admitted[x] = Allowed[x[1]]
                      /\ overUndone[x] = 0
                      /\ ~(Cardinality(Undoing(x)) > 0)
    BY DEF ExactInv, CountTrue
  <1>1. Undoing(x) = {}
    BY DEF Undoing, Init
  <1>2. Cardinality(Undoing(x)) = 0
    BY <1>1, FS_EmptySet
  <1>3. Allowed[x[1]] \in Nat
    BY AllowedAssumption DEF Slots
  <1> QED
    BY <1>2, <1>3 DEF Init

LEMMA ExactStep ==
  ASSUME TypeOK, ExactInv, NEW t \in Tasks, Step(t)
  PROVE  ExactInv'
  <1> SUFFICES ASSUME faults' = 0, NEW y \in Slots
               PROVE  /\ count'[y] = admitted'[y] + Cardinality(Undoing(y)')
                      /\ Allowed[y[1]] > 0 /\ count'[y] >= Allowed[y[1]]
                           => admitted'[y] = Allowed[y[1]]
                      /\ overUndone'[y] = 0
                      /\ Cardinality(Undoing(y)') > 0 =>
                           Allowed[y[1]] > 0 /\ admitted'[y] = Allowed[y[1]]
    BY DEF ExactInv, CountTrue
  <1> DEFINE U == Cardinality(Undoing(y))
             V == Cardinality(Undoing(y)')
  <1>00. faults = 0
    BY Effects, BoundsAssumption DEF TypeOK
  <1>0. /\ count[y] = admitted[y] + U
        /\ Allowed[y[1]] > 0 /\ count[y] >= Allowed[y[1]] => admitted[y] = Allowed[y[1]]
        /\ overUndone[y] = 0
        /\ U > 0 => Allowed[y[1]] > 0 /\ admitted[y] = Allowed[y[1]]
    BY <1>00 DEF ExactInv, CountTrue
  <1>a. /\ admitted[y] \in Nat /\ overUndone[y] \in Nat /\ count[y] \in Int
        /\ U \in Nat /\ Allowed[y[1]] \in Nat
    BY UndoingFinite, AllowedAssumption DEF TypeOK, Slots
  <1>b. Others(t)
    BY Effects
  <1> HIDE DEF U, V
  <1>1. CASE Quiet(t)
    <2>1. V = U
      BY <1>b, <1>1, UndoingSame DEF Quiet, U, V
    <2> QED
      BY <1>0, <1>1, <2>1 DEF Quiet, V
  <1>2. CASE Grant(t)
    <2>1. V = U
      BY <1>b, <1>2, UndoingSame DEF Grant, U, V
    <2>2. PICK x \in Slots :
            /\ count' = [count EXCEPT ![x] = @ + 1]
            /\ admitted' = [admitted EXCEPT ![x] = @ + 1]
            /\ overUndone' = overUndone
            /\ Allowed[x[1]] > 0 /\ count[x] + 1 <= Allowed[x[1]]
      <3>1. PICK x \in Slots, sent \in {1, 2} :
            /\ sent = 2 => faults' > 0
            /\ count' = [count EXCEPT ![x] = @ + sent]
            /\ admitted' = [admitted EXCEPT ![x] = @ + 1]
            /\ overUndone' = overUndone
            /\ Allowed[x[1]] > 0 /\ count[x] + sent <= Allowed[x[1]]
        BY <1>2 DEF Grant
      <3>2. sent = 1
        BY <3>1
      <3> QED
        BY <3>1, <3>2
    <2>3. CASE x = y
      <3>1. count'[y] = count[y] + 1 /\ admitted'[y] = admitted[y] + 1
        BY <2>2, <2>3 DEF TypeOK
      <3>2. U = 0
        BY <1>0, <1>a, <2>2, <2>3
      <3> QED
        BY <1>0, <1>a, <2>1, <2>2, <2>3, <3>1, <3>2 DEF V
    <2>4. CASE x # y
      <3>1. count'[y] = count[y] /\ admitted'[y] = admitted[y]
        BY <2>2, <2>4 DEF TypeOK
      <3> QED
        BY <1>0, <2>1, <2>2, <3>1 DEF V
    <2> QED
      BY <2>3, <2>4
  <1>3. CASE Exceed(t)
    <2>2. PICK x \in Slots :
            /\ count' = [count EXCEPT ![x] = @ + 1]
            /\ admitted' = admitted /\ overUndone' = overUndone
            /\ Allowed[x[1]] > 0 /\ count[x] + 1 > Allowed[x[1]]
            /\ pc[t] # "undo" /\ pc'[t] = "undo" /\ slot'[t] = x
      <3>1. PICK x \in Slots, sent \in {1, 2} :
            /\ sent = 2 => faults' > 0
            /\ count' = [count EXCEPT ![x] = @ + sent]
            /\ admitted' = admitted /\ overUndone' = overUndone
            /\ Allowed[x[1]] > 0 /\ count[x] + sent > Allowed[x[1]]
            /\ pc[t] # "undo" /\ pc'[t] = "undo" /\ slot'[t] = x
        BY <1>3 DEF Exceed
      <3>2. sent = 1
        BY <3>1
      <3> QED
        BY <3>1, <3>2
    <2>3. CASE x = y
      <3>1. count'[y] = count[y] + 1
        BY <2>2, <2>3 DEF TypeOK
      <3>2. V = U + 1
        BY <1>b, <2>2, <2>3, UndoingMore DEF U, V
      <3>3. admitted[y] = Allowed[y[1]]
        BY <1>0, <1>a, <2>2, <2>3
      <3> QED
        BY <1>0, <1>a, <2>2, <2>3, <3>1, <3>2, <3>3 DEF V
    <2>4. CASE x # y
      <3>1. count'[y] = count[y]
        BY <2>2, <2>4 DEF TypeOK
      <3>2. V = U
        BY <1>b, <2>2, <2>4, UndoingMore DEF U, V
      <3> QED
        BY <1>0, <2>2, <3>1, <3>2 DEF V
    <2> QED
      BY <2>3, <2>4
  <1>4. CASE Lost(t)
    BY <1>4 DEF Lost
  <1>5. CASE Back(t)
    <2>1. /\ TakeBack(t, 1) /\ admitted' = admitted
          /\ pc[t] = "undo" /\ pc'[t] # "undo"
      BY <1>5 DEF Back
    <2>2. CASE slot[t] = y
      <3>1. count'[y] = count[y] - 1 /\ overUndone'[y] = overUndone[y]
        BY <2>1, <2>2 DEF TakeBack, TypeOK
      <3>2. V = U - 1 /\ U > 0
        BY <1>b, <2>1, <2>2, UndoingLess DEF U, V
      <3> QED
        BY <1>0, <1>a, <2>1, <3>1, <3>2 DEF V
    <2>3. CASE slot[t] # y
      <3>1. count'[y] = count[y] /\ overUndone'[y] = overUndone[y]
        BY <2>1, <2>3 DEF TakeBack, TypeOK
      <3>2. V = U
        BY <1>b, <2>1, <2>3, UndoingLess DEF U, V
      <3> QED
        BY <1>0, <2>1, <3>1, <3>2 DEF V
    <2> QED
      BY <2>2, <2>3
  <1> QED
    BY <1>1, <1>2, <1>3, <1>4, <1>5, Effects

LEMMA ExactNext == TypeOK /\ ExactInv /\ [Next]_vars => ExactInv'
  <1> SUFFICES ASSUME TypeOK, ExactInv, [Next]_vars PROVE ExactInv'
    OBVIOUS
  <1>1. CASE UNCHANGED vars \/ MinuteTicks
    <2>1. \A x : Undoing(x)' = Undoing(x)
      BY <1>1 DEF vars, MinuteTicks, selection, Undoing
    <2>2. /\ count' = count /\ admitted' = admitted /\ overUndone' = overUndone
          /\ faults' = faults
      BY <1>1 DEF vars, MinuteTicks, shared
    <2> QED
      BY <2>1, <2>2 DEF ExactInv, CountTrue
  <1>2. CASE \E t \in Tasks : Step(t)
    BY <1>2, ExactStep
  <1> QED
    BY <1>1, <1>2 DEF Next

(* While Redis answers, the counter of every site and minute is exact, and a
   full counter means that many calls, for any numbers of tasks. *)
THEOREM CountCorrect == Spec => []CountTrue
  <1>1. ExactInv => CountTrue
    BY DEF ExactInv
  <1> QED
    BY <1>1, TypeInit, TypeNext, ExactInit, ExactNext, PTL DEF Spec

----------------------------------------------------------------------------
(* Going back to a site *)

Full(t, s) ==
  /\ Allowed[s] > 0
  /\ \E m \in Minutes :
       began[t] <= m /\ m <= minute /\ admitted[<<s, m>>] = Allowed[s]

(* A fresh site that a selection no longer has before it was full. *)
Accounted(t) ==
  \A s \in Sites \ excluded[t] : s \in todo[t] \/ s \in primary[t] \/ Full(t, s)

TaskFallInv(t) ==
  /\ scope = "single_site" => excluded[t] = {}
  /\ began[t] <= minute
  /\ primary[t] \cap excluded[t] = {}
  /\ pc[t] = "call" => primary[t] = {}
  /\ pc[t] = "undo" => began[t] <= slot[t][2] /\ slot[t][2] <= minute
  /\ pc[t] \in {"select", "undo"} /\ scope = "all_enabled" => Accounted(t)

FallInv == faults = 0 => \A t \in Tasks : TaskFallInv(t)

IInv == TypeOK /\ QuotaInv /\ ExactInv

LEMMA FallInit == Init => FallInv
  <1> SUFFICES ASSUME Init, NEW t \in Tasks PROVE TaskFallInv(t)
    BY DEF FallInv
  <1> QED
    BY DEF Init, TaskFallInv

(* What is full stays full: a granted acquisition is never given back. *)
LEMMA FullKept ==
  ASSUME IInv, IInv', NEW t \in Tasks, Step(t), faults' = 0,
         NEW u \in Tasks, NEW s \in Sites, Full(u, s),
         began'[u] = began[u], minute' = minute
  PROVE  Full(u, s)'
  <1>1. PICK m \in Minutes :
          began[u] <= m /\ m <= minute /\ admitted[<<s, m>>] = Allowed[s]
    BY DEF Full
  <1> DEFINE x == <<s, m>>
  <1>2. x \in Slots /\ x[1] = s
    BY DEF Slots
  <1>3. admitted'[x] <= Allowed[s]
    <2>1. admitted'[x] <= Allowed[x[1]] + overUndone'[x] /\ overUndone'[x] = 0
      BY <1>2 DEF IInv, QuotaInv, QuotaHeld, ExactInv
    <2> QED
      BY <1>2, <2>1, AllowedAssumption
  <1>4. admitted'[x] >= admitted[x]
    <2>1. admitted[x] \in Nat
      BY <1>2 DEF IInv, TypeOK
    <2>2. admitted' = admitted
          \/ \E y \in Slots : admitted' = [admitted EXCEPT ![y] = @ + 1]
      <3>1. Quiet(t) \/ Grant(t) \/ Exceed(t) \/ Lost(t) \/ Back(t)
        BY Effects DEF IInv
      <3> QED
        BY <3>1 DEF Quiet, Grant, Exceed, Lost, Back
    <2>3. CASE admitted' = admitted
      BY <2>1, <2>3
    <2>4. CASE \E y \in Slots : admitted' = [admitted EXCEPT ![y] = @ + 1]
      <3>1. PICK y \in Slots : admitted' = [admitted EXCEPT ![y] = @ + 1]
        BY <2>4
      <3>2. admitted'[x] = admitted[x] + 1 \/ admitted'[x] = admitted[x]
        BY <1>2, <3>1 DEF IInv, TypeOK
      <3> QED
        BY <2>1, <3>2
    <2> QED
      BY <2>2, <2>3, <2>4
  <1>5. admitted'[x] = Allowed[s]
    <2>1. admitted'[x] \in Nat /\ Allowed[s] \in Nat
      BY <1>2, AllowedAssumption DEF IInv, TypeOK
    <2> QED
      BY <1>1, <1>3, <1>4, <2>1
  <1> QED
    BY <1>1, <1>5 DEF Full

Kept(t) ==
  /\ scope' = scope /\ minute' = minute
  /\ \A u \in Tasks \ {t} :
       /\ excluded'[u] = excluded[u] /\ began'[u] = began[u]
       /\ todo'[u] = todo[u] /\ primary'[u] = primary[u]

(* A step of a task leaves the others, the scope and the clock alone. *)
LEMMA OthersKept ==
  ASSUME TypeOK, NEW t \in Tasks, Step(t)
  PROVE  /\ scope' = scope /\ minute' = minute
         /\ \A u \in Tasks \ {t} :
              /\ pc'[u] = pc[u] /\ slot'[u] = slot[u]
              /\ excluded'[u] = excluded[u] /\ began'[u] = began[u]
              /\ todo'[u] = todo[u] /\ primary'[u] = primary[u]
  <1> SUFFICES Kept(t)
    BY Effects DEF Others, Kept
  <1> USE DEF progress, selection
  <1>a. ASSUME Finish(t) PROVE Kept(t)
    BY <1>a DEF Finish, ForgetCandidates, TypeOK, Kept
  <1>b. ASSUME NEW s, NEW m, Choose(t, s, m) PROVE Kept(t)
    BY <1>b DEF Choose, ForgetCandidates, TypeOK, Kept
  <1>c. ASSUME NEW s, Refuse(t, s) PROVE Kept(t)
    BY <1>c DEF Refuse, TypeOK, Kept
  <1>d. ASSUME NEW s, TakeInMemory(t, s) PROVE Kept(t)
    BY <1>b, <1>c, <1>d DEF TakeInMemory
  <1>1. CASE \/ Terminated(t) \/ NoCandidate(t) \/ Answered(t)
             \/ AttemptStops(t) \/ AttemptsSpent(t)
    BY <1>1, <1>a DEF Terminated, NoCandidate, Answered, AttemptStops, AttemptsSpent
  <1>2. CASE BeginSelection(t)
    BY <1>2 DEF BeginSelection, TypeOK, Kept
  <1>3. CASE Look(t)
    BY <1>3 DEF Look, TypeOK, Kept
  <1>4. CASE TakeUnlimited(t)
    BY <1>4, <1>b DEF TakeUnlimited
  <1>5. CASE Take(t)
    <2>1. (\E s \in Candidates(t) : Choose(t, s, minute))
          \/ UNCHANGED <<scope, minute, admitted, todo, primary, fallback, began, progress>>
      BY <1>5 DEF Take
    <2>2. CASE UNCHANGED <<scope, minute, admitted, todo, primary, fallback, began, progress>>
      BY <2>2 DEF Kept
    <2> QED
      BY <2>1, <2>2, <1>b
  <1>6. CASE TakeUnanswered(t) \/ UndoUnanswered(t)
    BY <1>6, <1>d DEF TakeUnanswered, UndoUnanswered
  <1>7. CASE Undo(t)
    BY <1>7, <1>c DEF Undo
  <1>8. CASE RequestRetried(t)
    BY <1>8 DEF RequestRetried, Kept
  <1>9. CASE AttemptRetried(t)
    BY <1>9 DEF AttemptRetried, Again, Exclude, TypeOK, Kept
  <1> QED
    BY <1>1, <1>2, <1>3, <1>4, <1>5, <1>6, <1>7, <1>8, <1>9 DEF Step

(* The task that moves. *)
LEMMA FallMover ==
  ASSUME IInv, IInv', FallInv, NEW t \in Tasks, Step(t), faults' = 0
  PROVE  TaskFallInv(t)'
  <1> USE DEF progress, selection
  <1>0. faults = 0 /\ TypeOK /\ TypeOK'
    BY Effects, BoundsAssumption DEF IInv, TypeOK
  <1>1. TaskFallInv(t)
    BY <1>0 DEF FallInv
  <1>2. scope' = scope /\ minute' = minute /\ minute \in Minutes /\ 0 <= minute
    BY <1>0, OthersKept, BoundsAssumption DEF TypeOK, Minutes
  <1>a. ASSUME Finish(t) PROVE TaskFallInv(t)'
    <2>1. pc'[t] = "done" /\ excluded'[t] = {} /\ primary'[t] = {} /\ began'[t] = 0
      BY <1>0, <1>a DEF Finish, Goto, ForgetCandidates, TypeOK
    <2> QED
      BY <1>2, <2>1 DEF TaskFallInv
  <1>b. ASSUME NEW s, NEW m, Choose(t, s, m) PROVE TaskFallInv(t)'
    <2>1. pc'[t] = "call" /\ excluded' = excluded /\ primary'[t] = {} /\ began'[t] = 0
      BY <1>0, <1>b DEF Choose, Goto, ForgetCandidates, TypeOK
    <2> QED
      BY <1>1, <1>2, <2>1 DEF TaskFallInv
  <1>3. CASE \/ Terminated(t) \/ NoCandidate(t) \/ Answered(t)
             \/ AttemptStops(t) \/ AttemptsSpent(t)
    BY <1>3, <1>a DEF Terminated, NoCandidate, Answered, AttemptStops, AttemptsSpent
  <1>4. CASE BeginSelection(t)
    <2>1. /\ pc'[t] = "select" /\ excluded' = excluded /\ primary'[t] = {}
          /\ began'[t] = minute /\ todo'[t] = Selectable(t)
      BY <1>0, <1>4 DEF BeginSelection, Goto, TypeOK
    <2>2. scope = "all_enabled" => todo'[t] = Sites
      BY <2>1 DEF Selectable
    <2>3. scope = "all_enabled" => Accounted(t)'
      BY <2>2 DEF Accounted
    <2>4. minute <= minute
      BY <1>2, BoundsAssumption DEF Minutes
    <2> QED
      BY <1>1, <1>2, <2>1, <2>3, <2>4 DEF TaskFallInv
  <1>5. CASE Look(t)
    <2> PICK x \in todo[t] :
          /\ todo' = [todo EXCEPT ![t] = @ \ {x}]
          /\ \E n \in {count[<<x, minute>>], memory[Owner[t]][<<x, began[t]>>]} :
               /\ Read(t, x, n)
               /\ LET seen == IF HasRoom(x, n) THEN {x} ELSE {} IN
                  primary' = [primary EXCEPT ![t] = @ \cup (seen \ excluded[t])]
      BY <1>5 DEF Look
    <2> DEFINE here == <<x, minute>>
    <2>1. here \in Slots /\ x \in Sites /\ here[1] = x
      BY <1>0, <1>2 DEF TypeOK, Slots
    <2>2. LET seen == IF HasRoom(x, count[here]) THEN {x} ELSE {} IN
          primary' = [primary EXCEPT ![t] = @ \cup (seen \ excluded[t])]
      <3>1. PICK n : /\ Read(t, x, n)
                     /\ LET seen == IF HasRoom(x, n) THEN {x} ELSE {} IN
                        primary' = [primary EXCEPT ![t] = @ \cup (seen \ excluded[t])]
        OBVIOUS
      <3>2. n = count[here]
        BY <1>0, <3>1 DEF Read, Fault
      <3> QED
        BY <3>1, <3>2
    <2>3. pc[t] = "select" /\ pc' = pc /\ excluded' = excluded /\ began' = began
          /\ admitted' = admitted
      BY <1>5 DEF Look
    <2>4. CASE HasRoom(x, count[here])
      <3>1. primary'[t] = primary[t] \cup ({x} \ excluded[t]) /\ todo'[t] = todo[t] \ {x}
        BY <1>0, <2>2, <2>4 DEF TypeOK
      <3>2. \A s \in Sites : Full(t, s) => Full(t, s)'
        BY <1>2, <2>3 DEF Full
      <3> QED
        BY <1>1, <1>2, <2>3, <3>1, <3>2 DEF TaskFallInv, Accounted
    <2>5. CASE ~HasRoom(x, count[here])
      <3>1. primary'[t] = primary[t] /\ todo'[t] = todo[t] \ {x}
        BY <1>0, <2>2, <2>5 DEF TypeOK
      <3>2. \A s \in Sites : Full(t, s) => Full(t, s)'
        BY <1>2, <2>3 DEF Full
      <3>3. Allowed[x] > 0 /\ count[here] >= Allowed[x]
        BY <1>0, <2>1, <2>5, AllowedAssumption DEF HasRoom, TypeOK
      <3>4. admitted[here] = Allowed[x]
        BY <1>0, <2>1, <3>3 DEF IInv, ExactInv, CountTrue
      <3>5. began[t] <= minute /\ minute <= minute
        BY <1>0, <1>1, <1>2 DEF TaskFallInv, Minutes
      <3>6. Full(t, x)
        BY <1>2, <3>3, <3>4, <3>5 DEF Full
      <3> QED
        BY <1>1, <1>2, <2>1, <2>3, <3>1, <3>2, <3>6 DEF TaskFallInv, Accounted
    <2> QED
      BY <2>4, <2>5
  <1>6. CASE TakeUnlimited(t)
    BY <1>6, <1>b DEF TakeUnlimited
  <1>7. CASE Take(t)
    <2>1. CASE \E s \in Candidates(t) : Choose(t, s, minute)
      BY <2>1, <1>b
    <2>2. CASE \E s \in Candidates(t) :
               /\ Goto(t, "undo")
               /\ slot' = [slot EXCEPT ![t] = <<s, minute>>]
               /\ UNCHANGED <<todo, primary, began, excluded>>
      <3>1. pc[t] = "select" /\ slot'[t][2] = minute
        BY <1>0, <1>7, <2>2 DEF Take, TypeOK
      <3>2. \A s \in Sites : Full(t, s) => Full(t, s)'
        BY <1>2, <2>2, FullKept
      <3>3. minute <= minute
        BY <1>2, BoundsAssumption DEF Minutes
      <3>4. pc'[t] = "undo"
        BY <1>0, <2>2 DEF Goto, TypeOK
      <3>5. scope = "all_enabled" => Accounted(t)'
        BY <1>1, <2>2, <3>1, <3>2 DEF TaskFallInv, Accounted
      <3> QED
        BY <1>1, <1>2, <2>2, <3>1, <3>3, <3>4, <3>5 DEF TaskFallInv
    <2> QED
      BY <1>7, <2>1, <2>2 DEF Take
  <1>8. CASE TakeUnanswered(t) \/ UndoUnanswered(t)
    BY <1>0, <1>8 DEF TakeUnanswered, UndoUnanswered, Fault
  <1>9. CASE Undo(t)
    <2> DEFINE s == slot[t][1]
               m == slot[t][2]
    <2>1. /\ pc[t] = "undo" /\ pc'[t] = "select" /\ todo' = todo /\ began' = began
          /\ primary'[t] = primary[t] \ {s} /\ excluded' = excluded /\ admitted' = admitted
      BY <1>0, <1>9 DEF Undo, Refuse, Goto, TypeOK
    <2>2. slot[t] \in Slots /\ s \in Sites /\ m \in Minutes /\ slot[t] = <<s, m>>
      BY <1>0, <2>1 DEF TypeOK, Slots
    <2>3. Cardinality(Undoing(slot[t])) > 0
      <3>1. t \in Undoing(slot[t])
        BY <2>1 DEF Undoing
      <3>2. Cardinality(Undoing(slot[t])) # 0
        BY <3>1, UndoingFinite, FS_EmptySet
      <3> QED
        BY <3>2, UndoingFinite
    <2>4. Allowed[s] > 0 /\ admitted[<<s, m>>] = Allowed[s]
      BY <1>0, <2>2, <2>3 DEF IInv, ExactInv
    <2>5. began[t] <= m /\ m <= minute
      BY <1>1, <2>1 DEF TaskFallInv
    <2>6. Full(t, s)
      BY <2>2, <2>4, <2>5 DEF Full
    <2>7. \A x \in Sites : Full(t, x) => Full(t, x)'
      BY <1>2, <2>1 DEF Full
    <2> QED
      BY <1>1, <1>2, <2>1, <2>6, <2>7 DEF TaskFallInv, Accounted
  <1>10. CASE RequestRetried(t)
    BY <1>1, <1>10, <1>2 DEF RequestRetried, TaskFallInv
  <1>11. CASE AttemptRetried(t)
    <2>1. pc'[t] = "check" /\ began' = began /\ primary' = primary
      BY <1>0, <1>11 DEF AttemptRetried, Again, Goto, TypeOK
    <2>2. scope = "single_site" => excluded'[t] = excluded[t]
      BY <1>0, <1>11 DEF AttemptRetried, Exclude, TypeOK
    <2>3. primary[t] = {}
      BY <1>1, <1>11 DEF AttemptRetried, TaskFallInv
    <2> QED
      BY <1>1, <1>2, <2>1, <2>2, <2>3 DEF TaskFallInv
  <1> QED
    BY <1>3, <1>4, <1>5, <1>6, <1>7, <1>8, <1>9, <1>10, <1>11 DEF Step

LEMMA FallOther ==
  ASSUME IInv, IInv', FallInv, NEW t \in Tasks, Step(t), faults' = 0,
         NEW u \in Tasks \ {t}
  PROVE  TaskFallInv(u)'
  <1>1. TaskFallInv(u)
    BY Effects, BoundsAssumption DEF IInv, TypeOK, FallInv
  <1>2. /\ scope' = scope /\ minute' = minute
        /\ pc'[u] = pc[u] /\ slot'[u] = slot[u]
        /\ excluded'[u] = excluded[u] /\ began'[u] = began[u]
        /\ todo'[u] = todo[u] /\ primary'[u] = primary[u]
    BY OthersKept DEF IInv
  <1>3. \A s \in Sites : Full(u, s) => Full(u, s)'
    BY <1>2, FullKept
  <1>4. Accounted(u) => Accounted(u)'
    BY <1>2, <1>3 DEF Accounted
  <1> QED
    BY <1>1, <1>2, <1>4 DEF TaskFallInv

LEMMA FallNext == IInv /\ IInv' /\ FallInv /\ [Next]_vars => FallInv'
  <1> SUFFICES ASSUME IInv, IInv', FallInv, [Next]_vars, faults' = 0,
                      NEW t \in Tasks
               PROVE  TaskFallInv(t)'
    BY DEF FallInv
  <1>1. CASE UNCHANGED vars \/ MinuteTicks
    <2>1. /\ scope' = scope /\ pc' = pc /\ slot' = slot /\ excluded' = excluded
          /\ began' = began /\ todo' = todo /\ primary' = primary
          /\ admitted' = admitted /\ faults' = faults
      BY <1>1 DEF vars, MinuteTicks, shared, selection, progress
    <2>2. minute' = minute \/ minute' = minute + 1
      BY <1>1 DEF vars, MinuteTicks
    <2>3. minute \in Int /\ began[t] \in Int /\ slot[t][2] \in Int
      BY DEF IInv, TypeOK, Minutes
    <2>4. \A m \in Int : m <= minute => m <= minute'
      BY <2>2, <2>3
    <2>5. \A s \in Sites : Full(t, s) => Full(t, s)'
      BY <2>1, <2>4 DEF Full, Minutes
    <2>6. TaskFallInv(t)
      BY <2>1 DEF FallInv
    <2>7. Accounted(t) => Accounted(t)'
      BY <2>1, <2>5 DEF Accounted
    <2> QED
      BY <2>1, <2>3, <2>4, <2>6, <2>7 DEF TaskFallInv
  <1>2. CASE \E u \in Tasks : Step(u)
    BY <1>2, FallMover, FallOther
  <1> QED
    BY <1>1, <1>2 DEF Next

(* Only a granted acquisition or a site without limit sends a task to a site
   while Redis answers, and it is one of the first candidates. *)
LEMMA ChosenCandidate ==
  ASSUME TypeOK, NEW t \in Tasks, Step(t), faults' = 0,
         pc[t] # "call", pc'[t] = "call"
  PROVE  pc[t] = "select" /\ todo[t] = {} /\ slot'[t][1] \in Candidates(t)
  <1>0. faults = 0
    BY Effects, BoundsAssumption DEF TypeOK
  <1>a. ASSUME NEW s, Choose(t, s, minute) PROVE slot'[t][1] = s
    BY <1>a DEF Choose, TypeOK
  <1>1. CASE Take(t)
    <2>1. \/ \E s \in Candidates(t) : Choose(t, s, minute)
          \/ Goto(t, "undo")
      BY <1>1 DEF Take
    <2>2. ~Goto(t, "undo")
      BY DEF Goto, TypeOK
    <2> QED
      BY <1>1, <2>1, <2>2, <1>a DEF Take
  <1>2. CASE TakeUnlimited(t)
    BY <1>2, <1>a DEF TakeUnlimited
  <1>3. CASE \/ Terminated(t) \/ NoCandidate(t) \/ Answered(t)
             \/ AttemptStops(t) \/ AttemptsSpent(t)
    BY <1>3 DEF Terminated, NoCandidate, Answered, AttemptStops, AttemptsSpent,
                Finish, Goto, TypeOK
  <1>4. CASE BeginSelection(t) \/ Look(t) \/ RequestRetried(t) \/ AttemptRetried(t)
    BY <1>4 DEF BeginSelection, Look, RequestRetried, AttemptRetried, Again, Goto, TypeOK
  <1>5. CASE Undo(t)
    BY <1>5 DEF Undo, Refuse, Goto, TypeOK
  <1>6. CASE TakeUnanswered(t) \/ UndoUnanswered(t)
    BY <1>0, <1>6 DEF TakeUnanswered, UndoUnanswered, Fault
  <1> QED
    BY <1>1, <1>2, <1>3, <1>4, <1>5, <1>6 DEF Step

LEMMA FallbackStep ==
  ASSUME IInv, FallInv, [Next]_vars, NEW t \in Tasks,
         pc[t] # "call", pc'[t] = "call", slot'[t][1] \in excluded[t],
         faults' = 0, NEW s \in Sites \ excluded[t]
  PROVE  Allowed[s] > 0 /\ \E m \in began[t]..minute : admitted[<<s, m>>] = Allowed[s]
  <1>1. PICK u \in Tasks : Step(u)
    BY DEF Next, MinuteTicks, vars
  <1>2. u = t
    BY <1>1, OthersKept DEF IInv
  <1>3. pc[t] = "select" /\ todo[t] = {} /\ slot'[t][1] \in Candidates(t)
    BY <1>1, <1>2, ChosenCandidate DEF IInv
  <1>4. TaskFallInv(t)
    BY <1>1, Effects, BoundsAssumption DEF IInv, TypeOK, FallInv
  <1>5. primary[t] = {}
    BY <1>3, <1>4 DEF Candidates, TaskFallInv
  <1>6. scope = "all_enabled"
    BY <1>4, ScopesAssumption DEF TaskFallInv, IInv, TypeOK
  <1>7. Full(t, s)
    BY <1>3, <1>4, <1>5, <1>6 DEF TaskFallInv, Accounted
  <1>8. began[t] \in Nat /\ minute \in Nat
    BY DEF IInv, TypeOK, Minutes
  <1>9. \A m \in Minutes : began[t] <= m /\ m <= minute => m \in began[t]..minute
    BY <1>8 DEF Minutes
  <1> QED
    BY <1>7, <1>9 DEF Full

(* A task returns to a site it failed on only when every other site was full
   since its selection began, for any numbers of tasks and sites. *)
THEOREM FallbackCorrect == Spec => FallbackJust
  <1>1. Init => IInv /\ FallInv
    BY TypeInit, QuotaInit, ExactInit, FallInit DEF IInv
  <1>2. IInv /\ FallInv /\ [Next]_vars => IInv' /\ FallInv'
    BY TypeNext, QuotaNext, ExactNext, FallNext DEF IInv
  <1>3. IInv /\ FallInv /\ [Next]_vars =>
          [\A t \in Tasks :
             /\ pc[t] # "call" /\ pc'[t] = "call"
             /\ slot'[t][1] \in excluded[t]
             /\ faults' = 0
             => \A s \in Sites \ excluded[t] :
                  /\ Allowed[s] > 0
                  /\ \E m \in began[t]..minute : admitted[<<s, m>>] = Allowed[s]
          ]_vars
    BY FallbackStep
  <1> QED
    BY <1>1, <1>2, <1>3, PTL DEF Spec, FallbackJust
============================================================================
