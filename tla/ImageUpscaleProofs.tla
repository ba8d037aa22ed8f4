------------------------- MODULE ImageUpscaleProofs -------------------------
(***************************************************************************)
(* Proofs about ImageUpscale, for any number of jobs, any settings of the  *)
(* queue and any number of faults and restarts.                            *)
(***************************************************************************)
EXTENDS ImageUpscale, FiniteSetTheorems, SequenceTheorems, TLAPS

Statuses == {"none"} \cup Open \cup Terminal

-----------------------------------------------------------------------------
(* The queue: what it starts, and what remains of it.                      *)

(* The entries of q are the jobs whose place is the queue, each once.      *)
Lined(q, p) ==
  /\ \A j \in Jobs : p[j] = "queue" <=> \E i \in 1..Len(q) : q[i] = j
  /\ \A i, k \in 1..Len(q) : q[i] = q[k] => i = k

(* Where the function of a job that holds a place is not.                  *)
Idle == {"none", "queue", "finish", "later save"}

Busy(s, p) == \A j \in s : p[j] \notin Idle

LEMMA JobsFinite == \A s \in SUBSET Jobs : IsFiniteSet(s)
<1>1. IsFiniteSet(Jobs)
  BY UpscaleAssumption, FS_Interval DEF Jobs
<1> QED
  BY <1>1, FS_Subset

(* The first k entries are k different jobs.                               *)
LEMMA FirstEntries ==
  ASSUME NEW q \in Seq(Jobs), NEW k \in 0..Len(q),
         \A i, h \in 1..Len(q) : q[i] = q[h] => i = h
  PROVE  Cardinality({q[i] : i \in 1..k}) = k
<1> DEFINE first == {q[i] : i \in 1..k}
           f == [i \in 1..k |-> q[i]]
<1>1. \A i \in 1..k : i \in 1..Len(q)
  OBVIOUS
<1>2. f \in Surjection(1..k, first)
  BY DEF Surjection
<1>3. f \in Injection(1..k, first)
  <2>1. IsInjective(f)
    BY <1>1 DEF IsInjective
  <2>2. f \in [1..k -> first]
    OBVIOUS
  <2> QED
    BY <2>1, <2>2 DEF Injection
<1>4. f \in Bijection(1..k, first)
  BY <1>2, <1>3 DEF Bijection
<1>5. ExistsBijection(1..k, first)
  BY <1>4 DEF ExistsBijection
<1>6. IsFiniteSet(1..k) /\ Cardinality(1..k) = k
  BY FS_Interval
<1> QED
  BY <1>5, <1>6, FS_Bijection

(* What the queue starts is free of what holds a place already.            *)
LEMMA BeginsCount ==
  ASSUME NEW q \in Seq(Jobs), NEW k \in 0..Len(q), NEW p, NEW s \in SUBSET Jobs,
         Lined(q, p), Busy(s, p)
  PROVE  Cardinality(s \cup {q[i] : i \in 1..k}) = Cardinality(s) + k
<1> DEFINE begins == {q[i] : i \in 1..k}
<1>1. begins \subseteq Jobs
  BY ElementOfSeq
<1>2. \A j \in begins : p[j] = "queue"
  BY <1>1 DEF Lined
<1>3. s \cap begins = {}
  BY <1>2 DEF Busy, Idle
<1>4. IsFiniteSet(s) /\ IsFiniteSet(begins)
  BY <1>1, JobsFinite
<1>5. Cardinality(begins) = k
  BY FirstEntries DEF Lined
<1>6. Cardinality(s \cap begins) = 0
  BY <1>3, FS_EmptySet
<1>7. Cardinality(s \cup begins) = Cardinality(s) + Cardinality(begins) - Cardinality(s \cap begins)
  BY <1>4, FS_Union
<1> QED
  BY <1>4, <1>5, <1>6, <1>7, FS_CardinalityType

(* The rest of the queue.                                                  *)
LEMMA RestEntries ==
  ASSUME NEW q \in Seq(Jobs), NEW k \in 0..Len(q)
  PROVE  /\ SubSeq(q, k + 1, Len(q)) \in Seq(Jobs)
         /\ Len(SubSeq(q, k + 1, Len(q))) = Len(q) - k
         /\ \A i \in 1..(Len(q) - k) : SubSeq(q, k + 1, Len(q))[i] = q[k + i]
<1>1. \A i \in (k + 1)..Len(q) : q[i] \in Jobs
  BY ElementOfSeq
<1>2. k + 1 \in Int /\ Len(q) \in Int
  OBVIOUS
<1>3. /\ SubSeq(q, k + 1, Len(q)) \in Seq(Jobs)
      /\ Len(SubSeq(q, k + 1, Len(q))) = IF k + 1 <= Len(q) THEN Len(q) - (k + 1) + 1 ELSE 0
      /\ \A i \in 1..(Len(q) - (k + 1) + 1) :
           SubSeq(q, k + 1, Len(q))[i] = q[(k + 1) + i - 1]
  BY <1>1, <1>2, SubSeqProperties
<1> QED
  BY <1>3

LEMMA RestLined ==
  ASSUME NEW q \in Seq(Jobs), NEW k \in 0..Len(q), NEW p \in [Jobs -> Places], Lined(q, p),
         NEW begins \in SUBSET Jobs, begins = {q[i] : i \in 1..k},
         NEW p2 \in [Jobs -> Places], \A j \in Jobs \cap begins : p2[j] # "queue",
         \A j \in Jobs \ begins : p2[j] = p[j]
  PROVE  Lined(SubSeq(q, k + 1, Len(q)), p2)
<1> DEFINE rest == SubSeq(q, k + 1, Len(q))
<1>1. Len(rest) = Len(q) - k /\ \A i \in 1..Len(rest) : rest[i] = q[k + i]
  BY RestEntries
<1>2. \A i \in 1..Len(rest) : k + i \in 1..Len(q) /\ k + i \notin 1..k
  BY <1>1
<1>3. \A i \in 1..Len(rest) : rest[i] \in Jobs /\ rest[i] \notin begins
  <2> SUFFICES ASSUME NEW i \in 1..Len(rest)
               PROVE  rest[i] \in Jobs /\ rest[i] \notin begins
    OBVIOUS
  <2>1. rest[i] = q[k + i] /\ q[k + i] \in Jobs
    BY <1>1, <1>2, ElementOfSeq
  <2>2. ASSUME NEW h \in 1..k, q[h] = q[k + i]
        PROVE  FALSE
    <3>1. h \in 1..Len(q) /\ k + i \in 1..Len(q)
      BY <1>2
    <3>2. h = k + i
      BY <2>2, <3>1 DEF Lined
    <3> QED
      BY <1>2, <3>2
  <2> QED
    BY <2>1, <2>2
<1>4. ASSUME NEW j \in Jobs, p2[j] = "queue"
      PROVE  \E i \in 1..Len(rest) : rest[i] = j
  <2>1. p[j] = "queue" /\ j \notin begins
    BY <1>4
  <2>2. PICK h \in 1..Len(q) : q[h] = j
    BY <2>1 DEF Lined
  <2>3. h - k \in 1..Len(rest) /\ k + (h - k) = h
    BY <1>1, <2>1, <2>2
  <2> QED
    BY <1>1, <2>2, <2>3
<1>5. ASSUME NEW j \in Jobs, NEW i \in 1..Len(rest), rest[i] = j
      PROVE  p2[j] = "queue"
  <2>1. j \notin begins
    BY <1>3, <1>5
  <2>2. p[j] = "queue"
    BY <1>1, <1>2, <1>5 DEF Lined
  <2> QED
    BY <2>1, <2>2
<1>6. \A i, h \in 1..Len(rest) : rest[i] = rest[h] => i = h
  <2> SUFFICES ASSUME NEW i \in 1..Len(rest), NEW h \in 1..Len(rest), rest[i] = rest[h]
               PROVE  i = h
    OBVIOUS
  <2>1. k + i = k + h
    BY <1>1, <1>2 DEF Lined
  <2> QED
    BY <2>1
<1> QED
  BY <1>4, <1>5, <1>6 DEF Lined

(* The job is started, or nothing happens to it.                           *)
Begins(j, p, m) ==
  /\ p[j] = "queue"
  /\ j \in slots' /\ j \notin aborted'
  /\ mem'[j] = IF m[j] \in Terminal THEN m[j] ELSE "running"
  /\ at'[j] = IF m[j] \in Terminal THEN "check" ELSE "mark"

Remains(j, p, m, s, b) ==
  /\ mem'[j] = m[j] /\ at'[j] = p[j]
  /\ j \in slots' <=> j \in s
  /\ j \in aborted' <=> j \in b

QueueType ==
  /\ mem \in [Jobs -> Statuses] /\ at \in [Jobs -> Places]
  /\ queue \in Seq(Jobs) /\ active \in Nat
  /\ slots \subseteq Jobs /\ aborted \subseteq Jobs

QueueInv == SlotsTrue /\ Busy(slots, at)

LEMMA DrainEffect ==
  ASSUME limits \in Limits, limits' = limits,
         NEW q \in Seq(Jobs), NEW n \in Nat, NEW p \in [Jobs -> Places],
         NEW m \in [Jobs -> Statuses], NEW s \in SUBSET Jobs, NEW b \in SUBSET Jobs,
         n = Cardinality(s), n <= limits.concurrency, Lined(q, p), Busy(s, p),
         Drain(q, n, p, m, s, b)
  PROVE  /\ QueueType' /\ QueueInv'
         /\ \A j \in Jobs : Begins(j, p, m) \/ Remains(j, p, m, s, b)
<1> DEFINE free == IF n < limits.concurrency THEN limits.concurrency - n ELSE 0
           k == IF Len(q) < free THEN Len(q) ELSE free
           begins == {q[i] : i \in 1..k}
<1>1. limits.concurrency \in Nat /\ Len(q) \in Nat
  BY UpscaleAssumption
<1>2. k \in 0..Len(q) /\ n + k <= limits.concurrency
  BY <1>1
<1>3. /\ queue' = SubSeq(q, k + 1, Len(q))
      /\ active' = n + k /\ slots' = s \cup begins /\ aborted' = b \ begins
      /\ mem' = [j \in Jobs |-> IF j \in begins /\ m[j] \notin Terminal THEN "running" ELSE m[j]]
      /\ at' = [j \in Jobs |-> IF j \notin begins THEN p[j]
                               ELSE IF m[j] \in Terminal THEN "check" ELSE "mark"]
  BY DEF Drain
<1> HIDE DEF k
<1>4. begins \subseteq Jobs /\ \A j \in begins : p[j] = "queue"
  BY <1>2, ElementOfSeq DEF Lined
<1>5. \A j \in Jobs : Begins(j, p, m) \/ Remains(j, p, m, s, b)
  BY <1>3, <1>4 DEF Begins, Remains
<1>6. QueueType'
  <2>1. queue' \in Seq(Jobs)
    BY <1>2, <1>3, RestEntries
  <2>2. mem' \in [Jobs -> Statuses]
    BY <1>3 DEF Statuses, Open
  <2>3. at' \in [Jobs -> Places]
    BY <1>3 DEF Places
  <2>4. active' \in Nat /\ slots' \subseteq Jobs /\ aborted' \subseteq Jobs
    BY <1>2, <1>3, <1>4
  <2> QED
    BY <2>1, <2>2, <2>3, <2>4 DEF QueueType
<1>7. Cardinality(slots') = n + k
  BY <1>2, <1>3, BeginsCount
<1>8. Lined(queue', at')
  <2>1. /\ \A j \in Jobs \cap begins : at'[j] # "queue"
        /\ \A j \in Jobs \ begins : at'[j] = p[j]
    BY <1>3
  <2>2. begins = {q[i] : i \in 1..k}
    OBVIOUS
  <2> HIDE DEF begins
  <2>3. Lined(SubSeq(q, k + 1, Len(q)), at')
    BY <1>2, <1>4, <1>6, <2>1, <2>2, RestLined DEF QueueType
  <2> QED
    BY <1>3, <2>3
<1>9. Busy(slots', at')
  BY <1>3, <1>4 DEF Busy, Idle
<1>10. QueueInv'
  BY <1>2, <1>3, <1>7, <1>8, <1>9 DEF QueueInv, SlotsTrue, Lined
<1> QED
  BY <1>5, <1>6, <1>10

-----------------------------------------------------------------------------
(* What a step of one job does to the process, for itself and the others.  *)

Others(j) ==
  \A i \in Jobs \ {j} : Begins(i, at, mem) \/ Remains(i, at, mem, slots, aborted)

Sound == limits \in Limits /\ limits' = limits /\ QueueType /\ QueueInv

LEMMA SoundLined == Sound => Lined(queue, at) /\ Busy(slots, at)
BY DEF Sound, QueueInv, SlotsTrue, Lined

LEMMA GoesEffect ==
  ASSUME Sound, NEW j \in Jobs, NEW p \in Places \ {"queue"},
         at[j] # "queue", j \in slots => p \notin Idle, Goes(j, p)
  PROVE  /\ QueueType' /\ QueueInv' /\ Others(j)
         /\ at'[j] = p /\ UNCHANGED <<mem, slots, aborted, failing>>
<1>1. /\ at' = [at EXCEPT ![j] = p]
      /\ UNCHANGED <<mem, queue, active, slots, aborted, failing>>
  BY DEF Goes
<1>2. QueueType'
  BY <1>1 DEF Sound, QueueType
<1>3. at'[j] = p /\ \A i \in Jobs \ {j} : at'[i] = at[i]
  BY <1>1 DEF Sound, QueueType
<1>4. Others(j)
  BY <1>1, <1>3 DEF Others, Remains
<1>5. Lined(queue, at')
  BY <1>3, SoundLined DEF Lined
<1>6. Busy(slots, at')
  BY <1>3, SoundLined DEF Busy, Sound, QueueType
<1>7. QueueInv'
  BY <1>1, <1>5, <1>6 DEF Sound, QueueInv, SlotsTrue, Lined
<1> QED
  BY <1>1, <1>2, <1>3, <1>4, <1>7

LEMMA ReleaseEffect ==
  ASSUME Sound, NEW j \in slots, NEW p \in [Jobs -> Places], NEW m \in [Jobs -> Statuses],
         NEW b \in SUBSET Jobs, p[j] # "queue",
         \A i \in Jobs \ {j} : p[i] = at[i] /\ m[i] = mem[i] /\ (i \in b <=> i \in aborted),
         Release(j, p, m, b)
  PROVE  /\ QueueType' /\ QueueInv' /\ Others(j)
         /\ at'[j] = p[j] /\ mem'[j] = m[j] /\ j \notin slots' /\ (j \in aborted' <=> j \in b)
<1>1. j \in Jobs /\ slots \subseteq Jobs /\ queue \in Seq(Jobs) /\ active = Cardinality(slots)
  BY DEF Sound, QueueType, QueueInv, SlotsTrue
<1>2. IsFiniteSet(slots)
  BY <1>1, JobsFinite
<1>3. /\ Cardinality(slots \ {j}) = active - 1
      /\ Cardinality(slots \ {j}) \in Nat
  BY <1>1, <1>2, FS_RemoveElement, FS_CardinalityType
<1> DEFINE n == IF active > 0 THEN active - 1 ELSE 0
<1>4. n \in Nat /\ n = Cardinality(slots \ {j})
  BY <1>3 DEF Sound, QueueType
<1>5. n <= limits.concurrency
  BY <1>3, <1>4, UpscaleAssumption DEF Sound, QueueInv, SlotsTrue, QueueType
<1>6. at[j] # "queue"
  BY SoundLined DEF Busy, Idle
<1>7. Lined(queue, p)
  BY <1>6, SoundLined DEF Lined
<1>8. Busy(slots \ {j}, p)
  BY <1>1, SoundLined DEF Busy
<1>9. Drain(queue, n, p, m, slots \ {j}, b)
  BY DEF Release
<1> HIDE DEF n
<1>10. /\ QueueType' /\ QueueInv'
       /\ \A i \in Jobs : Begins(i, p, m) \/ Remains(i, p, m, slots \ {j}, b)
  BY <1>1, <1>4, <1>5, <1>7, <1>8, <1>9, DrainEffect DEF Sound
<1>11. Remains(j, p, m, slots \ {j}, b)
  BY <1>1, <1>10 DEF Begins
<1>12. Others(j)
  BY <1>10 DEF Others, Begins, Remains
<1> QED
  BY <1>10, <1>11, <1>12 DEF Remains

LEMMA EnqueueEffect ==
  ASSUME Sound, NEW j \in Jobs, at[j] = "none", Enqueue(j)
  PROVE  /\ QueueType' /\ QueueInv' /\ Others(j)
         /\ \/ mem'[j] = "failed" /\ at'[j] = "none" /\ failing' = failing \cup {j}
            \/ mem'[j] = "queued" /\ at'[j] = "queue" /\ failing' = failing
            \/ mem'[j] = "running" /\ at'[j] = "mark" /\ j \in slots' /\ failing' = failing
<1>1. j \notin slots
  BY SoundLined DEF Busy, Idle
<1>2. CASE Full
  <2>1. /\ mem' = [mem EXCEPT ![j] = "failed"] /\ failing' = failing \cup {j}
        /\ UNCHANGED <<queue, active, slots, at, aborted>>
    BY <1>2 DEF Enqueue
  <2>2. QueueType'
    BY <2>1 DEF Sound, QueueType, Statuses, Terminal
  <2>3. QueueInv'
    BY <2>1 DEF Sound, QueueInv, SlotsTrue, Busy
  <2>4. Others(j) /\ mem'[j] = "failed"
    BY <2>1 DEF Others, Remains, Sound, QueueType
  <2> QED
    BY <2>1, <2>2, <2>3, <2>4
<1>3. CASE ~Full
  <2> DEFINE p == [at EXCEPT ![j] = "queue"]
             m == [mem EXCEPT ![j] = "queued"]
             q == Append(queue, j)
  <2>1. Drain(q, active, p, m, slots, aborted) /\ failing' = failing
    BY <1>3 DEF Enqueue
  <2>2. p \in [Jobs -> Places] /\ m \in [Jobs -> Statuses] /\ p[j] = "queue" /\ m[j] = "queued"
    BY DEF Sound, QueueType, Places, Statuses, Open
  <2>3. \A i \in Jobs \ {j} : p[i] = at[i] /\ m[i] = mem[i]
    BY DEF Sound, QueueType
  <2>4. /\ q \in Seq(Jobs) /\ Len(q) = Len(queue) + 1 /\ q[Len(queue) + 1] = j
        /\ \A i \in 1..Len(queue) : q[i] = queue[i]
    BY AppendProperties DEF Sound, QueueType
  <2>5. Len(queue) \in Nat
    BY DEF Sound, QueueType
  <2>6. \A i \in 1..Len(queue) : queue[i] # j
    BY SoundLined DEF Lined
  <2> HIDE DEF p, m, q
  <2>7. Lined(q, p)
    <3>1. ASSUME NEW i \in Jobs
          PROVE  p[i] = "queue" <=> \E k \in 1..Len(q) : q[k] = i
      <4>1. CASE i = j
        BY <2>2, <2>4, <2>5, <4>1
      <4>2. CASE i # j
        BY <2>3, <2>4, <2>5, <4>2, SoundLined DEF Lined
      <4> QED
        BY <4>1, <4>2
    <3>2. ASSUME NEW i \in 1..Len(q), NEW k \in 1..Len(q), q[i] = q[k]
          PROVE  i = k
      <4>1. CASE i = Len(queue) + 1 \/ k = Len(queue) + 1
        BY <2>4, <2>5, <2>6, <3>2, <4>1
      <4>2. CASE i \in 1..Len(queue) /\ k \in 1..Len(queue)
        BY <2>4, <3>2, <4>2, SoundLined DEF Lined
      <4> QED
        BY <2>4, <2>5, <4>1, <4>2
    <3> QED
      BY <3>1, <3>2 DEF Lined
  <2>8. Busy(slots, p)
    BY <1>1, <2>3, SoundLined DEF Busy, Sound, QueueType
  <2>9. /\ QueueType' /\ QueueInv'
        /\ \A i \in Jobs : Begins(i, p, m) \/ Remains(i, p, m, slots, aborted)
    BY <2>1, <2>2, <2>4, <2>7, <2>8, DrainEffect DEF Sound, QueueType, QueueInv, SlotsTrue
  <2>10. Others(j)
    BY <2>3, <2>9 DEF Others, Begins, Remains
  <2>11. \/ mem'[j] = "queued" /\ at'[j] = "queue"
         \/ mem'[j] = "running" /\ at'[j] = "mark" /\ j \in slots'
    <3>1. m[j] \notin Terminal
      BY <2>2 DEF Terminal
    <3> QED
      BY <2>2, <2>9, <3>1 DEF Begins, Remains
  <2> QED
    BY <2>1, <2>9, <2>10, <2>11
<1> QED
  BY <1>2, <1>3

(***************************************************************************)
(* How the memory and the failures to be written change with a step of j,  *)
(* and what the steps of a function have in common.                        *)
(***************************************************************************)
Changed(j) ==
  \/ mem'[j] = mem[j]
  \/ mem[j] \notin Terminal /\ mem'[j] \in {"failed", "succeeded"}

Noted(j) ==
  /\ failing' \subseteq Jobs
  /\ \A i \in failing' : i \in failing \/ (i = j /\ mem'[j] = "failed")

(* A job that is open in memory stays where it is attended to, or its end  *)
(* is noted for whoever writes it to the row.                              *)
Handed(j) ==
  /\ failing \subseteq failing'
  /\ mem[j] \in Open =>
       \/ mem'[j] \in Open /\ at[j] # "queue" /\ (j \in slots => j \in slots')
       \/ mem'[j] \in Terminal /\ (j \in failing' \/ at'[j] = "finish")

Moved(j) ==
  QueueType' /\ QueueInv' /\ Others(j) /\ Changed(j) /\ Noted(j) /\ Handed(j)

Awaits(j) == Sound /\ failing \subseteq Jobs /\ at[j] \notin {"none", "queue"}

LEMMA GoesMoves ==
  ASSUME NEW j \in Jobs, Awaits(j), NEW p \in Places \ {"queue"},
         j \in slots => p \notin Idle, Goes(j, p)
  PROVE  Moved(j) /\ at'[j] = p /\ UNCHANGED mem
<1>1. /\ QueueType' /\ QueueInv' /\ Others(j)
      /\ at'[j] = p /\ UNCHANGED <<mem, slots, aborted, failing>>
  BY GoesEffect DEF Awaits
<1>2. Changed(j) /\ Noted(j)
  BY <1>1 DEF Awaits, Changed, Noted
<1>3. Handed(j)
  BY <1>1 DEF Awaits, Handed
<1> QED
  BY <1>1, <1>2, <1>3 DEF Moved

LEMMA UnnoticedMoves ==
  ASSUME NEW j \in Jobs, Awaits(j), EndsUnnoticed(j)
  PROVE  Moved(j) /\ at'[j] = "none"
<1>1. j \notin slots /\ Goes(j, "none")
  BY DEF EndsUnnoticed, Goes
<1>2. "none" \in Places \ {"queue"}
  BY DEF Places
<1> QED
  BY <1>1, <1>2, GoesMoves

LEMMA FailedInType ==
  ASSUME mem \in [Jobs -> Statuses], NEW j \in Jobs
  PROVE  /\ FailedIn(mem, j) \in [Jobs -> Statuses]
         /\ FailedIn(mem, j)[j] = IF mem[j] \in Terminal THEN mem[j] ELSE "failed"
         /\ \A i \in Jobs \ {j} : FailedIn(mem, j)[i] = mem[i]
BY DEF FailedIn, Statuses, Terminal

LEMMA ThrowsMoves ==
  ASSUME NEW j \in Jobs, Awaits(j), Throws(j)
  PROVE  Moved(j) /\ at'[j] = "none"
<1>1. CASE EndsUnnoticed(j)
  BY <1>1, UnnoticedMoves
<1>2. CASE /\ j \in slots
           /\ Release(j, [at EXCEPT ![j] = "none"], FailedIn(mem, j), aborted)
           /\ failing' = StillFailing(j)
  <2> DEFINE p == [at EXCEPT ![j] = "none"]
             m == FailedIn(mem, j)
  <2>1. mem \in [Jobs -> Statuses] /\ at \in [Jobs -> Places] /\ aborted \in SUBSET Jobs
    BY DEF Awaits, Sound, QueueType
  <2>2. /\ p \in [Jobs -> Places] /\ p[j] = "none"
        /\ \A i \in Jobs \ {j} : p[i] = at[i]
    BY <2>1 DEF Places
  <2>3. /\ m \in [Jobs -> Statuses] /\ m[j] = IF mem[j] \in Terminal THEN mem[j] ELSE "failed"
        /\ \A i \in Jobs \ {j} : m[i] = mem[i]
    BY <2>1, FailedInType
  <2>4. Release(j, p, m, aborted)
    BY <1>2
  <2> HIDE DEF p, m
  <2>5. QueueType' /\ QueueInv' /\ Others(j) /\ at'[j] = "none" /\ mem'[j] = m[j]
    BY <1>2, <2>1, <2>2, <2>3, <2>4, ReleaseEffect DEF Awaits
  <2>6. Changed(j)
    BY <2>3, <2>5 DEF Changed, Terminal
  <2>7. Noted(j)
    BY <1>2, <2>3, <2>5 DEF Noted, StillFailing, Awaits
  <2>8. Handed(j)
    BY <1>2, <2>3, <2>5 DEF Handed, StillFailing, Open, Terminal
  <2> QED
    BY <2>5, <2>6, <2>7, <2>8 DEF Moved
<1> QED
  BY <1>1, <1>2 DEF Throws

LEMMA ReturnsMoves ==
  ASSUME NEW j \in Jobs, Awaits(j), Returns(j)
  PROVE  /\ Moved(j)
         /\ at'[j] \in {"none", "later save"} \/ (at'[j] = "finish" /\ mem'[j] = "succeeded")
<1>1. CASE EndsUnnoticed(j)
  BY <1>1, UnnoticedMoves
<1>2. ASSUME NEW p \in {"none", "later save", "finish"}, NEW x \in Statuses, j \in slots,
             Release(j, [at EXCEPT ![j] = p], [mem EXCEPT ![j] = x], aborted),
             \/ x = mem[j] /\ mem[j] \in Terminal
             \/ mem[j] \notin Terminal /\ x = "succeeded" /\ p = "finish",
             UNCHANGED failing
      PROVE  Moved(j) /\ at'[j] = p /\ mem'[j] = x
  <2> DEFINE r == [at EXCEPT ![j] = p]
             m == [mem EXCEPT ![j] = x]
  <2>1. mem \in [Jobs -> Statuses] /\ at \in [Jobs -> Places] /\ aborted \in SUBSET Jobs
    BY DEF Awaits, Sound, QueueType
  <2>2. /\ r \in [Jobs -> Places] /\ r[j] = p /\ p # "queue"
        /\ \A i \in Jobs \ {j} : r[i] = at[i]
    BY <2>1 DEF Places
  <2>3. m \in [Jobs -> Statuses] /\ m[j] = x /\ \A i \in Jobs \ {j} : m[i] = mem[i]
    BY <2>1
  <2>4. j \in slots /\ Release(j, r, m, aborted)
    BY <1>2
  <2> HIDE DEF r, m
  <2>5. QueueType' /\ QueueInv' /\ Others(j) /\ at'[j] = p /\ mem'[j] = x
    BY <2>1, <2>2, <2>3, <2>4, ReleaseEffect DEF Awaits
  <2>6. Changed(j) /\ Noted(j)
    BY <1>2, <2>5 DEF Changed, Noted, Awaits
  <2>7. Handed(j)
    BY <1>2, <2>5 DEF Handed, Open, Terminal
  <2> QED
    BY <2>5, <2>6, <2>7 DEF Moved
<1>3. CASE /\ j \in slots /\ mem[j] \in Terminal /\ UNCHANGED failing
           /\ Release(j, [at EXCEPT ![j] = AfterSuccess(j)], mem, aborted)
  <2>1. mem = [mem EXCEPT ![j] = mem[j]] /\ mem[j] \in Statuses
    BY DEF Awaits, Sound, QueueType
  <2>2. AfterSuccess(j) \in {"none", "later save"}
    BY DEF AfterSuccess
  <2> QED
    BY <1>2, <1>3, <2>1, <2>2
<1>4. CASE /\ j \in slots /\ mem[j] \notin Terminal /\ UNCHANGED failing
           /\ Release(j, [at EXCEPT ![j] = "finish"], [mem EXCEPT ![j] = "succeeded"], aborted)
  <2>1. "succeeded" \in Statuses
    BY DEF Statuses, Terminal
  <2> QED
    BY <1>2, <1>4, <2>1
<1> QED
  BY <1>1, <1>3, <1>4 DEF Returns

LEMMA FinalCheckMoves ==
  ASSUME NEW j \in Jobs, Awaits(j), FinalCheck(j)
  PROVE  /\ Moved(j)
         /\ \/ at'[j] \in {"none", "later save", "last check"}
            \/ at'[j] = "finish" /\ mem'[j] = "succeeded"
<1>1. CASE mem[j] \in Terminal
  <2>1. Goes(j, "last check") /\ "last check" \in Places \ {"queue"} /\ "last check" \notin Idle
    BY <1>1 DEF FinalCheck, Places, Idle
  <2> QED
    BY <2>1, GoesMoves
<1>2. CASE mem[j] \notin Terminal
  BY <1>2, ReturnsMoves DEF FinalCheck
<1> QED
  BY <1>1, <1>2

LEMMA ProceedsMoves ==
  ASSUME NEW j \in Jobs, Awaits(j), Proceeds(j)
  PROVE  /\ Moved(j)
         /\ \/ at'[j] = "save"
            \/ kind[j] # "sync" /\ at'[j] \in {"none", "later save", "last check"}
            \/ kind[j] # "sync" /\ at'[j] = "finish" /\ mem'[j] = "succeeded"
<1>1. CASE kind[j] = "sync"
  <2>1. Goes(j, "save") /\ "save" \in Places \ {"queue"} /\ "save" \notin Idle
    BY <1>1 DEF Proceeds, Places, Idle
  <2> QED
    BY <2>1, GoesMoves
<1>2. CASE kind[j] # "sync"
  BY <1>2, FinalCheckMoves DEF Proceeds
<1> QED
  BY <1>1, <1>2

-----------------------------------------------------------------------------
(* The invariant.                                                          *)

(***************************************************************************)
(* What the places, the memory and the row of a job have to do with one    *)
(* another.  Memory is never behind the row: a final row has a final       *)
(* memory, if it has any, and a failure or a cancellation that is still to *)
(* be written finds the job final in memory.  Before the call to the GPU,  *)
(* a job that is not aborted is open, unless it was cancelled while it     *)
(* waited; and a cancellation is in the row, under way or lost.            *)
(***************************************************************************)
JobInv(j) ==
  /\ at[j] # "none" => mem[j] # "none"
  /\ row[j] = "none" => mem[j] = "none"
  /\ at[j] \in {"mark", "prepare"} /\ j \notin aborted => j \in slots /\ mem[j] \in Open
  /\ at[j] = "queue" => mem[j] \in {"queued", "cancelled"}
  /\ at[j] \in {"check", "prepare unmarked"} => mem[j] = "cancelled"
  /\ mem[j] = "cancelled" /\ row[j] \in Open => j \in cancelling \/ faults # 0
  /\ at[j] = "finish" => mem[j] = "succeeded"
  /\ at[j] \in {"finish", "last check"} /\ kind[j] = "sync" => j \in picture
  /\ row[j] = "succeeded" => /\ mem[j] \in {"none", "succeeded"}
                             /\ kind[j] = "sync" => j \in picture
  /\ row[j] \in Terminal /\ mem[j] # "none" => mem[j] \in Terminal
  /\ j \in failing => mem[j] = "failed"
  /\ j \in cancelling => /\ row[j] # "none" /\ mem[j] \in Terminal \cup {"none"}
                         /\ recovery = "done"
  /\ j \in todo => row[j] \in Open /\ mem[j] = "none"
  /\ recovery = "list" => mem[j] = "none"

IInv == TypeOK /\ Busy(slots, at) /\ SlotsTrue /\ \A j \in Jobs : JobInv(j)

LEMMA InvSound ==
  IInv /\ UNCHANGED plan => /\ Sound /\ failing \subseteq Jobs
                            /\ row \in [Jobs -> Statuses]
                            /\ faults \in 0..MaxFaults
BY DEF IInv, TypeOK, Sound, QueueType, QueueInv, plan, Statuses

(* What a step of the function of j may do.                                *)
Effect(j) ==
  /\ Moved(j)
  /\ at'[j] # "queue" /\ (at'[j] = "check" => at[j] = "check")
  /\ at'[j] = "mark" => j \in aborted'
  /\ at'[j] = "prepare" => j \in aborted' \/ (j \in slots' /\ mem'[j] \in Open)
  /\ Turns(j, "prepare unmarked") => at[j] = "check" /\ row[j] \notin Terminal
  /\ Turns(j, "gpu") => at[j] = "prepare unmarked" \/ mem[j] \in Open
  /\ at'[j] = "finish" => mem'[j] = "succeeded"
  /\ at'[j] \in {"finish", "last check"} /\ kind[j] = "sync" => j \in picture'
  /\ picture \subseteq picture' /\ picture' \subseteq Jobs
  /\ row' \in [Jobs -> Statuses] /\ \A i \in Jobs \ {j} : row'[i] = row[i]
  /\ \/ row'[j] = row[j]
     \/ row[j] \notin Terminal /\ row'[j] = "running"
     \/ row'[j] = "succeeded" /\ mem'[j] = "succeeded" /\ (kind[j] = "sync" => j \in picture')
  /\ UNCHANGED <<plan, cancelling, startup, crashes>>
  /\ faults' \in 0..MaxFaults /\ (faults' = 0 => faults = 0)
  /\ at[j] = "finish" => row'[j] \in Terminal \/ faults' # 0

LEMMA WriteType ==
  ASSUME row \in [Jobs -> Statuses], NEW j \in Jobs, NEW new \in Statuses, Write(j, new)
  PROVE  /\ row' \in [Jobs -> Statuses] /\ \A i \in Jobs \ {j} : row'[i] = row[i]
         /\ row'[j] = IF row[j] \in Terminal THEN row[j] ELSE new
BY DEF Write, Written

LEMMA FaultType ==
  faults \in 0..MaxFaults /\ Fault => faults' \in 0..MaxFaults /\ faults' # 0
BY UpscaleAssumption DEF Fault

LEMMA ReadsRowEffect == ASSUME IInv, NEW j \in Jobs, ReadsRow(j) PROVE Effect(j)
<1>1. /\ at[j] \in {"check", "recheck", "last check"}
      /\ UNCHANGED <<plan, row, cancelling, startup, picture, crashes>>
  BY DEF ReadsRow
<1>2. Awaits(j) /\ row \in [Jobs -> Statuses] /\ faults \in 0..MaxFaults /\ picture \subseteq Jobs
  BY <1>1, InvSound DEF Awaits, IInv, TypeOK
<1>3. at[j] = "last check" /\ kind[j] = "sync" => j \in picture
  BY DEF IInv, JobInv
<1>4. faults' \in 0..MaxFaults /\ (faults' = 0 => faults = 0)
  BY <1>2, FaultType DEF ReadsRow
<1>5. CASE Throws(j)
  BY <1>1, <1>2, <1>4, <1>5, ThrowsMoves DEF Effect, Turns
<1>6. CASE row[j] \notin Terminal /\ at[j] = "check" /\ Goes(j, "prepare unmarked")
  <2>1. "prepare unmarked" \in Places \ {"queue"} /\ "prepare unmarked" \notin Idle
    BY DEF Places, Idle
  <2>2. Moved(j) /\ at'[j] = "prepare unmarked"
    BY <1>2, <1>6, <2>1, GoesMoves
  <2> QED
    BY <1>1, <1>2, <1>4, <1>6, <2>2 DEF Effect, Turns
<1>7. CASE row[j] \notin Terminal /\ at[j] = "recheck" /\ Proceeds(j)
  BY <1>1, <1>2, <1>4, <1>7, ProceedsMoves DEF Effect, Turns
<1>8. CASE row[j] \notin Terminal /\ at[j] = "last check" /\ Returns(j)
  BY <1>1, <1>2, <1>3, <1>4, <1>8, ReturnsMoves DEF Effect, Turns
<1> QED
  BY <1>5, <1>6, <1>7, <1>8 DEF ReadsRow

LEMMA MarksRunningEffect == ASSUME IInv, NEW j \in Jobs, MarksRunning(j) PROVE Effect(j)
<1>1. /\ at[j] \in {"mark", "mark save"}
      /\ UNCHANGED <<plan, cancelling, startup, picture, crashes>>
  BY DEF MarksRunning
<1>2. Awaits(j) /\ row \in [Jobs -> Statuses] /\ faults \in 0..MaxFaults /\ picture \subseteq Jobs
  BY <1>1, InvSound DEF Awaits, IInv, TypeOK
<1>3. at[j] = "mark" /\ j \notin aborted => j \in slots /\ mem[j] \in Open
  BY DEF IInv, JobInv
<1>4. faults' \in 0..MaxFaults /\ (faults' = 0 => faults = 0)
  BY <1>2, FaultType DEF MarksRunning
<1>5. CASE UNCHANGED row /\ Throws(j)
  BY <1>1, <1>2, <1>4, <1>5, ThrowsMoves DEF Effect, Turns
<1>6. ASSUME Write(j, "running")
      PROVE  /\ row' \in [Jobs -> Statuses] /\ \A i \in Jobs \ {j} : row'[i] = row[i]
             /\ row'[j] = row[j] \/ (row[j] \notin Terminal /\ row'[j] = "running")
  <2>1. "running" \in Statuses
    BY DEF Statuses, Open
  <2> QED
    BY <1>2, <1>6, <2>1, WriteType
<1>7. CASE Write(j, "running") /\ at[j] = "mark" /\ Goes(j, "prepare")
  <2>1. "prepare" \in Places \ {"queue"} /\ "prepare" \notin Idle
    BY DEF Places, Idle
  <2>2. Moved(j) /\ at'[j] = "prepare" /\ UNCHANGED <<mem, slots, aborted>>
    BY <1>2, <1>7, <2>1, GoesMoves DEF Goes
  <2> QED
    BY <1>1, <1>2, <1>3, <1>4, <1>6, <1>7, <2>2 DEF Effect, Turns
<1>8. CASE Write(j, "running") /\ at[j] = "mark save" /\ Proceeds(j)
  BY <1>1, <1>2, <1>4, <1>6, <1>8, ProceedsMoves DEF Effect, Turns
<1> QED
  BY <1>1, <1>5, <1>7, <1>8 DEF MarksRunning

LEMMA PreparesEffect == ASSUME IInv, NEW j \in Jobs, Prepares(j) PROVE Effect(j)
<1>1. /\ at[j] \in {"prepare", "prepare unmarked"}
      /\ UNCHANGED <<plan, row, cancelling, startup, picture, faults, crashes>>
  BY DEF Prepares
<1>2. Awaits(j) /\ row \in [Jobs -> Statuses] /\ faults \in 0..MaxFaults /\ picture \subseteq Jobs
  BY <1>1, InvSound DEF Awaits, IInv, TypeOK
<1>3. CASE j \notin aborted /\ Goes(j, "gpu")
  <2>1. "gpu" \in Places \ {"queue"} /\ "gpu" \notin Idle
    BY DEF Places, Idle
  <2>2. Moved(j) /\ at'[j] = "gpu"
    BY <1>2, <1>3, <2>1, GoesMoves
  <2>3. at[j] = "prepare" => mem[j] \in Open
    BY <1>3 DEF IInv, JobInv
  <2> QED
    BY <1>1, <1>2, <2>2, <2>3 DEF Effect, Turns
<1>4. CASE Throws(j)
  BY <1>1, <1>2, <1>4, ThrowsMoves DEF Effect, Turns
<1> QED
  BY <1>3, <1>4 DEF Prepares

LEMMA GpuEndsEffect == ASSUME IInv, NEW j \in Jobs, GpuEnds(j) PROVE Effect(j)
<1>1. at[j] = "gpu" /\ UNCHANGED <<plan, row, cancelling, startup, picture, faults, crashes>>
  BY DEF GpuEnds
<1>2. Awaits(j) /\ row \in [Jobs -> Statuses] /\ faults \in 0..MaxFaults /\ picture \subseteq Jobs
  BY <1>1, InvSound DEF Awaits, IInv, TypeOK
<1>3. CASE Goes(j, "image")
  <2>1. "image" \in Places \ {"queue"} /\ "image" \notin Idle
    BY DEF Places, Idle
  <2>2. Moved(j) /\ at'[j] = "image"
    BY <1>2, <1>3, <2>1, GoesMoves
  <2> QED
    BY <1>1, <1>2, <2>2 DEF Effect, Turns
<1>4. CASE Throws(j)
  BY <1>1, <1>2, <1>4, ThrowsMoves DEF Effect, Turns
<1> QED
  BY <1>3, <1>4 DEF GpuEnds

LEMMA ImageReadEffect == ASSUME IInv, NEW j \in Jobs, ImageRead(j) PROVE Effect(j)
<1>1. at[j] = "image" /\ UNCHANGED <<plan, row, cancelling, startup, picture, faults, crashes>>
  BY DEF ImageRead
<1>2. Awaits(j) /\ row \in [Jobs -> Statuses] /\ faults \in 0..MaxFaults /\ picture \subseteq Jobs
  BY <1>1, InvSound DEF Awaits, IInv, TypeOK
<1>3. ASSUME NEW p \in {"recheck", "mark save"}, Goes(j, p)
      PROVE  Effect(j)
  <2>1. p \in Places \ {"queue"} /\ p \notin Idle
    BY DEF Places, Idle
  <2>2. Moved(j) /\ at'[j] = p
    BY <1>2, <1>3, <2>1, GoesMoves
  <2> QED
    BY <1>1, <1>2, <2>2 DEF Effect, Turns
<1>4. CASE Throws(j)
  BY <1>1, <1>2, <1>4, ThrowsMoves DEF Effect, Turns
<1> QED
  BY <1>3, <1>4 DEF ImageRead

LEMMA SavesEffect == ASSUME IInv, NEW j \in Jobs, Saves(j) PROVE Effect(j)
<1>1. at[j] = "save" /\ UNCHANGED <<plan, row, cancelling, startup, faults, crashes>>
  BY DEF Saves
<1>2. Awaits(j) /\ row \in [Jobs -> Statuses] /\ faults \in 0..MaxFaults /\ picture \subseteq Jobs
  BY <1>1, InvSound DEF Awaits, IInv, TypeOK
<1>3. CASE picture' = picture \cup {j} /\ FinalCheck(j)
  BY <1>1, <1>2, <1>3, FinalCheckMoves DEF Effect, Turns
<1>4. CASE UNCHANGED picture /\ Throws(j)
  BY <1>1, <1>2, <1>4, ThrowsMoves DEF Effect, Turns
<1> QED
  BY <1>3, <1>4 DEF Saves

LEMMA FinishesEffect == ASSUME IInv, NEW j \in Jobs, Finishes(j) PROVE Effect(j)
<1>1. at[j] = "finish" /\ UNCHANGED <<plan, cancelling, startup, picture, crashes>>
  BY DEF Finishes
<1>2. Awaits(j) /\ row \in [Jobs -> Statuses] /\ faults \in 0..MaxFaults /\ picture \subseteq Jobs
  BY <1>1, InvSound DEF Awaits, IInv, TypeOK
<1>3. j \notin slots /\ mem[j] = "succeeded" /\ (kind[j] = "sync" => j \in picture)
  BY <1>1 DEF IInv, JobInv, Busy, Idle
<1>4. faults' \in 0..MaxFaults /\ (faults' = 0 => faults = 0)
  BY <1>2, FaultType DEF Finishes
<1>5. ASSUME NEW p \in {"none", "later save"}, Goes(j, p)
      PROVE  Moved(j) /\ at'[j] = p /\ UNCHANGED mem
  <2>1. p \in Places \ {"queue"}
    BY DEF Places
  <2> QED
    BY <1>2, <1>3, <1>5, <2>1, GoesMoves
<1>6. CASE Write(j, "succeeded") /\ Goes(j, AfterSuccess(j))
  <2>1. AfterSuccess(j) \in {"none", "later save"}
    BY DEF AfterSuccess
  <2>2. Moved(j) /\ at'[j] \in {"none", "later save"} /\ UNCHANGED mem
    BY <1>5, <1>6, <2>1
  <2>3. "succeeded" \in Statuses
    BY DEF Statuses, Terminal
  <2>4. /\ row' \in [Jobs -> Statuses] /\ \A i \in Jobs \ {j} : row'[i] = row[i]
        /\ row'[j] = row[j] \/ row'[j] = "succeeded"
        /\ row'[j] \in Terminal
    BY <1>2, <1>6, <2>3, WriteType DEF Terminal
  <2> QED
    BY <1>1, <1>2, <1>3, <1>4, <2>2, <2>4 DEF Effect, Turns
<1>7. CASE Fault /\ UNCHANGED row /\ Goes(j, "none")
  <2>1. Moved(j) /\ at'[j] = "none" /\ UNCHANGED mem
    BY <1>5, <1>7
  <2>2. faults' # 0
    BY <1>2, <1>7, FaultType
  <2> QED
    BY <1>1, <1>2, <1>4, <1>7, <2>1, <2>2 DEF Effect, Turns
<1> QED
  BY <1>6, <1>7 DEF Finishes

LEMMA SavesLaterEffect == ASSUME IInv, NEW j \in Jobs, SavesLater(j) PROVE Effect(j)
<1>1. /\ at[j] = "later save" /\ Goes(j, "none")
      /\ picture' = picture \cup {j} \/ UNCHANGED picture
      /\ UNCHANGED <<plan, row, cancelling, startup, faults, crashes>>
  BY DEF SavesLater
<1>2. Awaits(j) /\ row \in [Jobs -> Statuses] /\ faults \in 0..MaxFaults /\ picture \subseteq Jobs
  BY <1>1, InvSound DEF Awaits, IInv, TypeOK
<1>3. j \notin slots /\ "none" \in Places \ {"queue"}
  BY <1>1 DEF IInv, Busy, Idle, Places
<1>4. Moved(j) /\ at'[j] = "none"
  BY <1>1, <1>2, <1>3, GoesMoves
<1> QED
  BY <1>1, <1>2, <1>4 DEF Effect, Turns

LEMMA HardTimeoutEffect == ASSUME IInv, NEW j \in Jobs, HardTimeout(j) PROVE Effect(j)
<1> DEFINE m == FailedIn(mem, j)
           b == aborted \cup {j}
<1>1. /\ j \in slots /\ Release(j, at, m, b) /\ failing' = StillFailing(j)
      /\ UNCHANGED <<plan, row, cancelling, startup, picture, faults, crashes>>
  BY DEF HardTimeout
<1>2. at[j] \notin Idle
  BY <1>1 DEF IInv, Busy
<1>3. /\ Awaits(j) /\ row \in [Jobs -> Statuses] /\ faults \in 0..MaxFaults
      /\ picture \subseteq Jobs
  BY <1>1, <1>2, InvSound DEF Awaits, IInv, TypeOK, Idle
<1>4. mem \in [Jobs -> Statuses] /\ at \in [Jobs -> Places] /\ aborted \in SUBSET Jobs
  BY <1>3 DEF Awaits, Sound, QueueType
<1>5. /\ m \in [Jobs -> Statuses] /\ m[j] = IF mem[j] \in Terminal THEN mem[j] ELSE "failed"
      /\ \A i \in Jobs \ {j} : m[i] = mem[i]
  BY <1>4, FailedInType
<1>6. b \in SUBSET Jobs /\ j \in b /\ \A i \in Jobs \ {j} : i \in b <=> i \in aborted
  BY <1>4
<1> HIDE DEF m, b
<1>7. /\ QueueType' /\ QueueInv' /\ Others(j)
      /\ at'[j] = at[j] /\ mem'[j] = m[j] /\ j \in aborted'
  BY <1>1, <1>2, <1>3, <1>4, <1>5, <1>6, ReleaseEffect DEF Awaits, Idle
<1>8. Changed(j)
  BY <1>5, <1>7 DEF Changed, Terminal
<1>9. Noted(j)
  BY <1>1, <1>3, <1>5, <1>7 DEF Noted, StillFailing, Awaits
<1>10. Moved(j)
  <2>1. Handed(j)
    BY <1>1, <1>5, <1>7 DEF Handed, StillFailing, Open, Terminal
  <2> QED
    BY <1>7, <1>8, <1>9, <2>1 DEF Moved
<1>11. at[j] = "last check" /\ kind[j] = "sync" => j \in picture
  BY DEF IInv, JobInv
<1> QED
  BY <1>1, <1>2, <1>3, <1>7, <1>10, <1>11 DEF Effect, Turns, Idle

LEMMA LengthOf ==
  ASSUME NEW n \in Nat, NEW r \in Seq(Jobs), r \in [1..n -> Jobs]
  PROVE  Len(r) = n
<1>1. Len(r) \in Nat /\ DOMAIN r = 1..Len(r)
  BY LenProperties
<1>2. 1..Len(r) = 1..n
  BY <1>1
<1>3. \A x \in Nat : x \in 1..Len(r) <=> x \in 1..n
  BY <1>2
<1> QED
  BY <1>1, <1>3

(* The rest of the queue when its entry i has left it.                     *)
LEMMA WithoutEntry ==
  ASSUME NEW q \in Seq(Jobs), NEW i \in 1..Len(q), NEW p \in [Jobs -> Places], Lined(q, p)
  PROVE  LET rest == [k \in 1..(Len(q) - 1) |-> q[IF k < i THEN k ELSE k + 1]]
         IN  rest \in Seq(Jobs) /\ Lined(rest, [p EXCEPT ![q[i]] = "none"])
<1> DEFINE n == Len(q) - 1
           from(k) == IF k < i THEN k ELSE k + 1
           rest == [k \in 1..n |-> q[from(k)]]
           p2 == [p EXCEPT ![q[i]] = "none"]
<1>1. n \in Nat /\ i \in 1..(n + 1) /\ Len(q) = n + 1 /\ q[i] \in Jobs
  BY ElementOfSeq
<1> HIDE DEF n
<1>2. \A k \in 1..n : from(k) \in 1..Len(q) /\ from(k) # i
  BY <1>1
<1>3. \A k \in 1..n : q[from(k)] \in Jobs
  BY <1>2, ElementOfSeq
<1>4. rest \in [1..n -> Jobs]
  BY <1>3
<1>5. rest \in Seq(Jobs)
  BY <1>1, <1>4, SeqDef
<1>6. Len(rest) = n
  BY <1>1, <1>4, <1>5, LengthOf
<1>7. \A k \in 1..n : rest[k] = q[from(k)]
  OBVIOUS
<1>8. p2[q[i]] = "none" /\ \A j \in Jobs \ {q[i]} : p2[j] = p[j]
  BY <1>1
<1> HIDE DEF rest, p2
<1>9. ASSUME NEW j \in Jobs, p2[j] = "queue"
      PROVE  \E k \in 1..n : rest[k] = j
  <2>1. j # q[i] /\ p[j] = "queue"
    BY <1>8, <1>9
  <2>2. PICK h \in 1..Len(q) : q[h] = j
    BY <2>1 DEF Lined
  <2>3. h # i
    BY <2>1, <2>2
  <2>4. CASE h < i
    <3>1. h \in 1..n /\ from(h) = h
      BY <1>1, <2>4
    <3> QED
      BY <1>7, <2>2, <3>1
  <2>5. CASE h > i
    <3>1. h - 1 \in 1..n /\ from(h - 1) = h
      BY <1>1, <2>5
    <3> QED
      BY <1>7, <2>2, <3>1
  <2> QED
    BY <2>3, <2>4, <2>5, <1>1
<1>10. ASSUME NEW j \in Jobs, NEW k \in 1..n, rest[k] = j
       PROVE  p2[j] = "queue"
  <2>1. q[from(k)] = j
    BY <1>7, <1>10
  <2>2. j # q[i]
    BY <1>2, <2>1 DEF Lined
  <2>3. p[j] = "queue"
    BY <1>2, <2>1 DEF Lined
  <2> QED
    BY <1>8, <2>2, <2>3
<1>11. ASSUME NEW k \in 1..n, NEW h \in 1..n, rest[k] = rest[h]
       PROVE  k = h
  <2>1. from(k) = from(h)
    BY <1>2, <1>7, <1>11 DEF Lined
  <2> QED
    BY <1>1, <2>1
<1>12. Lined(rest, p2)
  BY <1>6, <1>9, <1>10, <1>11 DEF Lined
<1> QED
  BY <1>5, <1>12 DEF rest, p2, n

LEMMA QueueTimeoutEffect == ASSUME IInv, NEW j \in Jobs, QueueTimeout(j) PROVE Effect(j)
<1>1. /\ at[j] = "queue" /\ at' = [at EXCEPT ![j] = "none"]
      /\ mem' = FailedIn(mem, j) /\ failing' = StillFailing(j)
      /\ UNCHANGED <<plan, row, active, slots, aborted, cancelling, startup, picture,
                     faults, crashes>>
  BY DEF QueueTimeout
<1>2. /\ Sound /\ row \in [Jobs -> Statuses] /\ faults \in 0..MaxFaults /\ picture \subseteq Jobs
      /\ failing \subseteq Jobs
  BY <1>1, InvSound DEF IInv, TypeOK
<1>3. /\ mem \in [Jobs -> Statuses] /\ at \in [Jobs -> Places] /\ queue \in Seq(Jobs)
      /\ Lined(queue, at) /\ Busy(slots, at)
  BY <1>2, SoundLined DEF Sound, QueueType
<1>4. PICK i \in 1..Len(queue) :
        /\ queue[i] = j
        /\ queue' = [k \in 1..(Len(queue) - 1) |-> queue[IF k < i THEN k ELSE k + 1]]
  BY DEF QueueTimeout
<1>5. queue' \in Seq(Jobs) /\ Lined(queue', at')
  BY <1>1, <1>3, <1>4, WithoutEntry
<1>6. at'[j] = "none" /\ at' \in [Jobs -> Places] /\ \A h \in Jobs \ {j} : at'[h] = at[h]
  BY <1>1, <1>3 DEF Places
<1>7. /\ mem' \in [Jobs -> Statuses] /\ \A h \in Jobs \ {j} : mem'[h] = mem[h]
      /\ mem'[j] = IF mem[j] \in Terminal THEN mem[j] ELSE "failed"
  BY <1>1, <1>3, FailedInType
<1>8. QueueType'
  BY <1>1, <1>2, <1>5, <1>6, <1>7 DEF Sound, QueueType
<1>9. Busy(slots', at')
  BY <1>1, <1>2, <1>3, <1>6 DEF Busy, Idle, Sound, QueueType
<1>10. QueueInv'
  BY <1>1, <1>2, <1>5, <1>9 DEF Sound, QueueInv, SlotsTrue, Lined
<1>11. Others(j)
  BY <1>1, <1>6, <1>7 DEF Others, Remains
<1>12. Changed(j) /\ Noted(j) /\ Handed(j)
  BY <1>1, <1>2, <1>7 DEF Changed, Noted, Handed, StillFailing, Open, Terminal
<1> QED
  BY <1>1, <1>2, <1>6, <1>8, <1>10, <1>11, <1>12 DEF Effect, Turns, Moved

-----------------------------------------------------------------------------
(* Every step keeps the invariant.                                         *)

(* A step of another job keeps what holds of i, whether the queue starts i *)
(* in it or not.                                                           *)
LEMMA OtherKept ==
  ASSUME NEW j \in Jobs, NEW i \in Jobs \ {j}, JobInv(i), Others(j),
         row'[i] = row[i], UNCHANGED plan, picture \subseteq picture',
         i \in failing' => i \in failing, cancelling' = cancelling, faults' = 0 => faults = 0,
         i \in todo' => i \in todo, recovery' = "list" => recovery = "list",
         recovery = "done" => recovery' = "done"
  PROVE  JobInv(i)'
<1>1. kind' = kind /\ (Begins(i, at, mem) \/ Remains(i, at, mem, slots, aborted))
  BY DEF plan, Others
<1>2. CASE Begins(i, at, mem)
  BY <1>1, <1>2 DEF JobInv, Begins, Open, Terminal
<1>3. CASE Remains(i, at, mem, slots, aborted)
  BY <1>1, <1>3 DEF JobInv, Remains
<1> QED
  BY <1>1, <1>2, <1>3

LEMMA OwnKept ==
  ASSUME IInv, NEW j \in Jobs, Effect(j), at[j] # "none"
  PROVE  JobInv(j)'
<1>1. JobInv(j) /\ mem[j] # "none" /\ row[j] # "none"
  BY DEF IInv, JobInv
<1>2. kind' = kind /\ UNCHANGED <<cancelling, recovery, todo>>
  BY DEF Effect, plan, startup
<1>3. mem'[j] # "none" /\ (mem[j] \in Terminal => mem'[j] = mem[j])
  BY <1>1 DEF Effect, Moved, Changed, Terminal
<1>4. j \in failing' => mem'[j] = "failed"
  BY <1>1, <1>3 DEF Effect, Moved, Noted, JobInv, Terminal
<1>5. row'[j] \in Terminal => row'[j] = row[j] \/ (row'[j] = "succeeded" /\ mem'[j] = "succeeded")
  BY DEF Effect, Terminal
<1>6. row'[j] # "none"
  BY <1>1 DEF Effect
<1>7. row'[j] = "succeeded" => /\ mem'[j] \in {"none", "succeeded"}
                               /\ kind'[j] = "sync" => j \in picture'
  BY <1>1, <1>2, <1>3, <1>5 DEF JobInv, Effect, Terminal
<1>8. row'[j] \in Terminal /\ mem'[j] # "none" => mem'[j] \in Terminal
  BY <1>1, <1>3, <1>5 DEF JobInv, Terminal
<1>9. at'[j] \in {"mark", "prepare"} /\ j \notin aborted' => j \in slots' /\ mem'[j] \in Open
  BY DEF Effect
<1>10. /\ at'[j] = "finish" => mem'[j] = "succeeded"
       /\ at'[j] \in {"finish", "last check"} /\ kind'[j] = "sync" => j \in picture'
  BY <1>2 DEF Effect
<1>11. j \in cancelling' => /\ row'[j] # "none" /\ mem'[j] \in Terminal \cup {"none"}
                            /\ recovery' = "done"
  BY <1>1, <1>2, <1>3, <1>6 DEF JobInv
<1>12. j \notin todo' /\ recovery' # "list"
  BY <1>1, <1>2 DEF JobInv
<1>13. at'[j] # "queue" /\ (at'[j] \in {"check", "prepare unmarked"} => mem'[j] = "cancelled")
  BY <1>1, <1>3 DEF JobInv, Effect, Turns, Terminal
<1>14. mem'[j] = "cancelled" /\ row'[j] \in Open => j \in cancelling' \/ faults' # 0
  <2>1. mem'[j] = "cancelled" => mem[j] = "cancelled"
    BY DEF Effect, Moved, Changed
  <2>2. row'[j] \in Open => row[j] \notin Terminal
    BY DEF Effect, Open, Terminal
  <2>3. row[j] \notin Terminal => row[j] \in Open
    BY <1>1, InvSound DEF IInv, TypeOK, Statuses
  <2> QED
    BY <1>1, <1>2, <2>1, <2>2, <2>3 DEF JobInv, Effect
<1> QED
  BY <1>3, <1>4, <1>6, <1>7, <1>8, <1>9, <1>10, <1>11, <1>12, <1>13, <1>14 DEF JobInv

LEMMA EffectKept ==
  ASSUME IInv, NEW j \in Jobs, Effect(j), at[j] # "none"
  PROVE  IInv'
<1>1. /\ UNCHANGED <<plan, limits, kind, cancelling, recovery, todo, skipped, crashes>>
      /\ QueueType' /\ QueueInv' /\ failing' \subseteq Jobs /\ picture' \subseteq Jobs
      /\ row' \in [Jobs -> Statuses] /\ faults' \in 0..MaxFaults
  BY DEF Effect, Moved, Noted, plan, startup
<1>2. TypeOK'
  BY <1>1 DEF IInv, TypeOK, QueueType, Statuses
<1>3. Busy(slots', at') /\ SlotsTrue'
  BY <1>1 DEF QueueInv
<1>4. ASSUME NEW i \in Jobs \ {j}
      PROVE  JobInv(i)'
  <2>1. /\ JobInv(i) /\ Others(j) /\ row'[i] = row[i] /\ picture \subseteq picture'
        /\ faults' = 0 => faults = 0
    BY DEF IInv, Effect, Moved
  <2>2. i \in failing' => i \in failing
    BY DEF Effect, Moved, Noted
  <2> QED
    BY <1>1, <2>1, <2>2, OtherKept
<1>5. JobInv(j)'
  BY OwnKept
<1> QED
  BY <1>2, <1>3, <1>4, <1>5 DEF IInv

LEMMA FunctionStepKept ==
  ASSUME IInv, NEW j \in Jobs, FunctionStep(j) \/ QueueTimeout(j) \/ HardTimeout(j)
  PROVE  Effect(j) /\ at[j] # "none"
<1>1. Effect(j)
  BY ReadsRowEffect, MarksRunningEffect, PreparesEffect, GpuEndsEffect, ImageReadEffect, SavesEffect,
     FinishesEffect, SavesLaterEffect, QueueTimeoutEffect, HardTimeoutEffect
  DEF FunctionStep
<1>2. HardTimeout(j) => at[j] # "none"
  BY DEF HardTimeout, IInv, Busy, Idle
<1>3. at[j] # "none"
  BY <1>2 DEF FunctionStep, ReadsRow, MarksRunning, Prepares, GpuEnds, ImageRead, Saves, Finishes,
              SavesLater, QueueTimeout
<1> QED
  BY <1>1, <1>3

(* Where a job is that was queued.                                         *)
Before == {"none", "queue", "mark"}

(* A job that is new, or was found by the recovery, is queued.             *)
LEMMA EnqueueKept ==
  ASSUME IInv, NEW j \in Jobs, mem[j] = "none", Enqueue(j), UNCHANGED <<plan, picture, cancelling, faults>>,
         row'[j] = "queued", \A i \in Jobs \ {j} : row'[i] = row[i],
         recovery # "list", recovery' # "list", recovery = "done" => recovery' = "done",
         todo' \subseteq todo \ {j}, j \notin cancelling
  PROVE  QueueType' /\ QueueInv' /\ Others(j) /\ at'[j] \in Before /\ failing' \subseteq Jobs
         /\ \A i \in Jobs : JobInv(i)'
<1>1. Sound /\ failing \subseteq Jobs
  BY InvSound
<1>2. at[j] = "none" /\ j \notin failing
  BY DEF IInv, JobInv
<1>3. /\ QueueType' /\ QueueInv' /\ Others(j)
      /\ \/ mem'[j] = "failed" /\ at'[j] = "none" /\ failing' = failing \cup {j}
         \/ mem'[j] = "queued" /\ at'[j] = "queue" /\ failing' = failing
         \/ mem'[j] = "running" /\ at'[j] = "mark" /\ j \in slots' /\ failing' = failing
  BY <1>1, <1>2, EnqueueEffect
<1>4. failing' \subseteq Jobs /\ failing' \subseteq failing \cup {j}
  BY <1>1, <1>3
<1>5. ASSUME NEW i \in Jobs \ {j}
      PROVE  JobInv(i)'
  <2>1. JobInv(i) /\ Others(j) /\ row'[i] = row[i] /\ picture \subseteq picture'
    BY <1>3 DEF IInv
  <2>2. i \in failing' => i \in failing
    BY <1>4
  <2> QED
    BY <2>1, <2>2, OtherKept
<1>6. JobInv(j)'
  BY <1>2, <1>3 DEF JobInv, Open, Terminal
<1> QED
  BY <1>3, <1>4, <1>5, <1>6 DEF Before

LEMMA SubmitEffect ==
  ASSUME IInv, NEW j \in Jobs, Submit(j)
  PROVE  IInv' /\ Others(j) /\ at'[j] \in Before
<1>1. /\ recovery = "done" /\ row[j] = "none" /\ row' = [row EXCEPT ![j] = "queued"]
      /\ Enqueue(j)
      /\ UNCHANGED <<plan, cancelling, startup, picture, faults, crashes>>
  BY DEF Submit
<1>2. row \in [Jobs -> Statuses] /\ todo = {} /\ mem[j] = "none" /\ j \notin cancelling
  BY <1>1 DEF IInv, TypeOK, JobInv, Statuses
<1>3. /\ row' \in [Jobs -> Statuses] /\ row'[j] = "queued"
      /\ \A i \in Jobs \ {j} : row'[i] = row[i]
  BY <1>1, <1>2 DEF Statuses, Open
<1>4. UNCHANGED <<recovery, todo, skipped>>
  BY <1>1 DEF startup
<1>5. /\ QueueType' /\ QueueInv' /\ Others(j) /\ at'[j] \in Before /\ failing' \subseteq Jobs
      /\ \A i \in Jobs : JobInv(i)'
  BY <1>1, <1>2, <1>3, <1>4, EnqueueKept
<1>6. TypeOK'
  BY <1>1, <1>3, <1>4, <1>5 DEF IInv, TypeOK, QueueType, Statuses, plan
<1> QED
  BY <1>5, <1>6 DEF IInv, QueueInv

(* Steps that leave the process alone.                                     *)
LEMMA ProcessAlone ==
  ASSUME IInv, UNCHANGED <<plan, process>>
  PROVE  /\ UNCHANGED <<limits, kind, mem, queue, active, slots, at, aborted>>
         /\ QueueType' /\ Busy(slots, at)' /\ SlotsTrue'
<1>1. UNCHANGED <<limits, kind, mem, queue, active, slots, at, aborted>>
  BY DEF plan, process
<1> QED
  BY <1>1 DEF IInv, TypeOK, QueueType, SlotsTrue, Busy, Statuses

LEMMA FailureArrivesKept == ASSUME IInv, NEW j \in Jobs, FailureArrives(j) PROVE IInv'
<1>1. /\ j \in failing /\ failing' = failing \ {j}
      /\ UNCHANGED <<plan, process, cancelling, startup, picture, crashes>>
  BY DEF FailureArrives
<1>2. row \in [Jobs -> Statuses] /\ faults \in 0..MaxFaults /\ "failed" \in Statuses
  BY InvSound DEF IInv, TypeOK, Statuses, Terminal
<1>3. /\ row' \in [Jobs -> Statuses] /\ faults' \in 0..MaxFaults
      /\ \A i \in Jobs \ {j} : row'[i] = row[i]
      /\ row'[j] = row[j] \/ row'[j] = "failed"
      /\ faults' = 0 => faults = 0
  BY <1>2, WriteType, FaultType DEF FailureArrives
<1>4. /\ UNCHANGED <<limits, kind, mem, queue, active, slots, at, aborted>>
      /\ QueueType' /\ Busy(slots, at)' /\ SlotsTrue'
      /\ UNCHANGED <<recovery, todo, skipped>>
  BY <1>1, ProcessAlone DEF startup
<1>5. TypeOK'
  BY <1>1, <1>3, <1>4 DEF IInv, TypeOK, QueueType, Statuses
<1>6. ASSUME NEW i \in Jobs
      PROVE  JobInv(i)'
  <2>1. JobInv(i)
    BY DEF IInv
  <2>2. CASE i = j
    BY <1>1, <1>3, <1>4, <2>1, <2>2 DEF JobInv, Open, Terminal
  <2>3. CASE i # j
    BY <1>1, <1>3, <1>4, <2>1, <2>3 DEF JobInv
  <2> QED
    BY <2>2, <2>3
<1> QED
  BY <1>4, <1>5, <1>6 DEF IInv

LEMMA CancelArrivesKept == ASSUME IInv, NEW j \in Jobs, CancelArrives(j) PROVE IInv'
<1>1. /\ j \in cancelling /\ cancelling' = cancelling \ {j}
      /\ UNCHANGED <<plan, process, failing, startup, picture, crashes>>
  BY DEF CancelArrives
<1>2. row \in [Jobs -> Statuses] /\ faults \in 0..MaxFaults /\ "cancelled" \in Statuses
  BY InvSound DEF IInv, TypeOK, Statuses, Terminal
<1>3. /\ row' \in [Jobs -> Statuses] /\ faults' \in 0..MaxFaults
      /\ \A i \in Jobs \ {j} : row'[i] = row[i]
      /\ row'[j] = row[j] \/ row'[j] = "cancelled"
      /\ faults' = 0 => faults = 0 /\ row'[j] \in Terminal
  BY <1>2, WriteType, FaultType DEF CancelArrives, Terminal
<1>4. /\ UNCHANGED <<limits, kind, mem, queue, active, slots, at, aborted>>
      /\ QueueType' /\ Busy(slots, at)' /\ SlotsTrue'
      /\ UNCHANGED <<recovery, todo, skipped>>
  BY <1>1, ProcessAlone DEF startup
<1>5. TypeOK'
  BY <1>1, <1>3, <1>4 DEF IInv, TypeOK, QueueType, Statuses
<1>6. recovery = "done" /\ todo = {}
  BY <1>1 DEF IInv, TypeOK, JobInv
<1>7. ASSUME NEW i \in Jobs
      PROVE  JobInv(i)'
  <2>1. JobInv(i)
    BY DEF IInv
  <2>2. CASE i = j
    BY <1>1, <1>3, <1>4, <1>6, <2>1, <2>2 DEF JobInv, Open, Terminal
  <2>3. CASE i # j
    BY <1>1, <1>3, <1>4, <2>1, <2>3 DEF JobInv
  <2> QED
    BY <2>2, <2>3
<1> QED
  BY <1>4, <1>5, <1>7 DEF IInv

LEMMA CancelKept == ASSUME IInv, NEW j \in Jobs, Cancel(j) PROVE IInv' /\ at' = at
<1>1. /\ recovery = "done" /\ row[j] \in Open /\ cancelling' = cancelling \cup {j}
      /\ UNCHANGED <<plan, row, queue, active, slots, at, failing, startup, picture,
                     faults, crashes>>
  BY DEF Cancel
<1>2. UNCHANGED <<limits, kind, recovery, todo, skipped>>
  BY <1>1 DEF plan, startup
<1>3. mem \in [Jobs -> Statuses] /\ aborted \subseteq Jobs
  BY DEF IInv, TypeOK, Statuses
<1>4. /\ mem' \in [Jobs -> Statuses] /\ \A i \in Jobs \ {j} : mem'[i] = mem[i]
      /\ mem'[j] = IF mem[j] \in Open THEN "cancelled" ELSE mem[j]
      /\ aborted \subseteq aborted' /\ aborted' \subseteq aborted \cup {j}
      /\ mem[j] \in Open /\ j \in slots => j \in aborted'
  BY <1>3 DEF Cancel, Statuses, Terminal
<1>5. TypeOK'
  BY <1>1, <1>2, <1>3, <1>4 DEF IInv, TypeOK, Statuses
<1>6. Busy(slots, at)' /\ SlotsTrue'
  BY <1>1, <1>2 DEF IInv, Busy, SlotsTrue
<1>7. ASSUME NEW i \in Jobs \ {j}
      PROVE  JobInv(i)'
  BY <1>1, <1>2, <1>4 DEF IInv, JobInv
<1>8. JobInv(j)'
  <2>1. JobInv(j) /\ mem[j] \in Statuses
    BY <1>3 DEF IInv
  <2> QED
    BY <1>1, <1>2, <1>4, <2>1 DEF JobInv, Statuses, Open, Terminal
<1> QED
  BY <1>1, <1>5, <1>6, <1>7, <1>8 DEF IInv

(* Nothing waits, holds a place or runs.                                   *)
LEMMA EmptyProcess ==
  /\ \A s : s = {} => Cardinality(s) = 0
  /\ <<>> \in Seq(Jobs) /\ Len(<<>>) = 0
  /\ \A c \in Limits : c.concurrency \in Nat /\ 0 <= c.concurrency
BY UpscaleAssumption, FS_EmptySet

LEMMA RestartKept == ASSUME IInv, Restart PROVE IInv' /\ \A j \in Jobs : at'[j] = "none"
<1>1. /\ mem' = [j \in Jobs |-> "none"] /\ at' = [j \in Jobs |-> "none"]
      /\ queue' = <<>> /\ active' = 0 /\ slots' = {} /\ aborted' = {}
      /\ failing' = {} /\ cancelling' = {} /\ recovery' = "list" /\ todo' = {}
      /\ UNCHANGED <<plan, row, skipped, picture, faults>>
  BY DEF Restart
<1>2. crashes' \in 0..MaxCrashes
  BY UpscaleAssumption DEF Restart, IInv, TypeOK
<1>3. limits' = limits /\ kind' = kind /\ limits \in Limits
  BY <1>1 DEF plan, IInv, TypeOK
<1>4. TypeOK'
  BY <1>1, <1>2, <1>3, EmptyProcess DEF IInv, TypeOK, Places
<1>5. Busy(slots, at)' /\ SlotsTrue'
  BY <1>1, <1>3, EmptyProcess DEF Busy, SlotsTrue
<1>6. \A j \in Jobs : JobInv(j)'
  BY <1>1, <1>3 DEF IInv, JobInv
<1> QED
  BY <1>1, <1>4, <1>5, <1>6 DEF IInv

LEMMA ListRowsKept == ASSUME IInv, ListRows PROVE IInv' /\ at' = at
<1>1. /\ recovery = "list" /\ todo = {}
      /\ UNCHANGED <<plan, row, process, failing, cancelling, picture, crashes>>
  BY DEF ListRows, IInv, TypeOK
<1>2. /\ recovery' \in {"rows", "done"} /\ (recovery' = "rows" <=> todo' # {})
      /\ todo' \subseteq OpenRows /\ skipped' \subseteq Jobs
  BY <1>1 DEF ListRows, Oldest, OpenRows, IInv, TypeOK
<1>3. faults' \in 0..MaxFaults
  BY InvSound, FaultType DEF ListRows, IInv, TypeOK
<1>4. /\ UNCHANGED <<limits, kind, mem, queue, active, slots, at, aborted>>
      /\ QueueType' /\ Busy(slots, at)' /\ SlotsTrue'
  BY <1>1, ProcessAlone
<1>5. TypeOK'
  BY <1>1, <1>2, <1>3, <1>4 DEF IInv, TypeOK, QueueType, Statuses, OpenRows
<1>6. ASSUME NEW i \in Jobs
      PROVE  JobInv(i)'
  <2>1. JobInv(i) /\ mem[i] = "none" /\ i \notin cancelling
    BY <1>1 DEF IInv, JobInv
  <2> QED
    BY <1>1, <1>2, <1>4, <2>1 DEF JobInv, OpenRows
<1> QED
  BY <1>4, <1>5, <1>6 DEF IInv

LEMMA RecoverRowKept ==
  ASSUME IInv, RecoverRow
  PROVE  IInv' /\ (at' = at \/ \E j \in Jobs : Others(j) /\ at'[j] \in Before)
<1>1. PICK j \in todo :
        \/ /\ Write(j, "queued") /\ Enqueue(j)
           /\ todo' = todo \ {j} /\ UNCHANGED faults
        \/ /\ Write(j, "failed") /\ UNCHANGED <<process, failing>>
           /\ todo' = todo \ {j} /\ UNCHANGED faults
        \/ /\ Fault /\ todo' = {}
           /\ UNCHANGED <<row, process, failing>>
  BY DEF RecoverRow
<1>2. /\ recovery' = IF todo' = {} THEN "done" ELSE "rows"
      /\ UNCHANGED <<plan, cancelling, skipped, picture, crashes>>
  BY DEF RecoverRow
<1>3. /\ j \in Jobs /\ recovery = "rows" /\ todo \subseteq Jobs /\ row[j] \in Open
      /\ mem[j] = "none" /\ row \in [Jobs -> Statuses] /\ faults \in 0..MaxFaults
      /\ \A i \in Jobs : i \notin cancelling
  BY <1>1 DEF IInv, TypeOK, JobInv, Statuses
<1>4. limits' = limits /\ kind' = kind
  BY <1>2 DEF plan
<1>5. todo' \subseteq todo \ {j} /\ recovery' # "list" /\ (recovery' = "rows" <=> todo' # {})
      /\ recovery' \in {"rows", "done"} /\ faults' \in 0..MaxFaults
      /\ (faults' = 0 => faults = 0)
  BY <1>1, <1>2, <1>3, FaultType
<1>6. CASE Write(j, "queued") /\ Enqueue(j) /\ UNCHANGED faults
  <2>1. "queued" \in Statuses /\ row[j] \notin Terminal
    BY <1>3 DEF Statuses, Open, Terminal
  <2>2. /\ row' \in [Jobs -> Statuses] /\ row'[j] = "queued"
        /\ \A i \in Jobs \ {j} : row'[i] = row[i]
    BY <1>3, <1>6, <2>1, WriteType
  <2>3. /\ QueueType' /\ QueueInv' /\ Others(j) /\ at'[j] \in Before /\ failing' \subseteq Jobs
        /\ \A i \in Jobs : JobInv(i)'
    BY <1>2, <1>3, <1>5, <1>6, <2>2, EnqueueKept
  <2>4. TypeOK'
    BY <1>2, <1>3, <1>4, <1>5, <2>2, <2>3 DEF IInv, TypeOK, QueueType, Statuses
  <2> QED
    BY <1>3, <2>3, <2>4 DEF IInv, QueueInv
<1>7. CASE UNCHANGED <<process, failing>> /\ (Write(j, "failed") \/ UNCHANGED row)
  <2>1. "failed" \in Statuses
    BY DEF Statuses, Terminal
  <2>2. /\ row' \in [Jobs -> Statuses]
        /\ row'[j] = row[j] \/ row'[j] = "failed"
        /\ \A i \in Jobs \ {j} : row'[i] = row[i]
    BY <1>3, <1>7, <2>1, WriteType
  <2>3. /\ UNCHANGED <<limits, kind, mem, queue, active, slots, at, aborted>>
        /\ QueueType' /\ Busy(slots, at)' /\ SlotsTrue'
    BY <1>2, <1>7, ProcessAlone
  <2>4. TypeOK'
    <3>1. failing' = failing /\ UNCHANGED <<cancelling, skipped, picture, crashes>>
      BY <1>2, <1>7
    <3>2. todo' \subseteq Jobs
      BY <1>3, <1>5
    <3> QED
      BY <1>5, <2>2, <2>3, <3>1, <3>2 DEF IInv, TypeOK, QueueType, Statuses
  <2>5. ASSUME NEW i \in Jobs
        PROVE  JobInv(i)'
    <3>1. JobInv(i)
      BY DEF IInv
    <3>2. CASE i = j
      BY <1>2, <1>3, <1>5, <1>7, <2>2, <2>3, <3>1, <3>2 DEF JobInv, Terminal, Open
    <3>3. CASE i # j
      BY <1>2, <1>3, <1>5, <1>7, <2>2, <2>3, <3>1, <3>3 DEF JobInv
    <3> QED
      BY <3>2, <3>3
  <2> QED
    BY <2>3, <2>4, <2>5 DEF IInv
<1> QED
  BY <1>1, <1>6, <1>7

LEMMA InitInv == Init => IInv
<1> SUFFICES ASSUME Init PROVE IInv
  OBVIOUS
<1>1. TypeOK
  BY UpscaleAssumption, EmptyProcess DEF Init, TypeOK, Places
<1>2. Busy(slots, at) /\ SlotsTrue
  BY EmptyProcess DEF Init, Busy, SlotsTrue
<1>3. \A j \in Jobs : JobInv(j)
  BY DEF Init, JobInv, Open, Terminal
<1> QED
  BY <1>1, <1>2, <1>3 DEF IInv

LEMMA StutterKept == ASSUME IInv, UNCHANGED vars PROVE IInv'
<1>1. UNCHANGED <<plan, limits, kind, row, mem, queue, active, slots, at, aborted, process,
                  failing, cancelling, recovery, todo, skipped, picture, faults, crashes>>
  BY DEF vars, plan, process, startup
<1>2. QueueType' /\ Busy(slots, at)' /\ SlotsTrue'
  BY <1>1, ProcessAlone
<1>3. TypeOK'
  BY <1>1, <1>2 DEF IInv, TypeOK, QueueType, Statuses
<1>4. \A j \in Jobs : JobInv(j)'
  BY <1>1 DEF IInv, JobInv
<1> QED
  BY <1>2, <1>3, <1>4 DEF IInv

LEMMA NextInv == IInv /\ [Next]_vars => IInv'
<1> SUFFICES ASSUME IInv, [Next]_vars PROVE IInv'
  OBVIOUS
<1>1. ASSUME NEW j \in Jobs, FunctionStep(j) \/ QueueTimeout(j) \/ HardTimeout(j)
      PROVE  IInv'
  BY <1>1, FunctionStepKept, EffectKept
<1>2. ASSUME NEW j \in Jobs, FailureArrives(j)
      PROVE  IInv'
  BY <1>2, FailureArrivesKept
<1>3. ASSUME NEW j \in Jobs, Submit(j)
      PROVE  IInv'
  BY <1>3, SubmitEffect
<1>4. ASSUME NEW j \in Jobs, Cancel(j)
      PROVE  IInv'
  BY <1>4, CancelKept
<1>5. ASSUME NEW j \in Jobs, CancelArrives(j)
      PROVE  IInv'
  BY <1>5, CancelArrivesKept
<1>6. CASE Restart
  BY <1>6, RestartKept
<1>7. CASE ListRows
  BY <1>7, ListRowsKept
<1>8. CASE RecoverRow
  BY <1>8, RecoverRowKept
<1>9. CASE UNCHANGED vars
  BY <1>9, StutterKept
<1> QED
  BY <1>1, <1>2, <1>3, <1>4, <1>5, <1>6, <1>7, <1>8, <1>9 DEF Next

THEOREM InvCorrect == Spec => []IInv
BY InitInv, NextInv, PTL DEF Spec

(* Every variable of the queue and its jobs keeps its type.                *)
THEOREM TypeCorrect == Spec => []TypeOK
<1>1. IInv => TypeOK
  BY DEF IInv
<1> QED
  BY <1>1, InvCorrect, PTL

(* Whatever timeouts, cancellations and restarts come between, the count   *)
(* of the queue is the entries whose promise is open, within the limit.    *)
THEOREM SlotsCorrect == Spec => []SlotsTrue
<1>1. IInv => SlotsTrue
  BY DEF IInv
<1> QED
  BY <1>1, InvCorrect, PTL

(* A row that says succeeded has its picture saved if that was asked for,  *)
(* and no cancellation or timeout in memory contradicts it.                *)
THEOREM SuccessCorrect == Spec => []SuccessHonest
<1>1. IInv => SuccessHonest
  BY DEF IInv, JobInv, SuccessHonest
<1> QED
  BY <1>1, InvCorrect, PTL

(* A step that calls the GPU does it for an open job, or for one cancelled *)
(* while it waited, whose cancellation its row did not show when its turn  *)
(* came: a cancellation or a timeout before the call is seen in time.      *)
THEOREM GpuCorrect == Spec => GpuSpared
<1> DEFINE Spared(j) ==
             /\ Turns(j, "gpu") => mem[j] \in Open \/ at[j] = "prepare unmarked"
             /\ Turns(j, "prepare unmarked") =>
                  /\ mem[j] = "cancelled" /\ row[j] \in Open
                  /\ j \in cancelling \/ faults > 0
           AllSpared == \A j \in Jobs : Spared(j)
<1>1. ASSUME IInv, Next, NEW i \in Jobs
      PROVE  Spared(i)
  <2>1. ASSUME at'[i] = at[i] \/ at'[i] \in Before \cup {"check"}
        PROVE  Spared(i)
    BY <2>1 DEF Turns, Before
  <2>2. ASSUME NEW j \in Jobs, Others(j), i # j
        PROVE  Spared(i)
    <3>1. Begins(i, at, mem) \/ Remains(i, at, mem, slots, aborted)
      BY <2>2 DEF Others
    <3>2. at'[i] = at[i] \/ at'[i] \in Before \cup {"check"}
      BY <3>1 DEF Begins, Remains, Before
    <3> QED
      BY <2>1, <3>2
  <2>3. ASSUME NEW j \in Jobs, FunctionStep(j) \/ QueueTimeout(j) \/ HardTimeout(j)
        PROVE  Spared(i)
    <3>1. Effect(j) /\ Others(j)
      BY <1>1, <2>3, FunctionStepKept DEF Effect, Moved
    <3>2. CASE i = j
      <4>1. Turns(i, "gpu") => mem[i] \in Open \/ at[i] = "prepare unmarked"
        BY <3>1, <3>2 DEF Effect
      <4>2. ASSUME Turns(i, "prepare unmarked")
            PROVE  /\ mem[i] = "cancelled" /\ row[i] \in Open
                   /\ i \in cancelling \/ faults > 0
        <5>1. at[i] = "check" /\ row[i] \notin Terminal
          BY <3>1, <3>2, <4>2 DEF Effect
        <5>2. JobInv(i) /\ row[i] \in Statuses /\ faults \in Nat
          BY <1>1 DEF IInv, TypeOK, Statuses
        <5>3. mem[i] = "cancelled" /\ row[i] \in Open
          BY <5>1, <5>2 DEF JobInv, Statuses
        <5>4. i \in cancelling \/ faults # 0
          BY <5>2, <5>3 DEF JobInv
        <5> QED
          BY <5>2, <5>3, <5>4
      <4> QED
        BY <4>1, <4>2
    <3> QED
      BY <2>2, <3>1, <3>2
  <2>4. ASSUME NEW j \in Jobs, Submit(j)
        PROVE  Spared(i)
    BY <1>1, <2>1, <2>2, <2>4, SubmitEffect
  <2>5. ASSUME NEW j \in Jobs, FailureArrives(j) \/ Cancel(j) \/ CancelArrives(j)
        PROVE  Spared(i)
    <3>1. at'[i] = at[i]
      BY <2>5 DEF FailureArrives, Cancel, CancelArrives, process
    <3> QED
      BY <2>1, <3>1
  <2>6. CASE Restart
    BY <1>1, <2>1, <2>6, RestartKept DEF Before
  <2>7. CASE ListRows
    BY <1>1, <2>1, <2>7, ListRowsKept
  <2>8. CASE RecoverRow
    <3>1. at' = at \/ \E j \in Jobs : Others(j) /\ at'[j] \in Before
      BY <1>1, <2>8, RecoverRowKept
    <3> QED
      BY <2>1, <2>2, <3>1
  <2> QED
    BY <1>1, <2>3, <2>4, <2>5, <2>6, <2>7, <2>8 DEF Next
<1> HIDE DEF Spared
<1>2. IInv /\ [Next]_vars => [AllSpared]_vars
  BY <1>1
<1>3. GpuSpared <=> [][AllSpared]_vars
  BY DEF GpuSpared, Spared
<1> HIDE DEF AllSpared
<1> QED
  BY <1>2, <1>3, InvCorrect, PTL DEF Spec
-----------------------------------------------------------------------------
(* An open row is never left alone.                                        *)

Attended(j) ==
  row[j] \in Open /\ faults = 0 /\ j \notin skipped =>
    \/ mem[j] \in Terminal /\ (j \in failing \cup cancelling \/ at[j] = "finish")
    \/ mem[j] \in Open /\ (at[j] = "queue" \/ j \in slots)
    \/ mem[j] = "none" /\ (recovery = "list" \/ j \in todo)

AllAttended == \A j \in Jobs : Attended(j)

(* A step of another job takes nothing away from i but its turn to wait.   *)
LEMMA OtherAttended ==
  ASSUME NEW j \in Jobs, NEW i \in Jobs \ {j}, JobInv(i), Attended(i), Others(j),
         row'[i] = row[i], faults' = 0 => faults = 0, skipped' = skipped,
         i \in failing => i \in failing', cancelling' = cancelling,
         i \in todo => i \in todo', recovery = "list" => recovery' = "list"
  PROVE  Attended(i)'
<1>1. Begins(i, at, mem) \/ Remains(i, at, mem, slots, aborted)
  BY DEF Others
<1>2. CASE Begins(i, at, mem)
  BY <1>2 DEF Attended, Begins, JobInv, Open, Terminal
<1>3. CASE Remains(i, at, mem, slots, aborted)
  BY <1>3 DEF Attended, Remains
<1> QED
  BY <1>1, <1>2, <1>3

(* The function of a job and its timers hand it over.                      *)
LEMMA OwnAttended ==
  ASSUME IInv, NEW j \in Jobs, Effect(j), at[j] # "none", Attended(j)
  PROVE  Attended(j)'
<1> SUFFICES ASSUME row'[j] \in Open, faults' = 0, j \notin skipped'
             PROVE  \/ mem'[j] \in Terminal /\ (j \in failing' \cup cancelling' \/ at'[j] = "finish")
                    \/ mem'[j] \in Open /\ (at'[j] = "queue" \/ j \in slots')
  BY DEF Attended
<1>1. mem[j] # "none" /\ row[j] # "none" /\ mem[j] \in Statuses /\ row[j] \in Statuses
  BY DEF IInv, JobInv, TypeOK, Statuses
<1>2. /\ faults = 0 /\ j \notin skipped /\ cancelling' = cancelling
      /\ at[j] # "finish" /\ Handed(j) /\ Changed(j)
  BY DEF Effect, Moved, startup, Open, Terminal
<1>3. row[j] \in Open
  BY <1>1 DEF Effect, Statuses, Open, Terminal
<1>4. CASE mem[j] \in Terminal
  <2>1. j \in failing \cup cancelling
    BY <1>2, <1>3, <1>4 DEF Attended, Open, Terminal
  <2>2. mem'[j] = mem[j] /\ failing \subseteq failing'
    BY <1>2, <1>4 DEF Changed, Handed
  <2> QED
    BY <1>2, <1>4, <2>1, <2>2
<1>5. CASE mem[j] \in Open
  <2>1. at[j] = "queue" \/ j \in slots
    BY <1>2, <1>3, <1>5 DEF Attended, Open, Terminal
  <2> QED
    BY <1>2, <1>5, <2>1 DEF Handed
<1> QED
  BY <1>1, <1>4, <1>5 DEF Statuses

LEMMA EffectAttended ==
  ASSUME IInv, AllAttended, NEW j \in Jobs, Effect(j), at[j] # "none"
  PROVE  AllAttended'
<1>1. /\ UNCHANGED <<cancelling, recovery, todo, skipped>> /\ (faults' = 0 => faults = 0)
      /\ Others(j) /\ failing \subseteq failing'
      /\ \A i \in Jobs \ {j} : row'[i] = row[i]
  BY DEF Effect, Moved, Handed, startup
<1>2. \A i \in Jobs \ {j} : Attended(i)'
  BY <1>1, OtherAttended DEF AllAttended, IInv
<1>3. Attended(j)'
  BY OwnAttended DEF AllAttended
<1> QED
  BY <1>2, <1>3 DEF AllAttended

(* A job that is new, or was found by the recovery, waits, runs or fails.  *)
LEMMA EnqueueAttended ==
  ASSUME IInv, AllAttended, NEW j \in Jobs, mem[j] = "none", Enqueue(j),
         UNCHANGED <<plan, cancelling, skipped, faults>>, recovery # "list",
         \A i \in Jobs \ {j} : row'[i] = row[i], todo \ {j} \subseteq todo'
  PROVE  AllAttended'
<1>1. Sound
  BY InvSound
<1>2. at[j] = "none"
  BY DEF IInv, JobInv
<1>3. /\ Others(j)
      /\ \/ mem'[j] = "failed" /\ at'[j] = "none" /\ failing' = failing \cup {j}
         \/ mem'[j] = "queued" /\ at'[j] = "queue" /\ failing' = failing
         \/ mem'[j] = "running" /\ at'[j] = "mark" /\ j \in slots' /\ failing' = failing
  BY <1>1, <1>2, EnqueueEffect
<1>4. failing \subseteq failing'
  BY <1>3
<1>5. \A i \in Jobs \ {j} : Attended(i)'
  BY <1>3, <1>4, OtherAttended DEF AllAttended, IInv
<1>6. Attended(j)'
  BY <1>3 DEF Attended, Open, Terminal
<1> QED
  BY <1>5, <1>6 DEF AllAttended

(* A write of an end that reaches the row closes it.                       *)
LEMMA ArrivesAttended ==
  ASSUME IInv, AllAttended, NEW j \in Jobs, UNCHANGED <<plan, process, startup>>,
         \/ /\ failing' = failing \ {j} /\ cancelling' = cancelling
            /\ (Write(j, "failed") /\ UNCHANGED faults) \/ (Fault /\ UNCHANGED row)
         \/ /\ cancelling' = cancelling \ {j} /\ failing' = failing
            /\ (Write(j, "cancelled") /\ UNCHANGED faults) \/ (Fault /\ UNCHANGED row)
  PROVE  AllAttended'
<1>1. UNCHANGED <<mem, slots, at, recovery, todo, skipped>>
  BY ProcessAlone DEF startup
<1>2. row \in [Jobs -> Statuses] /\ faults \in 0..MaxFaults
  BY InvSound
<1>3. CASE faults' # 0
  BY <1>3 DEF AllAttended, Attended
<1>4. CASE faults' = 0
  <2>1. faults = 0 /\ (Write(j, "failed") \/ Write(j, "cancelled"))
    BY <1>2, <1>4, FaultType
  <2>2. row'[j] \in Terminal /\ \A i \in Jobs \ {j} : row'[i] = row[i]
    <3>1. "failed" \in Statuses /\ "cancelled" \in Statuses
      BY DEF Statuses, Terminal
    <3> QED
      BY <1>2, <2>1, <3>1, WriteType DEF Terminal
  <2>3. Attended(j)'
    BY <2>2 DEF Attended, Open, Terminal
  <2>4. ASSUME NEW i \in Jobs \ {j}
        PROVE  Attended(i)'
    BY <1>1, <2>1, <2>2 DEF AllAttended, Attended
  <2> QED
    BY <2>3, <2>4 DEF AllAttended
<1> QED
  BY <1>3, <1>4

LEMMA CancelAttended == ASSUME IInv, AllAttended, NEW j \in Jobs, Cancel(j) PROVE AllAttended'
<1>1. /\ cancelling' = cancelling \cup {j}
      /\ UNCHANGED <<row, slots, at, failing, recovery, todo, skipped, faults>>
  BY DEF Cancel, startup
<1>2. /\ \A i \in Jobs \ {j} : mem'[i] = mem[i]
      /\ mem'[j] = IF mem[j] \in Open THEN "cancelled" ELSE mem[j]
  BY DEF Cancel, IInv, TypeOK
<1>3. \A i \in Jobs \ {j} : Attended(i)'
  BY <1>1, <1>2 DEF AllAttended, Attended
<1>4. Attended(j)'
  <2>1. Attended(j)
    BY DEF AllAttended
  <2> QED
    BY <1>1, <1>2, <2>1 DEF Attended, Open, Terminal
<1> QED
  BY <1>3, <1>4 DEF AllAttended

LEMMA ListRowsAttended == ASSUME IInv, AllAttended, ListRows PROVE AllAttended'
<1>1. \A j \in Jobs : mem[j] = "none"
  BY DEF ListRows, IInv, JobInv
<1>2. UNCHANGED <<row, mem>>
  BY DEF ListRows, process
<1>3. CASE todo' = Oldest /\ skipped' = OpenRows \ Oldest
  BY <1>1, <1>2, <1>3 DEF AllAttended, Attended, OpenRows
<1>4. CASE Fault
  <2>1. faults' # 0
    BY <1>4, InvSound, FaultType DEF IInv, TypeOK
  <2> QED
    BY <2>1 DEF AllAttended, Attended
<1> QED
  BY <1>3, <1>4 DEF ListRows

LEMMA RecoverRowAttended == ASSUME IInv, AllAttended, RecoverRow PROVE AllAttended'
<1>1. PICK j \in todo :
        \/ /\ Write(j, "queued") /\ Enqueue(j)
           /\ todo' = todo \ {j} /\ UNCHANGED faults
        \/ /\ Write(j, "failed") /\ UNCHANGED <<process, failing>>
           /\ todo' = todo \ {j} /\ UNCHANGED faults
        \/ Fault
  BY DEF RecoverRow
<1>2. /\ UNCHANGED <<plan, cancelling, skipped>>
      /\ j \in Jobs /\ recovery = "rows" /\ mem[j] = "none"
      /\ row \in [Jobs -> Statuses] /\ faults \in 0..MaxFaults
  BY <1>1 DEF RecoverRow, IInv, TypeOK, JobInv, Statuses
<1>3. {"queued", "failed"} \subseteq Statuses
  BY DEF Statuses, Open, Terminal
<1>4. CASE /\ Write(j, "queued") /\ Enqueue(j)
           /\ todo' = todo \ {j} /\ UNCHANGED faults
  <2>1. \A i \in Jobs \ {j} : row'[i] = row[i]
    BY <1>2, <1>3, <1>4, WriteType
  <2> QED
    BY <1>2, <1>4, <2>1, EnqueueAttended
<1>5. CASE /\ Write(j, "failed") /\ UNCHANGED <<process, failing>>
           /\ todo' = todo \ {j} /\ UNCHANGED faults
  <2>1. row'[j] \in Terminal /\ \A i \in Jobs \ {j} : row'[i] = row[i]
    BY <1>2, <1>3, <1>5, WriteType DEF Terminal
  <2>2. UNCHANGED <<mem, slots, at>>
    BY <1>5 DEF process
  <2>3. Attended(j)'
    BY <2>1 DEF Attended, Open, Terminal
  <2>4. ASSUME NEW i \in Jobs \ {j}
        PROVE  Attended(i)'
    BY <1>2, <1>5, <2>1, <2>2 DEF AllAttended, Attended
  <2> QED
    BY <2>3, <2>4 DEF AllAttended
<1>6. CASE Fault
  <2>1. faults' # 0
    BY <1>2, <1>6, FaultType
  <2> QED
    BY <2>1 DEF AllAttended, Attended
<1> QED
  BY <1>1, <1>4, <1>5, <1>6

LEMMA NextAttended == IInv /\ AllAttended /\ [Next]_vars => AllAttended'
<1> SUFFICES ASSUME IInv, AllAttended, [Next]_vars PROVE AllAttended'
  OBVIOUS
<1>1. ASSUME NEW j \in Jobs, FunctionStep(j) \/ QueueTimeout(j) \/ HardTimeout(j)
      PROVE  AllAttended'
  BY <1>1, FunctionStepKept, EffectAttended
<1>2. ASSUME NEW j \in Jobs, FailureArrives(j) \/ CancelArrives(j)
      PROVE  AllAttended'
  BY <1>2, ArrivesAttended DEF FailureArrives, CancelArrives
<1>3. ASSUME NEW j \in Jobs, Submit(j)
      PROVE  AllAttended'
  <2>1. /\ row[j] = "none" /\ row' = [row EXCEPT ![j] = "queued"] /\ Enqueue(j)
        /\ recovery = "done" /\ UNCHANGED <<plan, cancelling, skipped, todo, faults>>
    BY <1>3 DEF Submit, startup
  <2>2. mem[j] = "none" /\ \A i \in Jobs \ {j} : row'[i] = row[i]
    BY <2>1 DEF IInv, JobInv, TypeOK
  <2> QED
    BY <2>1, <2>2, EnqueueAttended
<1>4. ASSUME NEW j \in Jobs, Cancel(j)
      PROVE  AllAttended'
  BY <1>4, CancelAttended
<1>5. CASE Restart
  BY <1>5 DEF Restart, AllAttended, Attended
<1>6. CASE ListRows
  BY <1>6, ListRowsAttended
<1>7. CASE RecoverRow
  BY <1>7, RecoverRowAttended
<1>8. CASE UNCHANGED vars
  BY <1>8 DEF vars, process, startup, AllAttended, Attended
<1> QED
  BY <1>1, <1>2, <1>3, <1>4, <1>5, <1>6, <1>7, <1>8 DEF Next

(* Whatever timers, cancellations and restarts come between, a job that is *)
(* open in the database waits, holds a place, is still to be taken up, or  *)
(* the write of its end is under way, unless the database failed or a      *)
(* recovery did not list the job.                                          *)
THEOREM AttendedCorrect == Spec => []JobAttended
<1>1. Init => AllAttended
  BY DEF Init, AllAttended, Attended, Open
<1>2. AllAttended => JobAttended
  BY DEF AllAttended, Attended, JobAttended
<1> QED
  BY <1>1, <1>2, NextAttended, InvCorrect, PTL DEF Spec
=============================================================================
