--------------------------- MODULE JobQueueProofs ---------------------------
(***************************************************************************)
(* The safety of JobQueue for every number of jobs, tasks and loops, every  *)
(* limit, and any number of crashes, stops and failed statements.           *)
(***************************************************************************)
EXTENDS JobQueue, FiniteSetTheorems, SequenceTheorems, TLAPS

\* What the p-queue holds: with the queue at w, tasks at p working on jb, the
\* queue lists waiting tasks, each once, and every task in use has a job.
QueueOK(w, p, jb) ==
  /\ \A i \in 1..Len(w) : p[w[i]] = "waiting"
  /\ \A i, k \in 1..Len(w) : w[i] = w[k] => i = k
  /\ \A t \in Tasks : p[t] # "free" => jb[t] \in Jobs

LoopOK == \A l \in Loops : loopPc[l] = "marking" => adding[l] \in Jobs

\* The inductive invariant.  SizeBound needs the rows being marked, NoLeakedIds
\* needs nothing but itself, and all of them need the queue to be consistent.
IInv ==
  /\ TypeOK
  /\ QueueOK(waiting, pc, job)
  /\ LoopOK
  /\ ConcurrencyBound
  /\ SizeBound
  /\ NoLeakedIds
  /\ NoMissedIdle

-----------------------------------------------------------------------------
(* Counting.                                                                *)

\* The executing tasks are finitely many: p-queue's pendingCount is a number.
LEMMA ExecutingFinite ==
  ASSUME NEW p
  PROVE  IsFiniteSet(ExecutingIn(p)) /\ Cardinality(ExecutingIn(p)) \in Nat
BY ConstantsAssumption, FS_Subset, FS_CardinalityType DEF ExecutingIn

\* Fewer tasks executing, a smaller count.
LEMMA ExecutingMonotone ==
  ASSUME NEW p, NEW q, ExecutingIn(q) \subseteq ExecutingIn(p)
  PROVE  Cardinality(ExecutingIn(q)) <= Cardinality(ExecutingIn(p))
BY ExecutingFinite, FS_Subset

\* Starting one task adds at most one to the count.
LEMMA ExecutingStart ==
  ASSUME NEW p \in [Tasks -> TaskPcs], NEW t \in Tasks, NEW v
  PROVE  Cardinality(ExecutingIn([p EXCEPT ![t] = v])) <= Cardinality(ExecutingIn(p)) + 1
<1>1. ExecutingIn([p EXCEPT ![t] = v]) \subseteq ExecutingIn(p) \cup {t}
  BY DEF ExecutingIn
<1>2. /\ IsFiniteSet(ExecutingIn(p) \cup {t})
      /\ Cardinality(ExecutingIn(p) \cup {t}) <= Cardinality(ExecutingIn(p)) + 1
  BY ExecutingFinite, FS_AddElement
<1>3. Cardinality(ExecutingIn([p EXCEPT ![t] = v])) <= Cardinality(ExecutingIn(p) \cup {t})
  BY <1>1, <1>2, FS_Subset
<1>4. Cardinality(ExecutingIn(p) \cup {t}) \in Nat
  BY <1>2, FS_CardinalityType
<1> QED
  BY <1>2, <1>3, <1>4, ExecutingFinite

\* A task that ends takes one from the count.
LEMMA ExecutingEnd ==
  ASSUME NEW p \in [Tasks -> TaskPcs], NEW t \in Tasks, p[t] \in Executing
  PROVE  /\ ExecutingIn([p EXCEPT ![t] = "free"]) = ExecutingIn(p) \ {t}
         /\ Cardinality(ExecutingIn([p EXCEPT ![t] = "free"])) = Cardinality(ExecutingIn(p)) - 1
<1>1. ExecutingIn([p EXCEPT ![t] = "free"]) = ExecutingIn(p) \ {t}
  BY DEF ExecutingIn, Executing, Writing, Settled
<1>2. t \in ExecutingIn(p)
  BY DEF ExecutingIn
<1> QED
  BY <1>1, <1>2, ExecutingFinite, FS_RemoveElement

\* The loops that are marking a row are at most all the loops.
LEMMA MarkingFinite ==
  /\ IsFiniteSet(Marking) /\ Cardinality(Marking) \in Nat
  /\ Cardinality(Marking) <= Cardinality(Loops)
  /\ Cardinality(Loops) \in Nat
BY ConstantsAssumption, FS_Subset, FS_CardinalityType DEF Marking

-----------------------------------------------------------------------------
(* The p-queue's own steps.                                                 *)

\* _tryToStartAnother() keeps the queue consistent and within its limit, loses
\* no task, and takes the id of a task it cancels out of jobIds.
LEMMA TryToStartAnotherOK ==
  ASSUME NEW w \in Seq(Tasks), NEW p \in [Tasks -> TaskPcs],
         NEW jb \in [Tasks -> Jobs \cup {NoJob}], NEW ids \in SUBSET Jobs,
         isRunning \in BOOLEAN, owed \subseteq Jobs,
         QueueOK(w, p, jb),
         Cardinality(ExecutingIn(p)) <= ConcurrencyLimit,
         TryToStartAnother(w, p, jb, ids)
  PROVE  /\ waiting' \in Seq(Tasks) /\ pc' \in [Tasks -> TaskPcs]
         /\ jobIds' \subseteq ids /\ owed' \subseteq owed
         /\ QueueOK(waiting', pc', jb)
         /\ Cardinality(ExecutingIn(pc')) <= ConcurrencyLimit
         /\ Len(waiting') + Cardinality(ExecutingIn(pc')) <= Len(w) + Cardinality(ExecutingIn(p))
         /\ \A t \in Tasks : \/ pc'[t] = p[t]
                             \/ pc'[t] = "handler"
                             \/ pc'[t] = "cancelled" /\ jb[t] \notin jobIds'
         /\ (waiting' = <<>> /\ ExecutingIn(pc') = {}) => (w = <<>> /\ ExecutingIn(p) = {})
<1>1. CASE w # <<>> /\ ~paused /\ Cardinality(ExecutingIn(p)) < ConcurrencyLimit
  <2>1. /\ waiting' = Tail(w)
        /\ pc' = [p EXCEPT ![Head(w)] = StartedPc]
        /\ jobIds' = IF isRunning THEN ids ELSE ids \ {jb[Head(w)]}
        /\ owed' = IF isRunning THEN owed \ {jb[Head(w)]} ELSE owed
    BY <1>1 DEF TryToStartAnother
  <2>2. /\ Head(w) \in Tasks /\ Head(w) = w[1] /\ Tail(w) \in Seq(Tasks)
        /\ Len(w) \in Nat /\ Len(w) >= 1 /\ Len(Tail(w)) = Len(w) - 1
        /\ \A i \in 1..Len(Tail(w)) : Tail(w)[i] = w[i+1] /\ i+1 \in 1..Len(w) /\ i+1 # 1
    BY <1>1, HeadTailProperties, EmptySeq, LenProperties
  <2>3. StartedPc \in {"handler", "cancelled"} /\ (StartedPc = "cancelled" => ~isRunning)
    BY DEF StartedPc
  <2>4. pc' \in [Tasks -> TaskPcs]
    BY <2>1, <2>2, <2>3 DEF TaskPcs, Executing
  <2>5. /\ Cardinality(ExecutingIn(pc')) <= Cardinality(ExecutingIn(p)) + 1
        /\ Cardinality(ExecutingIn(pc')) \in Nat /\ Cardinality(ExecutingIn(p)) \in Nat
    BY <2>1, <2>2, ExecutingStart, ExecutingFinite
  <2>6. Head(w) \in ExecutingIn(pc')
    BY <2>1, <2>2, <2>3 DEF ExecutingIn, Executing
  <2>7. QueueOK(waiting', pc', jb)
    <3>1. \A i \in 1..Len(waiting') : waiting'[i] = w[i+1] /\ i+1 \in 1..Len(w) /\ w[i+1] # w[1]
      BY <2>1, <2>2 DEF QueueOK
    <3>2. \A i \in 1..Len(waiting') : pc'[waiting'[i]] = "waiting"
      BY <3>1, <2>1, <2>2, ElementOfSeq DEF QueueOK
    <3>3. \A i, k \in 1..Len(waiting') : waiting'[i] = waiting'[k] => i = k
      <4>1. TAKE i, k \in 1..Len(waiting')
      <4>2. HAVE waiting'[i] = waiting'[k]
      <4>3. i + 1 = k + 1
        BY <3>1, <4>2 DEF QueueOK
      <4> QED
        BY <4>3, <2>1, <2>2
    <3>4. p[Head(w)] # "free"
      BY <2>2 DEF QueueOK
    <3>5. \A t \in Tasks : pc'[t] # "free" => jb[t] \in Jobs
      BY <3>4, <2>1, <2>2 DEF QueueOK
    <3> QED
      BY <3>2, <3>3, <3>5 DEF QueueOK
  <2>8. \A t \in Tasks : \/ pc'[t] = p[t]
                         \/ pc'[t] = "handler"
                         \/ pc'[t] = "cancelled" /\ jb[t] \notin jobIds'
    BY <2>1, <2>2, <2>3
  <2>9. jobIds' \subseteq ids /\ owed' \subseteq owed
    BY <2>1
  <2>10. /\ Cardinality(ExecutingIn(pc')) <= ConcurrencyLimit
         /\ Len(waiting') + Cardinality(ExecutingIn(pc')) <= Len(w) + Cardinality(ExecutingIn(p))
    BY <1>1, <2>1, <2>2, <2>5, ConstantsAssumption
  <2> QED
    BY <2>1, <2>2, <2>4, <2>6, <2>7, <2>8, <2>9, <2>10
<1>2. CASE ~(w # <<>> /\ ~paused /\ Cardinality(ExecutingIn(p)) < ConcurrencyLimit)
  <2>1. waiting' = w /\ pc' = p /\ jobIds' = ids /\ owed' = owed
    BY <1>2 DEF TryToStartAnother
  <2>2. Len(w) \in Nat /\ Cardinality(ExecutingIn(p)) \in Nat
    BY LenProperties, ExecutingFinite
  <2> QED
    BY <2>1, <2>2
<1> QED
  BY <1>1, <1>2

\* A task's end keeps every conjunct of the invariant that is about the queue,
\* provided the ids left in jobIds are those of other tasks.
LEMMA CompleteOK ==
  ASSUME IInv, NEW t \in Tasks, pc[t] \in Executing,
         NEW ids \in SUBSET jobIds,
         \A j \in ids : \E u \in Tasks \ {t} : job[u] = j /\ pc[u] \notin {"free", "cancelled"},
         Complete(t, ids)
  PROVE  /\ waiting' \in Seq(Tasks) /\ pc' \in [Tasks -> TaskPcs]
         /\ job' \in [Tasks -> Jobs \cup {NoJob}]
         /\ isRunning' \in BOOLEAN /\ paused' \in BOOLEAN /\ stopping' \in BOOLEAN
         /\ loopPc' \in [Loops -> LoopPcs]
         /\ jobIds' \subseteq Jobs /\ owed' \subseteq Jobs
         /\ batch' = batch /\ adding' = adding
         /\ QueueOK(waiting, pc, job)' /\ LoopOK' /\ ConcurrencyBound' /\ SizeBound'
         /\ NoLeakedIds' /\ NoMissedIdle'
<1> DEFINE p == [pc EXCEPT ![t] = "free"]
           idle == waiting = <<>> /\ ExecutingIn(pc) = {t}
<1>1. /\ TryToStartAnother(waiting, p, job, ids)
      /\ job' = [job EXCEPT ![t] = NoJob]
      /\ loopPc' = [l \in Loops |-> IF idle /\ loopPc[l] = "idle" THEN "top" ELSE loopPc[l]]
      /\ paused' = (paused \/ (idle /\ stopping))
      /\ stopping' = (stopping /\ ~idle)
      /\ isRunning' = isRunning /\ batch' = batch /\ adding' = adding
  BY DEF Complete
<1>2. /\ waiting \in Seq(Tasks) /\ pc \in [Tasks -> TaskPcs]
      /\ job \in [Tasks -> Jobs \cup {NoJob}] /\ isRunning \in BOOLEAN
      /\ owed \subseteq Jobs /\ jobIds \subseteq Jobs /\ paused \in BOOLEAN
      /\ stopping \in BOOLEAN /\ loopPc \in [Loops -> LoopPcs]
  BY DEF IInv, TypeOK
<1>3. /\ p \in [Tasks -> TaskPcs]
      /\ ExecutingIn(p) = ExecutingIn(pc) \ {t}
      /\ Cardinality(ExecutingIn(p)) = Cardinality(ExecutingIn(pc)) - 1
  BY <1>2, ExecutingEnd DEF TaskPcs
<1>4. /\ Cardinality(ExecutingIn(pc)) \in Nat /\ Cardinality(ExecutingIn(pc)) <= ConcurrencyLimit
      /\ Cardinality(ExecutingIn(p)) <= ConcurrencyLimit
      /\ Len(waiting) \in Nat
  BY <1>2, <1>3, ExecutingFinite, LenProperties, ConstantsAssumption DEF IInv, ConcurrencyBound, Pending
<1>5. pc[t] # "waiting" /\ pc[t] # "free"
  BY DEF Executing, Writing, Settled
<1>6. QueueOK(waiting, p, job)
  BY <1>2, <1>5, ElementOfSeq DEF IInv, QueueOK
<1>7. /\ waiting' \in Seq(Tasks) /\ pc' \in [Tasks -> TaskPcs]
      /\ jobIds' \subseteq ids /\ owed' \subseteq owed
      /\ QueueOK(waiting', pc', job)
      /\ Cardinality(ExecutingIn(pc')) <= ConcurrencyLimit
      /\ Len(waiting') + Cardinality(ExecutingIn(pc')) <= Len(waiting) + Cardinality(ExecutingIn(p))
      /\ \A u \in Tasks : \/ pc'[u] = p[u]
                          \/ pc'[u] = "handler"
                          \/ pc'[u] = "cancelled" /\ job[u] \notin jobIds'
      /\ (waiting' = <<>> /\ ExecutingIn(pc') = {}) => (waiting = <<>> /\ ExecutingIn(p) = {})
  <2>1. ids \in SUBSET Jobs
    BY <1>2
  <2> QED
    BY <1>1, <1>2, <1>3, <1>4, <1>6, <2>1, TryToStartAnotherOK
<1>8. pc'[t] \in {"free", "handler", "cancelled"}
  BY <1>2, <1>7
<1>9. /\ job' \in [Tasks -> Jobs \cup {NoJob}]
      /\ loopPc' \in [Loops -> LoopPcs]
      /\ isRunning' \in BOOLEAN /\ paused' \in BOOLEAN /\ stopping' \in BOOLEAN
      /\ jobIds' \subseteq Jobs /\ owed' \subseteq Jobs
  BY <1>1, <1>2, <1>7 DEF LoopPcs
<1>10. pc'[t] = "free"
  <2>1. ~\E i \in 1..Len(waiting) : waiting[i] = t
    BY <1>5 DEF IInv, QueueOK
  <2>2. waiting # <<>> => Head(waiting) # t
    BY <2>1, <1>2, <1>4, EmptySeq, HeadTailProperties
  <2> QED
    BY <1>1, <1>2, <2>2 DEF TryToStartAnother
<1>11. QueueOK(waiting, pc, job)'
  BY <1>1, <1>2, <1>7, <1>10 DEF QueueOK
<1>12. LoopOK'
  BY <1>1, <1>2 DEF IInv, LoopOK
<1>13. ConcurrencyBound'
  BY <1>7 DEF ConcurrencyBound, Pending
<1>14. Marking' = Marking
  BY <1>1, <1>2 DEF Marking
<1>15. SizeBound'
  <2>1. /\ Len(waiting') \in Nat /\ Cardinality(ExecutingIn(pc')) \in Nat
        /\ Cardinality(ExecutingIn(p)) \in Nat
    BY <1>7, LenProperties, ExecutingFinite
  <2> QED
    BY <2>1, <1>3, <1>4, <1>7, <1>14, MarkingFinite, ConstantsAssumption, SMTT(30)
    DEF IInv, SizeBound, Pending
<1>16. NoLeakedIds'
  <2>1. SUFFICES ASSUME NEW j \in jobIds'
                 PROVE  \E u \in Tasks : job'[u] = j /\ pc'[u] \notin {"free", "cancelled"}
    BY DEF NoLeakedIds
  <2>2. PICK u \in Tasks \ {t} : job[u] = j /\ pc[u] \notin {"free", "cancelled"}
    BY <2>1, <1>7
  <2>3. job'[u] = j /\ pc'[u] \notin {"free", "cancelled"}
    BY <2>1, <2>2, <1>1, <1>2, <1>7
  <2> QED
    BY <2>3
<1>17. NoMissedIdle'
  <2>1. CASE idle
    BY <2>1, <1>1, <1>2 DEF NoMissedIdle
  <2>2. CASE ~idle
    <3>1. ~(waiting' = <<>> /\ ExecutingIn(pc') = {})
      <4>1. SUFFICES ASSUME waiting = <<>>, ExecutingIn(p) = {} PROVE FALSE
        BY <1>7
      <4>2. t \in ExecutingIn(pc)
        BY DEF ExecutingIn
      <4> QED
        BY <4>1, <4>2, <1>3, <2>2
    <3> QED
      BY <3>1 DEF NoMissedIdle, QueueIdle
  <2> QED
    BY <2>1, <2>2
<1> QED
  BY <1>1, <1>7, <1>9, <1>11, <1>12, <1>13, <1>15, <1>16, <1>17

-----------------------------------------------------------------------------
(* The loop's steps.                                                        *)

\* What the step of a loop has to know of the queue it leaves behind.
LoopMayGoOn(l) ==
  /\ Len(waiting') \in Nat /\ Cardinality(ExecutingIn(pc')) \in Nat
  /\ Len(waiting') + Cardinality(ExecutingIn(pc')) + Cardinality(Marking \ {l})
       <= SizeLimit + Cardinality(Loops) - 1
  /\ (stopping' \/ \E k \in Loops : loopPc[k] = "idle") => ~QueueIdle'

\* The rest of a batch, up to the next await: add() marks a row only when the
\* size is below the limit, and onIdle() is awaited only when something runs.
LEMMA AddRowsOK ==
  ASSUME NEW l \in Loops, NEW rows \in SUBSET Jobs,
         loopPc \in [Loops -> LoopPcs], batch \in [Loops -> SUBSET Jobs],
         adding \in [Loops -> Jobs \cup {NoJob}],
         LoopOK, LoopMayGoOn(l), AddRows(l, rows)
  PROVE  /\ loopPc' \in [Loops -> LoopPcs] /\ batch' \in [Loops -> SUBSET Jobs]
         /\ adding' \in [Loops -> Jobs \cup {NoJob}]
         /\ LoopOK' /\ SizeBound' /\ NoMissedIdle'
<1>1. CASE AwaitIdle(l)
  <2>1. /\ loopPc' = [loopPc EXCEPT ![l] = IF QueueIdle' THEN "top" ELSE "idle"]
        /\ batch' = [batch EXCEPT ![l] = {}]
        /\ adding' = [adding EXCEPT ![l] = NoJob]
    BY <1>1 DEF AwaitIdle
  <2>2. loopPc' \in [Loops -> LoopPcs] /\ batch' \in [Loops -> SUBSET Jobs]
        /\ adding' \in [Loops -> Jobs \cup {NoJob}]
    BY <2>1 DEF LoopPcs
  <2>3. LoopOK'
    BY <2>1 DEF LoopOK
  <2>4. Marking' = Marking \ {l}
    BY <2>1 DEF Marking
  <2>5. SizeBound'
    BY <2>4 DEF SizeBound, Pending, LoopMayGoOn
  <2>6. NoMissedIdle'
    BY <2>1 DEF NoMissedIdle, LoopMayGoOn
  <2> QED
    BY <2>2, <2>3, <2>5, <2>6
<1>2. CASE \E j \in rows :
             /\ ~AddRefused(j)'
             /\ loopPc' = [loopPc EXCEPT ![l] = "marking"]
             /\ batch' = [batch EXCEPT ![l] = rows \ {j}]
             /\ adding' = [adding EXCEPT ![l] = j]
  <2>1. PICK j \in rows :
             /\ ~AddRefused(j)'
             /\ loopPc' = [loopPc EXCEPT ![l] = "marking"]
             /\ batch' = [batch EXCEPT ![l] = rows \ {j}]
             /\ adding' = [adding EXCEPT ![l] = j]
    BY <1>2
  <2>2. loopPc' \in [Loops -> LoopPcs] /\ batch' \in [Loops -> SUBSET Jobs]
        /\ adding' \in [Loops -> Jobs \cup {NoJob}]
    BY <2>1 DEF LoopPcs
  <2>3. LoopOK'
    BY <2>1 DEF LoopOK
  <2>4. ~(Len(waiting') + Cardinality(ExecutingIn(pc')) >= SizeLimit)
    BY <2>1 DEF AddRefused, Pending
  <2>5. Marking' \subseteq Loops
    BY DEF Marking
  <2>6. Cardinality(Marking') \in Nat /\ Cardinality(Marking') <= Cardinality(Loops)
        /\ Cardinality(Loops) \in Nat
    BY <2>5, ConstantsAssumption, FS_Subset, FS_CardinalityType
  <2>7. SizeBound'
    BY <2>4, <2>6, ConstantsAssumption DEF SizeBound, Pending, LoopMayGoOn
  <2>8. NoMissedIdle'
    BY <2>1 DEF NoMissedIdle, LoopMayGoOn
  <2> QED
    BY <2>2, <2>3, <2>7, <2>8
<1> QED
  BY <1>1, <1>2 DEF AddRows

\* Taking one loop out of those that mark.
LEMMA MarkingRemove ==
  ASSUME NEW l \in Loops
  PROVE  /\ Cardinality(Marking \ {l}) \in Nat
         /\ Cardinality(Marking \ {l}) <= Cardinality(Marking)
         /\ loopPc[l] = "marking" => Cardinality(Marking \ {l}) = Cardinality(Marking) - 1
<1>1. loopPc[l] = "marking" => l \in Marking
  BY DEF Marking
<1>2. /\ IsFiniteSet(Marking \ {l})
      /\ Cardinality(Marking \ {l}) = IF l \in Marking THEN Cardinality(Marking) - 1
                                                      ELSE Cardinality(Marking)
  BY MarkingFinite, FS_RemoveElement
<1>3. Cardinality(Marking \ {l}) \in Nat
  BY <1>2, FS_CardinalityType
<1> QED
  BY <1>1, <1>2, <1>3, MarkingFinite

\* A step of a loop that touches nothing else lets it go on.
LEMMA QuietLoopMayGoOn ==
  ASSUME IInv, NEW l \in Loops, LoopUnchanged
  PROVE  LoopMayGoOn(l)
<1>1. waiting' = waiting /\ pc' = pc /\ stopping' = stopping
  BY DEF LoopUnchanged
<1>2. Len(waiting) \in Nat /\ Cardinality(ExecutingIn(pc)) \in Nat
  BY LenProperties, ExecutingFinite DEF IInv, TypeOK
<1>3. Len(waiting) + Cardinality(ExecutingIn(pc)) + Cardinality(Marking)
        <= SizeLimit + Cardinality(Loops) - 1
  BY DEF IInv, SizeBound, Pending
<1>4. Len(waiting) + Cardinality(ExecutingIn(pc)) + Cardinality(Marking \ {l})
        <= SizeLimit + Cardinality(Loops) - 1
  <2>1. /\ Cardinality(Marking \ {l}) \in Nat /\ Cardinality(Marking) \in Nat
        /\ Cardinality(Marking \ {l}) <= Cardinality(Marking)
    BY MarkingRemove, MarkingFinite
  <2> QED
    BY <1>2, <1>3, <2>1, MarkingFinite, ConstantsAssumption
<1>5. (stopping \/ \E k \in Loops : loopPc[k] = "idle") => ~QueueIdle
  BY DEF IInv, NoMissedIdle
<1> QED
  BY <1>1, <1>2, <1>4, <1>5 DEF LoopMayGoOn, QueueIdle

\* What such a step leaves of the invariant.
LEMMA QuietRest ==
  ASSUME IInv, LoopUnchanged,
         loopPc' \in [Loops -> LoopPcs], batch' \in [Loops -> SUBSET Jobs],
         adding' \in [Loops -> Jobs \cup {NoJob}],
         LoopOK', SizeBound', NoMissedIdle'
  PROVE  IInv'
<1>1. TypeOK'
  BY DEF IInv, TypeOK, LoopUnchanged, tableVars, bounds
<1>2. QueueOK(waiting, pc, job)' /\ ConcurrencyBound' /\ NoLeakedIds'
  BY DEF IInv, LoopUnchanged, QueueOK, ConcurrencyBound, Pending, NoLeakedIds
<1> QED
  BY <1>1, <1>2 DEF IInv

\* An UPDATE of the table keeps its type.
LEMMA UpdateJobStatusOK ==
  ASSUME TypeOK, NEW j, NEW st \in Statuses, UpdateJobStatus(j, st)
  PROVE  /\ status' \in [Jobs -> Statuses] /\ retryCount' \in [Jobs -> Nat]
         /\ backoff' \subseteq Jobs /\ older' \in [Jobs -> SUBSET Jobs]
<1>1. CASE Exists(j)
  <2>1. /\ status' = [status EXCEPT ![j] = st]
        /\ retryCount' = IF st = "pending" THEN retryCount ELSE [retryCount EXCEPT ![j] = 0]
        /\ backoff' = IF st = "pending" THEN backoff ELSE backoff \ {j}
        /\ older' = [k \in Jobs |-> IF k \in {j} THEN Jobs \ {j} ELSE older[k] \ {j}]
    BY <1>1 DEF UpdateJobStatus, Touch
  <2>2. older' \in [Jobs -> SUBSET Jobs]
    BY <2>1 DEF TypeOK
  <2> QED
    BY <2>1, <2>2 DEF TypeOK
<1>2. CASE ~Exists(j)
  BY <1>2 DEF TypeOK, UpdateJobStatus, tableVars
<1> QED
  BY <1>1, <1>2

\* The rest of add(): one more task, one row less being marked.
LEMMA LoopEnqueuesOK ==
  ASSUME IInv, NEW l \in Loops, LoopEnqueues(l)
  PROVE  IInv'
<1>1. /\ loopPc[l] = "marking"
      /\ UpdateJobStatus(adding[l], "queued")
      /\ UNCHANGED <<isRunning, paused, stopping, zombies, rejected, bounds>>
      /\ AddRows(l, batch[l])
  BY DEF LoopEnqueues
<1>2. PICK t \in Tasks :
        /\ pc[t] = "free"
        /\ job' = [job EXCEPT ![t] = adding[l]]
        /\ TryToStartAnother(Append(waiting, t), [pc EXCEPT ![t] = "waiting"], job',
                             jobIds \cup {adding[l]})
  BY DEF LoopEnqueues
<1> DEFINE w == Append(waiting, t)
           p == [pc EXCEPT ![t] = "waiting"]
           jb == [job EXCEPT ![t] = adding[l]]
           ids == jobIds \cup {adding[l]}
<1>3. TypeOK /\ adding[l] \in Jobs /\ isRunning \in BOOLEAN /\ owed \subseteq Jobs
  BY <1>1 DEF IInv, LoopOK, TypeOK
<1>4. /\ w \in Seq(Tasks) /\ Len(waiting) \in Nat /\ Len(w) = Len(waiting) + 1
      /\ \A i \in 1..Len(waiting) : w[i] = waiting[i] /\ waiting[i] \in Tasks
      /\ w[Len(waiting) + 1] = t /\ w # <<>>
  BY <1>3, AppendProperties, LenProperties, ElementOfSeq, EmptySeq DEF TypeOK
<1>5. p \in [Tasks -> TaskPcs] /\ jb \in [Tasks -> Jobs \cup {NoJob}] /\ ids \in SUBSET Jobs
  BY <1>3 DEF TypeOK, TaskPcs
<1>6. ExecutingIn(p) = ExecutingIn(pc)
  BY <1>2, <1>3 DEF TypeOK, ExecutingIn, Executing, Writing, Settled
<1>7. QueueOK(w, p, jb)
  <2>1. \A i \in 1..Len(waiting) : pc[waiting[i]] = "waiting" /\ waiting[i] # t
    BY <1>2 DEF IInv, QueueOK
  <2>2. \A i \in 1..Len(w) : p[w[i]] = "waiting"
    BY <2>1, <1>3, <1>4 DEF TypeOK
  <2>3. \A i, k \in 1..Len(w) : w[i] = w[k] => i = k
    <3>1. SUFFICES ASSUME NEW i \in 1..Len(w), NEW k \in 1..Len(w), w[i] = w[k]
                   PROVE  i = k
      OBVIOUS
    <3>2. CASE i \in 1..Len(waiting) /\ k \in 1..Len(waiting)
      BY <3>1, <3>2, <1>4 DEF IInv, QueueOK
    <3>3. CASE i = Len(waiting) + 1 \/ k = Len(waiting) + 1
      BY <3>1, <3>3, <2>1, <1>4
    <3> QED
      BY <3>2, <3>3, <1>4
  <2>4. \A u \in Tasks : p[u] # "free" => jb[u] \in Jobs
    BY <1>3 DEF TypeOK, IInv, QueueOK
  <2> QED
    BY <2>2, <2>3, <2>4 DEF QueueOK
<1>8. Cardinality(ExecutingIn(p)) \in Nat /\ Cardinality(ExecutingIn(p)) <= ConcurrencyLimit
  BY <1>6, ExecutingFinite DEF IInv, ConcurrencyBound, Pending
<1>9. /\ waiting' \in Seq(Tasks) /\ pc' \in [Tasks -> TaskPcs]
      /\ jobIds' \subseteq ids /\ owed' \subseteq owed
      /\ QueueOK(waiting', pc', jb)
      /\ Cardinality(ExecutingIn(pc')) <= ConcurrencyLimit
      /\ Len(waiting') + Cardinality(ExecutingIn(pc')) <= Len(w) + Cardinality(ExecutingIn(p))
      /\ \A u \in Tasks : \/ pc'[u] = p[u]
                          \/ pc'[u] = "handler"
                          \/ pc'[u] = "cancelled" /\ jb[u] \notin jobIds'
      /\ ~(waiting' = <<>> /\ ExecutingIn(pc') = {})
  <2>1. TryToStartAnother(w, p, jb, ids)
    BY <1>2
  <2>2. w # <<>>
    BY <1>4
  <2> HIDE DEF w, p, jb, ids
  <2> QED
    BY <2>1, <2>2, <1>3, <1>4, <1>5, <1>7, <1>8, TryToStartAnotherOK
<1>10. LoopMayGoOn(l)
  <2>1. Len(waiting') \in Nat /\ Cardinality(ExecutingIn(pc')) \in Nat
    BY <1>9, LenProperties, ExecutingFinite
  <2>2. Len(waiting) + Cardinality(ExecutingIn(p)) + Cardinality(Marking)
          <= SizeLimit + Cardinality(Loops) - 1
    BY <1>6 DEF IInv, SizeBound, Pending
  <2>3. Cardinality(Marking \ {l}) = Cardinality(Marking) - 1 /\ Cardinality(Marking) \in Nat
    BY <1>1, MarkingRemove, MarkingFinite
  <2>4. Len(waiting') + Cardinality(ExecutingIn(pc')) + Cardinality(Marking \ {l})
          <= SizeLimit + Cardinality(Loops) - 1
    BY <2>1, <2>2, <2>3, <1>4, <1>8, <1>9, MarkingFinite, ConstantsAssumption
  <2> QED
    BY <2>1, <2>4, <1>9 DEF LoopMayGoOn, QueueIdle
<1>11. /\ loopPc' \in [Loops -> LoopPcs] /\ batch' \in [Loops -> SUBSET Jobs]
       /\ adding' \in [Loops -> Jobs \cup {NoJob}]
       /\ LoopOK' /\ SizeBound' /\ NoMissedIdle'
  <2>1. LoopOK /\ batch[l] \in SUBSET Jobs
    BY <1>3 DEF IInv, TypeOK
  <2> QED
    BY <2>1, <1>1, <1>3, <1>10, AddRowsOK DEF TypeOK
<1>12. TypeOK'
  <2>1. /\ status' \in [Jobs -> Statuses] /\ retryCount' \in [Jobs -> Nat]
        /\ backoff' \subseteq Jobs /\ older' \in [Jobs -> SUBSET Jobs]
    BY <1>1, <1>3, UpdateJobStatusOK DEF Statuses
  <2>2. jobIds' \subseteq Jobs /\ owed' \subseteq Jobs /\ job' \in [Tasks -> Jobs \cup {NoJob}]
    BY <1>2, <1>3, <1>5, <1>9
  <2> QED
    BY <2>1, <2>2, <1>1, <1>3, <1>9, <1>11 DEF TypeOK, bounds
<1>13. QueueOK(waiting, pc, job)' /\ ConcurrencyBound'
  BY <1>2, <1>9 DEF QueueOK, ConcurrencyBound, Pending
<1>14. NoLeakedIds'
  <2>1. SUFFICES ASSUME NEW j \in jobIds'
                 PROVE  \E u \in Tasks : job'[u] = j /\ pc'[u] \notin {"free", "cancelled"}
    BY DEF NoLeakedIds
  <2>2. CASE j = adding[l]
    <3>1. job'[t] = j /\ p[t] = "waiting"
      BY <2>2, <1>2, <1>3 DEF TypeOK
    <3>2. pc'[t] \notin {"free", "cancelled"}
      BY <3>1, <2>1, <1>2, <1>9
    <3> QED
      BY <3>1, <3>2
  <2>3. CASE j # adding[l]
    <3>1. PICK u \in Tasks : job[u] = j /\ pc[u] \notin {"free", "cancelled"}
      BY <2>1, <2>3, <1>9 DEF IInv, NoLeakedIds
    <3>2. u # t
      BY <3>1, <1>2
    <3>3. job'[u] = j /\ p[u] = pc[u] /\ jb[u] = j
      BY <3>1, <3>2, <1>2, <1>3 DEF TypeOK
    <3>4. pc'[u] \notin {"free", "cancelled"}
      BY <3>1, <3>3, <2>1, <1>9
    <3> QED
      BY <3>3, <3>4
  <2> QED
    BY <2>2, <2>3
<1> QED
  BY <1>11, <1>12, <1>13, <1>14 DEF IInv

\* Every step of a loop.
LEMMA LoopStepOK ==
  ASSUME IInv, NEW l \in Loops, LoopStep(l)
  PROVE  IInv'
<1> USE DEF LoopPcs
<1>1. CASE LoopExits(l) \/ LoopResumes(l)
  <2>1. /\ LoopUnchanged /\ batch' = batch /\ adding' = adding
        /\ loopPc[l] # "marking"
        /\ \E v \in {"off", "top"} : loopPc' = [loopPc EXCEPT ![l] = v]
    BY <1>1 DEF LoopExits, LoopResumes
  <2>2. TypeOK
    BY DEF IInv
  <2>3. /\ loopPc' \in [Loops -> LoopPcs] /\ batch' \in [Loops -> SUBSET Jobs]
        /\ adding' \in [Loops -> Jobs \cup {NoJob}]
    BY <2>1, <2>2 DEF TypeOK
  <2>4. LoopOK' /\ Marking' = Marking
    BY <2>1, <2>2 DEF IInv, LoopOK, Marking, TypeOK
  <2>5. SizeBound' /\ NoMissedIdle'
    BY <2>1, <2>2, <2>4 DEF IInv, TypeOK, SizeBound, Pending, NoMissedIdle, QueueIdle, LoopUnchanged
  <2> QED
    BY <2>1, <2>3, <2>4, <2>5, QuietRest
<1>2. CASE /\ LoopUnchanged /\ batch' = batch /\ adding' = adding
           /\ loopPc[l] # "marking"
           /\ \E v \in {"readPending", "sleep"} : loopPc' = [loopPc EXCEPT ![l] = v]
  <2>1. TypeOK
    BY DEF IInv
  <2>2. /\ loopPc' \in [Loops -> LoopPcs] /\ batch' \in [Loops -> SUBSET Jobs]
        /\ adding' \in [Loops -> Jobs \cup {NoJob}]
    BY <1>2, <2>1 DEF TypeOK
  <2>3. LoopOK' /\ Marking' = Marking
    BY <1>2, <2>1 DEF IInv, LoopOK, Marking, TypeOK
  <2>4. SizeBound' /\ NoMissedIdle'
    BY <1>2, <2>1, <2>3 DEF IInv, TypeOK, SizeBound, Pending, NoMissedIdle, QueueIdle, LoopUnchanged
  <2> QED
    BY <1>2, <2>2, <2>3, <2>4, QuietRest
<1>3. CASE LoopUnchanged /\ \E rows \in SUBSET Jobs : AddRows(l, rows)
  <2>1. LoopMayGoOn(l)
    BY <1>3, QuietLoopMayGoOn
  <2>2. /\ loopPc \in [Loops -> LoopPcs] /\ batch \in [Loops -> SUBSET Jobs]
        /\ adding \in [Loops -> Jobs \cup {NoJob}] /\ LoopOK
    BY DEF IInv, TypeOK
  <2> QED
    BY <1>3, <2>1, <2>2, AddRowsOK, QuietRest
<1>4. CASE LoopReadsQueued(l)
  <2>1. QueuedExcluding(jobIds) \in SUBSET Jobs
    BY DEF QueuedExcluding
  <2> QED
    BY <1>2, <1>3, <1>4, <2>1 DEF LoopReadsQueued
<1>5. CASE LoopReadsPending(l)
  <2>1. \A S \in PendingBatches(SizeLimit) : S \in SUBSET Jobs
    BY DEF PendingBatches, PendingDue
  <2> QED
    BY <1>2, <1>3, <1>5, <2>1 DEF LoopReadsPending
<1>6. CASE LoopWakes(l)
  <2>1. LoopUnchanged /\ AddRows(l, {})
    BY <1>6 DEF LoopWakes, AddRows
  <2> QED
    BY <1>3, <2>1
<1>7. CASE LoopEnqueues(l)
  BY <1>7, LoopEnqueuesOK
<1> QED
  BY <1>1, <1>4, <1>5, <1>6, <1>7 DEF LoopStep

-----------------------------------------------------------------------------
(* start() and stop().                                                      *)

\* start() fills the p-queue up to its limit and adds a loop that marks nothing.
LEMMA StartOK ==
  ASSUME IInv, Start
  PROVE  IInv'
<1> DEFINE room == ConcurrencyLimit - Pending
           n == IF ~paused \/ room < 0 THEN 0
                ELSE IF room < Len(waiting) THEN room ELSE Len(waiting)
           started == {waiting[i] : i \in 1..n}
<1>1. /\ ~isRunning /\ isRunning' = TRUE /\ paused' = FALSE
      /\ waiting' = SubSeq(waiting, n + 1, Len(waiting))
      /\ pc' = [t \in Tasks |-> IF t \in started THEN "handler" ELSE pc[t]]
      /\ owed' = owed \ {job[t] : t \in started}
      /\ UNCHANGED <<tableVars, jobIds, job, stopping, batch, adding, zombies, rejected, bounds>>
  BY DEF Start
<1>2. PICK l \in Loops : loopPc[l] = "off" /\ loopPc' = [loopPc EXCEPT ![l] = "top"]
  BY DEF Start
<1>3. TypeOK
  BY DEF IInv
<1>4. /\ Len(waiting) \in Nat /\ Pending \in Nat /\ Pending <= ConcurrencyLimit
      /\ \A i \in 1..Len(waiting) : waiting[i] \in Tasks
  BY <1>3, LenProperties, ElementOfSeq, ExecutingFinite DEF TypeOK, IInv, ConcurrencyBound, Pending
<1>5. n \in Nat /\ n <= Len(waiting) /\ n <= ConcurrencyLimit - Pending
  BY <1>4, ConstantsAssumption
<1> HIDE DEF n
<1>6. /\ waiting' \in Seq(Tasks)
      /\ Len(waiting') = Len(waiting) - n
      /\ \A i \in 1..Len(waiting') : waiting'[i] = waiting[i + n] /\ i + n \in 1..Len(waiting) /\ i + n > n
  <2>1. \A i \in (n + 1)..Len(waiting) : waiting[i] \in Tasks
    BY <1>4, <1>5
  <2>2. /\ waiting' \in Seq(Tasks)
        /\ Len(waiting') = IF n + 1 <= Len(waiting) THEN Len(waiting) - (n + 1) + 1 ELSE 0
        /\ \A i \in 1..(Len(waiting) - (n + 1) + 1) : waiting'[i] = waiting[(n + 1) + i - 1]
    BY <2>1, <1>1, <1>4, <1>5, SubSeqProperties
  <2>3. Len(waiting') = Len(waiting) - n
    BY <2>2, <1>4, <1>5
  <2> QED
    BY <2>2, <2>3, <1>4, <1>5
<1>7. started \subseteq Tasks /\ IsFiniteSet(started) /\ Cardinality(started) <= n
  <2>1. started \subseteq Tasks
    BY <1>4, <1>5
  <2> DEFINE f == [i \in 1..n |-> waiting[i]]
  <2>2. f \in Surjection(1..n, started)
    BY DEF Surjection
  <2>3. IsFiniteSet(1..n) /\ Cardinality(1..n) = n
    BY <1>5, FS_Interval
  <2> QED
    BY <2>1, <2>2, <2>3, FS_Surjection
<1>8. /\ Cardinality(ExecutingIn(pc')) \in Nat
      /\ Cardinality(ExecutingIn(pc')) <= Pending + n
      /\ ExecutingIn(pc) \subseteq ExecutingIn(pc')
  <2>1. /\ ExecutingIn(pc') \subseteq ExecutingIn(pc) \cup started
        /\ ExecutingIn(pc) \subseteq ExecutingIn(pc')
    BY <1>1, <1>7 DEF ExecutingIn, Executing
  <2>2. /\ IsFiniteSet(ExecutingIn(pc) \cup started)
        /\ Cardinality(ExecutingIn(pc) \cup started) <= Pending + n
    <3>1. IsFiniteSet(ExecutingIn(pc)) /\ IsFiniteSet(started)
      BY ExecutingFinite, <1>7
    <3>2. /\ IsFiniteSet(ExecutingIn(pc) \cup started)
          /\ Cardinality(ExecutingIn(pc) \cup started)
               = Cardinality(ExecutingIn(pc)) + Cardinality(started)
                   - Cardinality(ExecutingIn(pc) \cap started)
      BY <3>1, FS_Union
    <3>3. IsFiniteSet(ExecutingIn(pc) \cap started)
      BY <3>1, FS_Subset
    <3>4. Cardinality(ExecutingIn(pc) \cap started) \in Nat /\ Cardinality(started) \in Nat
      BY <3>1, <3>3, FS_CardinalityType
    <3> QED
      BY <3>2, <3>4, <1>4, <1>5, <1>7 DEF Pending
  <2>3. Cardinality(ExecutingIn(pc')) <= Cardinality(ExecutingIn(pc) \cup started)
    BY <2>1, <2>2, FS_Subset
  <2>4. Cardinality(ExecutingIn(pc) \cup started) \in Nat
    BY <2>2, FS_CardinalityType
  <2>5. Cardinality(ExecutingIn(pc')) \in Nat
    BY ExecutingFinite
  <2> QED
    BY <2>1, <2>2, <2>3, <2>4, <2>5, <1>4, <1>5
<1>9. TypeOK'
  <2>1. pc' \in [Tasks -> TaskPcs]
    BY <1>1, <1>3 DEF TypeOK, TaskPcs, Executing
  <2>2. loopPc' \in [Loops -> LoopPcs]
    BY <1>2, <1>3 DEF TypeOK, LoopPcs
  <2>3. owed' \subseteq Jobs
    BY <1>1, <1>3 DEF TypeOK
  <2> QED
    BY <2>1, <2>2, <2>3, <1>1, <1>3, <1>6 DEF TypeOK, tableVars, bounds
<1>10. QueueOK(waiting, pc, job)'
  <2>1. \A i \in 1..Len(waiting') : waiting'[i] \notin started
    <3>1. SUFFICES ASSUME NEW i \in 1..Len(waiting'), NEW k \in 1..n, waiting'[i] = waiting[k]
                   PROVE  FALSE
      OBVIOUS
    <3>2. i + n = k
      BY <3>1, <1>4, <1>5, <1>6 DEF IInv, QueueOK
    <3> QED
      BY <3>1, <3>2, <1>5, <1>6
  <2>2. \A i \in 1..Len(waiting') : pc'[waiting'[i]] = "waiting"
    BY <2>1, <1>1, <1>4, <1>6, SMTT(30) DEF IInv, QueueOK
  <2>3. \A i, k \in 1..Len(waiting') : waiting'[i] = waiting'[k] => i = k
    <3>1. SUFFICES ASSUME NEW i \in 1..Len(waiting'), NEW k \in 1..Len(waiting'),
                          waiting'[i] = waiting'[k]
                   PROVE  i = k
      OBVIOUS
    <3>2. i + n = k + n
      BY <3>1, <1>6 DEF IInv, QueueOK
    <3> QED
      BY <3>1, <3>2, <1>4, <1>5, <1>6
  <2>4. \A t \in started : pc[t] = "waiting"
    BY <1>4, <1>5 DEF IInv, QueueOK
  <2>5. \A t \in Tasks : pc'[t] # "free" => job'[t] \in Jobs
    BY <2>4, <1>1 DEF IInv, QueueOK
  <2> QED
    BY <2>2, <2>3, <2>5 DEF QueueOK
<1>11. LoopOK' /\ Marking' = Marking
  BY <1>1, <1>2, <1>3 DEF IInv, LoopOK, Marking, TypeOK
<1>12. ConcurrencyBound'
  BY <1>4, <1>5, <1>8, ConstantsAssumption DEF ConcurrencyBound, Pending
<1>13. SizeBound'
  BY <1>4, <1>5, <1>6, <1>8, <1>11, MarkingFinite, ConstantsAssumption, SMTT(30)
  DEF IInv, SizeBound, Pending
<1>14. NoLeakedIds'
  BY <1>1 DEF IInv, NoLeakedIds
<1>15. NoMissedIdle'
  <2>1. QueueIdle' => QueueIdle
    <3>1. SUFFICES ASSUME waiting' = <<>>, ExecutingIn(pc') = {}
                   PROVE  waiting = <<>> /\ ExecutingIn(pc) = {}
      BY DEF QueueIdle
    <3>2. started = {}
      BY <3>1, <1>1, <1>7 DEF ExecutingIn, Executing
    <3>3. n = 0
      <4>1. SUFFICES ASSUME n # 0 PROVE FALSE
        OBVIOUS
      <4>2. 1 \in 1..n
        BY <4>1, <1>5
      <4>3. waiting[1] \in started
        BY <4>2
      <4> QED
        BY <4>3, <3>2
    <3>4. Len(waiting) = 0
      BY <3>1, <3>3, <1>4, <1>6, EmptySeq
    <3> QED
      BY <3>1, <3>4, <1>3, <1>8, EmptySeq DEF TypeOK
  <2> QED
    BY <2>1, <1>1, <1>2, <1>3 DEF IInv, NoMissedIdle, TypeOK
<1> QED
  BY <1>9, <1>10, <1>11, <1>12, <1>13, <1>14, <1>15 DEF IInv

\* stop() waits for an idle moment only when there is something to wait for.
LEMMA StopOK ==
  ASSUME IInv, Stop
  PROVE  IInv'
<1>1. TypeOK'
  <2>1. stops' \in 0..MaxStops
    BY ConstantsAssumption DEF IInv, TypeOK, Stop
  <2>2. isRunning' \in BOOLEAN
    BY DEF Stop
  <2>3. stopping' \in BOOLEAN /\ paused' \in BOOLEAN
    <3>1. CASE QueueIdle
      BY <3>1 DEF IInv, TypeOK, Stop
    <3>2. CASE ~QueueIdle
      BY <3>2 DEF IInv, TypeOK, Stop
    <3> QED
      BY <3>1, <3>2
  <2> QED
    BY <2>1, <2>2, <2>3 DEF IInv, TypeOK, Stop, tableVars, loopVars
<1>2. QueueOK(waiting, pc, job)' /\ LoopOK' /\ ConcurrencyBound' /\ SizeBound' /\ NoLeakedIds'
  BY DEF IInv, Stop, loopVars, QueueOK, LoopOK, ConcurrencyBound, Pending, SizeBound, Marking, NoLeakedIds
<1>3. NoMissedIdle'
  BY DEF IInv, Stop, loopVars, NoMissedIdle, QueueIdle
<1> QED
  BY <1>1, <1>2, <1>3 DEF IInv

\* A failed statement of the loop drops the batch.
LEMMA LoopDbErrorOK ==
  ASSUME IInv, NEW l \in Loops, LoopDbError(l)
  PROVE  IInv'
<1>1. /\ loopPc' = [loopPc EXCEPT ![l] = "error"]
      /\ batch' = [batch EXCEPT ![l] = {}] /\ adding' = [adding EXCEPT ![l] = NoJob]
      /\ dbErrors < MaxDbErrors /\ dbErrors' = dbErrors + 1
      /\ UNCHANGED <<tableVars, isRunning, jobIds, paused, waiting, pc, job, stopping,
                     zombies, owed, rejected, crashes, stops>>
  BY DEF LoopDbError
<1>2. TypeOK
  BY DEF IInv
<1>3. TypeOK'
  <2>1. dbErrors' \in 0..MaxDbErrors
    BY <1>1, <1>2, ConstantsAssumption DEF TypeOK
  <2>2. /\ loopPc' \in [Loops -> LoopPcs] /\ batch' \in [Loops -> SUBSET Jobs]
        /\ adding' \in [Loops -> Jobs \cup {NoJob}]
    BY <1>1, <1>2 DEF TypeOK, LoopPcs
  <2> QED
    BY <2>1, <2>2, <1>1, <1>2 DEF TypeOK, tableVars
<1>4. QueueOK(waiting, pc, job)' /\ LoopOK' /\ ConcurrencyBound' /\ NoLeakedIds' /\ NoMissedIdle'
  BY <1>1, <1>2 DEF IInv, TypeOK, QueueOK, LoopOK, ConcurrencyBound, Pending, NoLeakedIds,
                    NoMissedIdle, QueueIdle
<1>5. SizeBound'
  <2>1. Marking' = Marking \ {l}
    BY <1>1, <1>2 DEF Marking, TypeOK
  <2>2. Len(waiting) \in Nat /\ Pending \in Nat
    BY <1>2, LenProperties, ExecutingFinite DEF TypeOK, Pending
  <2>3. Len(waiting) + Pending + Cardinality(Marking) <= SizeLimit + Cardinality(Loops) - 1
    BY DEF IInv, SizeBound
  <2>4. Len(waiting) + Pending + Cardinality(Marking \ {l}) <= SizeLimit + Cardinality(Loops) - 1
    <3>1. /\ Cardinality(Marking \ {l}) \in Nat /\ Cardinality(Marking) \in Nat
          /\ Cardinality(Marking \ {l}) <= Cardinality(Marking)
      BY MarkingRemove, MarkingFinite
    <3> QED
      BY <2>2, <2>3, <3>1, MarkingFinite, ConstantsAssumption
  <2> QED
    BY <2>1, <2>4, <1>1 DEF SizeBound, Pending
<1> QED
  BY <1>3, <1>4, <1>5 DEF IInv

-----------------------------------------------------------------------------
(* Job.work().                                                              *)

\* The inner steps of work(): the task stays an executing one.
LEMMA InnerStepOK ==
  ASSUME IInv, NEW t \in Tasks, NEW v \in Executing \ {"cancelled"},
         pc[t] \in Executing \ {"cancelled"},
         pc' = [pc EXCEPT ![t] = v],
         UNCHANGED <<isRunning, jobIds, paused, waiting, job, stopping, loopVars, owed,
                     rejected, bounds>>,
         /\ status' \in [Jobs -> Statuses] /\ retryCount' \in [Jobs -> Nat]
         /\ backoff' \subseteq Jobs /\ older' \in [Jobs -> SUBSET Jobs]
         /\ zombies' \subseteq Jobs
  PROVE  IInv'
<1>1. TypeOK
  BY DEF IInv
<1>2. pc' \in [Tasks -> TaskPcs]
  BY <1>1 DEF TypeOK, TaskPcs
<1>3. TypeOK'
  BY <1>1, <1>2 DEF TypeOK, loopVars, bounds
<1>4. "waiting" \notin Executing /\ "free" \notin Executing
  BY DEF Executing, Writing, Settled
<1>5. ExecutingIn(pc') = ExecutingIn(pc)
  BY <1>1 DEF TypeOK, ExecutingIn
<1>6. QueueOK(waiting, pc, job)'
  BY <1>1, <1>4, LenProperties, ElementOfSeq DEF IInv, TypeOK, QueueOK
<1>7. LoopOK' /\ Marking' = Marking
  BY DEF IInv, LoopOK, Marking, loopVars
<1>8. ConcurrencyBound' /\ SizeBound' /\ NoMissedIdle'
  BY <1>5, <1>7 DEF IInv, ConcurrencyBound, SizeBound, Pending, NoMissedIdle, QueueIdle, loopVars
<1>9. NoLeakedIds'
  BY <1>1, <1>4 DEF IInv, TypeOK, NoLeakedIds
<1> QED
  BY <1>3, <1>6, <1>7, <1>8, <1>9 DEF IInv

\* The steps that end a task, given what they do to the rest.
LEMMA LastStepOK ==
  ASSUME IInv, NEW t \in Tasks, pc[t] \in Executing,
         NEW ids \in SUBSET jobIds,
         \/ ids = jobIds \ {job[t]}
         \/ ids = jobIds /\ pc[t] = "cancelled",
         Complete(t, ids),
         /\ status' \in [Jobs -> Statuses] /\ retryCount' \in [Jobs -> Nat]
         /\ backoff' \subseteq Jobs /\ older' \in [Jobs -> SUBSET Jobs]
         /\ zombies' = zombies /\ rejected' \in BOOLEAN
         /\ crashes' = crashes /\ stops' = stops /\ dbErrors' \in 0..MaxDbErrors
  PROVE  IInv'
<1>1. \A j \in ids : \E u \in Tasks \ {t} : job[u] = j /\ pc[u] \notin {"free", "cancelled"}
  BY DEF IInv, NoLeakedIds
<1>2. /\ waiting' \in Seq(Tasks) /\ pc' \in [Tasks -> TaskPcs]
      /\ job' \in [Tasks -> Jobs \cup {NoJob}]
      /\ isRunning' \in BOOLEAN /\ paused' \in BOOLEAN /\ stopping' \in BOOLEAN
      /\ loopPc' \in [Loops -> LoopPcs]
      /\ jobIds' \subseteq Jobs /\ owed' \subseteq Jobs
      /\ batch' = batch /\ adding' = adding
      /\ QueueOK(waiting, pc, job)' /\ LoopOK' /\ ConcurrencyBound' /\ SizeBound'
      /\ NoLeakedIds' /\ NoMissedIdle'
  BY <1>1, CompleteOK
<1>3. TypeOK'
  BY <1>2 DEF IInv, TypeOK
<1> QED
  BY <1>2, <1>3 DEF IInv

\* Every step of a task.
LEMMA TaskStepOK ==
  ASSUME IInv, NEW t \in Tasks, TaskStep(t) \/ TaskDbError(t)
  PROVE  IInv'
<1> USE DEF Executing, Writing, Settled
<1>1. TypeOK /\ (pc[t] # "free" => job[t] \in Jobs)
  BY DEF IInv, QueueOK
<1>2. ASSUME NEW o \in Outcomes, HandlerSettles(t, o) PROVE IInv'
  <2>1. AfterHandler[o] \in Executing \ {"cancelled"}
    BY ConstantsAssumption DEF AfterHandler, HandlerOutcomes
  <2>2. zombies' \subseteq Jobs
    BY <1>1, <1>2 DEF HandlerSettles, TypeOK
  <2> QED
    BY <2>1, <2>2, <1>1, <1>2, InnerStepOK DEF HandlerSettles, TypeOK, tableVars
<1>3. CASE HostSaved(t)
  BY <1>1, <1>3, InnerStepOK DEF HostSaved, TypeOK, tableVars
<1>4. CASE RetryCounted(t)
  <2>1. /\ pc[t] = "bump" /\ job[t] \in Jobs
        /\ retryCount' = [retryCount EXCEPT ![job[t]] = retryCount[job[t]] + 1]
        /\ backoff' = backoff \cup {job[t]} /\ Touch({job[t]}) /\ status' = status
        /\ zombies' = zombies
        /\ \E v \in {"pending", "failed"} : pc' = [pc EXCEPT ![t] = v]
    BY <1>1, <1>4 DEF RetryCounted
  <2>2. /\ status' \in [Jobs -> Statuses] /\ retryCount' \in [Jobs -> Nat]
        /\ backoff' \subseteq Jobs /\ older' \in [Jobs -> SUBSET Jobs] /\ zombies' \subseteq Jobs
    BY <1>1, <2>1 DEF TypeOK, Touch
  <2> QED
    BY <1>4, <2>1, <2>2, InnerStepOK DEF RetryCounted
<1>5. CASE RetryRowMissing(t)
  BY <1>1, <1>5, LastStepOK DEF RetryRowMissing, TypeOK, tableVars, bounds
<1>6. CASE StatusWritten(t)
  <2>1. pc[t] \in Statuses
    BY <1>6 DEF StatusWritten, Statuses
  <2>2. /\ status' \in [Jobs -> Statuses] /\ retryCount' \in [Jobs -> Nat]
        /\ backoff' \subseteq Jobs /\ older' \in [Jobs -> SUBSET Jobs]
    BY <1>1, <1>6, <2>1, UpdateJobStatusOK DEF StatusWritten
  <2> QED
    BY <1>1, <1>6, <2>2, LastStepOK DEF StatusWritten, TypeOK, bounds
<1>7. CASE TaskDbError(t)
  <2>1. dbErrors' \in 0..MaxDbErrors /\ rejected' \in BOOLEAN
    BY <1>1, <1>7, ConstantsAssumption DEF TaskDbError, TypeOK
  <2> QED
    BY <1>1, <1>7, <2>1, LastStepOK DEF TaskDbError, TypeOK, tableVars
<1>8. CASE CancelledEnds(t)
  BY <1>1, <1>8, LastStepOK DEF CancelledEnds, TypeOK, tableVars, bounds
<1> QED
  BY <1>2, <1>3, <1>4, <1>5, <1>6, <1>7, <1>8 DEF TaskStep

-----------------------------------------------------------------------------
(* The rest of the service.                                                 *)

\* Steps that leave the process alone keep what is said about it.
LEMMA ProcessUntouched ==
  ASSUME IInv, TypeOK',
         UNCHANGED <<isRunning, jobIds, paused, waiting, pc, job, stopping, loopVars>>
  PROVE  IInv'
BY DEF IInv, QueueOK, LoopOK, ConcurrencyBound, Pending, SizeBound, Marking, NoLeakedIds,
       NoMissedIdle, QueueIdle, loopVars

\* Requests, rollbacks and the passing of time change the table only.
LEMMA TableStepOK ==
  ASSUME IInv,
         \/ RetryAllFailedJobs
         \/ \E j \in Jobs : \/ InsertJob(j) \/ RequestRefresh(j) \/ DeleteJob(j)
                            \/ RetryAfterPasses(j) \/ ZombieEnds(j)
  PROVE  IInv'
<1> USE DEF Statuses
<1>1. TypeOK
  BY DEF IInv
<1>2. CASE RetryAllFailedJobs
  <2>1. PICK failed \in SUBSET Jobs :
          /\ status' = [j \in Jobs |-> IF j \in failed THEN "pending" ELSE status[j]]
          /\ retryCount' = [j \in Jobs |-> IF j \in failed THEN 0 ELSE retryCount[j]]
          /\ backoff' = backoff \ failed /\ owed' = owed \cup failed
          /\ Touch(failed) /\ QueueUnchanged
    BY <1>2 DEF RetryAllFailedJobs
  <2>2. TypeOK'
    BY <1>1, <2>1 DEF TypeOK, Touch, QueueUnchanged, loopVars, bounds
  <2> QED
    BY <2>1, <2>2, ProcessUntouched DEF QueueUnchanged
<1>3. ASSUME NEW j \in Jobs, InsertJob(j) \/ RequestRefresh(j) PROVE IInv'
  <2>1. /\ status' = [status EXCEPT ![j] = "pending"] /\ owed' = owed \cup {j}
        /\ Touch({j}) /\ UNCHANGED <<retryCount, backoff>> /\ QueueUnchanged
    BY <1>3 DEF InsertJob, RequestRefresh
  <2>2. /\ status' \in [Jobs -> Statuses] /\ owed' \subseteq Jobs
        /\ older' \in [Jobs -> SUBSET Jobs]
    BY <1>1, <2>1 DEF TypeOK, Touch
  <2>3. TypeOK'
    BY <1>1, <2>1, <2>2 DEF TypeOK, QueueUnchanged, loopVars, bounds
  <2> QED
    BY <2>1, <2>3, ProcessUntouched DEF QueueUnchanged
<1>4. ASSUME NEW j \in Jobs, DeleteJob(j) \/ RetryAfterPasses(j) PROVE IInv'
  <2>1. QueueUnchanged /\ older' = older
    BY <1>4 DEF DeleteJob, RetryAfterPasses
  <2>2. /\ status' \in [Jobs -> Statuses] /\ retryCount' \in [Jobs -> Nat]
        /\ backoff' \subseteq Jobs /\ owed' \subseteq Jobs
    <3>1. CASE DeleteJob(j)
      BY <1>1, <3>1 DEF TypeOK, DeleteJob
    <3>2. CASE RetryAfterPasses(j)
      BY <1>1, <3>2 DEF TypeOK, RetryAfterPasses
    <3> QED
      BY <1>4, <3>1, <3>2
  <2>3. TypeOK'
    BY <1>1, <2>1, <2>2 DEF TypeOK, QueueUnchanged, loopVars, bounds
  <2> QED
    BY <2>1, <2>3, ProcessUntouched DEF QueueUnchanged
<1>5. ASSUME NEW j \in Jobs, ZombieEnds(j) PROVE IInv'
  <2>1. TypeOK'
    BY <1>1, <1>5 DEF TypeOK, ZombieEnds, tableVars, loopVars, bounds
  <2> QED
    BY <1>5, <2>1, ProcessUntouched DEF ZombieEnds
<1> QED
  BY <1>2, <1>3, <1>4, <1>5

\* An empty process satisfies everything said about processes.
ProcessEmpty ==
  /\ TypeOK
  /\ waiting = <<>> /\ jobIds = {} /\ stopping = FALSE
  /\ pc = [t \in Tasks |-> "free"] /\ loopPc = [l \in Loops |-> "off"]

LEMMA EmptyProcess == ProcessEmpty => IInv
<1> SUFFICES ASSUME ProcessEmpty PROVE IInv
  OBVIOUS
<1> USE DEF ProcessEmpty
<1>1. ExecutingIn(pc) = {}
  BY DEF ExecutingIn, Executing, Writing, Settled
<1>2. Pending = 0 /\ Len(waiting) = 0
  BY <1>1, FS_EmptySet, EmptySeq DEF Pending
<1>3. Marking = {}
  BY DEF Marking
<1>4. Cardinality(Marking) = 0 /\ Cardinality(Loops) >= 1 /\ Cardinality(Loops) \in Nat
  BY <1>3, FS_EmptySet, FS_CardinalityType, ConstantsAssumption
<1>5. ConcurrencyBound /\ SizeBound
  BY <1>2, <1>4, ConstantsAssumption DEF ConcurrencyBound, SizeBound
<1>6. QueueOK(waiting, pc, job) /\ LoopOK /\ NoLeakedIds /\ NoMissedIdle
  BY <1>2 DEF QueueOK, LoopOK, NoLeakedIds, NoMissedIdle
<1> QED
  BY <1>5, <1>6 DEF IInv

\* A crash leaves the table and an empty process.
LEMMA CrashOK ==
  ASSUME IInv, Crash
  PROVE  IInv'
<1>1. TypeOK'
  <2>1. crashes' \in 0..MaxCrashes
    BY ConstantsAssumption DEF IInv, TypeOK, Crash
  <2>2. waiting' \in Seq(Tasks)
    BY EmptySeq DEF Crash
  <2> QED
    BY <2>1, <2>2 DEF IInv, TypeOK, Crash, tableVars, TaskPcs, LoopPcs
<1>2. ProcessEmpty'
  BY <1>1 DEF Crash, ProcessEmpty
<1> QED
  BY <1>2, EmptyProcess, PTL

-----------------------------------------------------------------------------
(* The theorems.                                                            *)

\* A process that has just started has the invariant.
LEMMA InitOK == Init => IInv
<1>1. SUFFICES ASSUME Init PROVE IInv
  OBVIOUS
<1>2. waiting \in Seq(Tasks)
  BY <1>1, EmptySeq DEF Init
<1>3. TypeOK
  <2>1. crashes \in 0..MaxCrashes /\ stops \in 0..MaxStops /\ dbErrors \in 0..MaxDbErrors
    BY <1>1, ConstantsAssumption DEF Init
  <2>2. /\ status \in [Jobs -> Statuses] /\ retryCount \in [Jobs -> Nat]
        /\ older \in [Jobs -> SUBSET Jobs] /\ backoff \subseteq Jobs
    BY <1>1 DEF Init, Statuses
  <2>3. /\ pc \in [Tasks -> TaskPcs] /\ job \in [Tasks -> Jobs \cup {NoJob}]
        /\ loopPc \in [Loops -> LoopPcs] /\ batch \in [Loops -> SUBSET Jobs]
        /\ adding \in [Loops -> Jobs \cup {NoJob}]
    BY <1>1 DEF Init, TaskPcs, LoopPcs
  <2> QED
    BY <1>1, <1>2, <2>1, <2>2, <2>3 DEF Init, TypeOK
<1> QED
  BY <1>1, <1>3, EmptyProcess DEF Init, ProcessEmpty

\* Every step keeps the invariant.
LEMMA NextOK == IInv /\ [Next]_vars => IInv'
<1>1. SUFFICES ASSUME IInv, [Next]_vars PROVE IInv'
  OBVIOUS
<1>2. CASE Start
  BY <1>1, <1>2, StartOK
<1>3. ASSUME NEW l \in Loops, LoopStep(l) PROVE IInv'
  BY <1>1, <1>3, LoopStepOK
<1>4. ASSUME NEW t \in Tasks, TaskStep(t) \/ TaskDbError(t) PROVE IInv'
  BY <1>1, <1>4, TaskStepOK
<1>5. CASE \/ RetryAllFailedJobs
           \/ \E j \in Jobs : \/ InsertJob(j) \/ RequestRefresh(j) \/ DeleteJob(j)
                              \/ RetryAfterPasses(j) \/ ZombieEnds(j)
  BY <1>1, <1>5, TableStepOK
<1>6. CASE Stop
  BY <1>1, <1>6, StopOK
<1>7. CASE Crash
  BY <1>1, <1>7, CrashOK
<1>8. ASSUME NEW l \in Loops, LoopDbError(l) PROVE IInv'
  BY <1>1, <1>8, LoopDbErrorOK
<1>9. CASE UNCHANGED vars
  BY <1>1, <1>9 DEF vars, tableVars, loopVars, bounds, IInv, TypeOK, QueueOK, LoopOK, ConcurrencyBound,
                    Pending, SizeBound, Marking, NoLeakedIds, NoMissedIdle, QueueIdle
<1> QED
  BY <1>1, <1>2, <1>3, <1>4, <1>5, <1>6, <1>7, <1>8, <1>9 DEF Next, Environment

\* The invariant holds in every reachable state, for all constants.
THEOREM Invariance == Spec => []IInv
BY InitOK, NextOK, PTL DEF Spec

\* Every variable of the job queue keeps its type.
THEOREM TypeCorrect == Spec => []TypeOK
<1>1. IInv => TypeOK
  BY DEF IInv
<1> QED
  BY <1>1, Invariance, PTL

\* The p-queue never runs more tasks than JOB_QUEUE_CONCURRENCY_LIMIT.
THEOREM ConcurrencyBounded == Spec => []ConcurrencyBound
<1>1. IInv => ConcurrencyBound
  BY DEF IInv
<1> QED
  BY <1>1, Invariance, PTL

\* JOB_QUEUE_SIZE_LIMIT is exceeded by no more than the other loops' awaits.
THEOREM SizeBounded == Spec => []SizeBound
<1>1. IInv => SizeBound
  BY DEF IInv
<1> QED
  BY <1>1, Invariance, PTL

\* No id stays in jobIds without a task that will take it out.
THEOREM NoIdLeaks == Spec => []NoLeakedIds
<1>1. IInv => NoLeakedIds
  BY DEF IInv
<1> QED
  BY <1>1, Invariance, PTL

\* Nobody waits for an idle moment that has already passed.
THEOREM NoIdleIsMissed == Spec => []NoMissedIdle
<1>1. IInv => NoMissedIdle
  BY DEF IInv
<1> QED
  BY <1>1, Invariance, PTL
=============================================================================
