------------------------- MODULE JobLifecycleProofs -------------------------
(***************************************************************************)
(* JobQueue implements JobLifecycle as long as nobody has called stop() and  *)
(* no statement has failed, for every number of jobs and tasks, every limit, *)
(* and any number of crashes.                                                *)
(***************************************************************************)
EXTENDS JobQueueProofs

Used(t) == pc[t] # "free"
Unheld(j) == \A t \in Tasks : job[t] # j
\* A row somebody may take: it has been asked for, or was left behind, or is gone.
Takeable(j) == status[j] \in {"pending", "queued", "deleted"}

\* Before the first stop(): one loop at most, and none, nor a task, beside a
\* queue that is not running; each task has a row of its own, and jobIds has it.
Workers ==
  /\ ~isRunning => (\A l \in Loops : loopPc[l] = "off") /\ (\A t \in Tasks : ~Used(t))
  /\ \A l, m \in Loops : loopPc[l] # "off" /\ loopPc[m] # "off" => l = m
  /\ \A t \in Tasks : pc[t] # "cancelled"
  /\ \A t \in Tasks : Used(t) <=> job[t] # NoJob
  /\ \A t \in Tasks : Used(t) => job[t] \in jobIds
  /\ \A t, u \in Tasks : Used(t) /\ job[t] = job[u] => t = u
  /\ \A l \in Loops : loopPc[l] = "marking" => adding[l] \notin jobIds
  /\ \A t \in Tasks : pc[t] = "waiting" => \E i \in 1..Len(waiting) : waiting[i] = t

\* While no statement fails, a loop reads only when nothing is executed; so what
\* is left of its batch is nobody's, and nobody settles it.
LeftOver(l) == batch[l] \cup {adding[l]}
Steady ==
  /\ \A l \in Loops : loopPc[l] # "error"
  /\ \A l \in Loops : loopPc[l] \in {"top", "readPending"} => \A t \in Tasks : ~Used(t)
  /\ \A l \in Loops : loopPc[l] = "marking" =>
       /\ adding[l] \notin batch[l]
       /\ \A j \in LeftOver(l) : Unheld(j) /\ Takeable(j)
  /\ \A t \in Tasks : Used(t) => Takeable(job[t])

\* While nothing crashes either, a row is queued only with its task, so that a
\* batch has pending rows, which were due when they were read.
Due ==
  /\ \A j \in Jobs : status[j] = "queued" => ~Unheld(j)
  /\ \A l \in Loops : loopPc[l] = "marking" => LeftOver(l) \cap backoff = {}

QInv ==
  stops = 0 => /\ Workers
               /\ dbErrors = 0 => Steady /\ (crashes = 0 => Due)

-----------------------------------------------------------------------------
(* The p-queue's moves while the queue is running.                          *)

\* _tryToStartAnother() before the first stop(): a task that leaves the queue
\* starts its handler, and jobIds stays.
LEMMA Starts ==
  ASSUME NEW w \in Seq(Tasks), NEW p \in [Tasks -> TaskPcs],
         NEW jb \in [Tasks -> Jobs \cup {NoJob}], NEW ids,
         isRunning, QueueOK(w, p, jb),
         \A t \in Tasks : p[t] = "waiting" => \E i \in 1..Len(w) : w[i] = t,
         TryToStartAnother(w, p, jb, ids)
  PROVE  /\ jobIds' = ids
         /\ \A t \in Tasks : pc'[t] = p[t] \/ (p[t] = "waiting" /\ pc'[t] = "handler")
         /\ \A t \in Tasks : pc'[t] = "waiting" => \E i \in 1..Len(waiting') : waiting'[i] = t
         /\ w = <<>> => pc' = p
<1>1. CASE w # <<>> /\ ~paused /\ Cardinality(ExecutingIn(p)) < ConcurrencyLimit
  <2>1. waiting' = Tail(w) /\ pc' = [p EXCEPT ![Head(w)] = "handler"] /\ jobIds' = ids
    BY <1>1 DEF TryToStartAnother, StartedPc
  <2>2. /\ Head(w) \in Tasks /\ Head(w) = w[1] /\ Tail(w) \in Seq(Tasks)
        /\ Len(w) \in Nat /\ Len(w) >= 1 /\ Len(Tail(w)) = Len(w) - 1
        /\ \A i \in 1..Len(Tail(w)) : Tail(w)[i] = w[i+1]
    BY <1>1, HeadTailProperties, EmptySeq, LenProperties
  <2>3. p[Head(w)] = "waiting"
    BY <2>2 DEF QueueOK
  <2>4. ASSUME NEW t \in Tasks, pc'[t] = "waiting"
        PROVE  \E i \in 1..Len(waiting') : waiting'[i] = t
    <3>1. p[t] = "waiting" /\ t # w[1]
      BY <2>1, <2>2, <2>4
    <3>2. PICK i \in 1..Len(w) : w[i] = t
      BY <3>1
    <3>3. i - 1 \in 1..Len(Tail(w)) /\ Tail(w)[i - 1] = t
      BY <2>2, <3>1, <3>2
    <3> QED
      BY <2>1, <3>3
  <2> QED
    BY <1>1, <2>1, <2>2, <2>3, <2>4
<1>2. CASE ~(w # <<>> /\ ~paused /\ Cardinality(ExecutingIn(p)) < ConcurrencyLimit)
  BY <1>2 DEF TryToStartAnother
<1> QED
  BY <1>1, <1>2

\* With nothing waiting and nothing executed, no task is in use.
LEMMA IdleIsEmpty ==
  ASSUME TypeOK, \A t \in Tasks : pc[t] = "waiting" => \E i \in 1..Len(waiting) : waiting[i] = t,
         NEW S, waiting = <<>>, ExecutingIn(pc) \subseteq S
  PROVE  \A t \in Tasks \ S : pc[t] = "free"
<1>1. Len(waiting) = 0
  BY EmptySeq
<1> QED
  BY <1>1 DEF TypeOK, TaskPcs, ExecutingIn

\* A task's end.
LEMMA Ends ==
  ASSUME IInv, Workers, NEW t \in Tasks, pc[t] \in Executing,
         Complete(t, jobIds \ {job[t]})
  PROVE  /\ isRunning /\ isRunning' = isRunning /\ batch' = batch /\ adding' = adding
         /\ jobIds' = jobIds \ {job[t]}
         /\ pc'[t] = "free" /\ job' = [job EXCEPT ![t] = NoJob]
         /\ \A u \in Tasks \ {t} : pc'[u] = pc[u] \/ (pc[u] = "waiting" /\ pc'[u] = "handler")
         /\ \A u \in Tasks : pc'[u] = "waiting" => \E i \in 1..Len(waiting') : waiting'[i] = u
         /\ \A l \in Loops :
              \/ loopPc'[l] = loopPc[l]
              \/ /\ loopPc[l] = "idle" /\ loopPc'[l] = "top"
                 /\ \A u \in Tasks : pc'[u] = "free"
<1> DEFINE p == [pc EXCEPT ![t] = "free"]
           idle == waiting = <<>> /\ ExecutingIn(pc) = {t}
<1>1. /\ TryToStartAnother(waiting, p, job, jobIds \ {job[t]})
      /\ job' = [job EXCEPT ![t] = NoJob]
      /\ loopPc' = [l \in Loops |-> IF idle /\ loopPc[l] = "idle" THEN "top" ELSE loopPc[l]]
      /\ isRunning' = isRunning /\ batch' = batch /\ adding' = adding
  BY DEF Complete
<1>2. /\ waiting \in Seq(Tasks) /\ pc \in [Tasks -> TaskPcs]
      /\ job \in [Tasks -> Jobs \cup {NoJob}] /\ isRunning \in BOOLEAN
  BY DEF IInv, TypeOK
<1>3. pc[t] # "waiting" /\ pc[t] # "free"
  BY DEF Executing, Writing, Settled
<1>4. isRunning
  BY <1>3 DEF Workers, Used
<1>5. p \in [Tasks -> TaskPcs] /\ QueueOK(waiting, p, job)
  BY <1>2, <1>3, ElementOfSeq DEF IInv, QueueOK, TaskPcs
<1>6. \A u \in Tasks : p[u] = "waiting" => \E i \in 1..Len(waiting) : waiting[i] = u
  BY <1>2 DEF Workers
<1>7. /\ jobIds' = jobIds \ {job[t]}
      /\ \A u \in Tasks : pc'[u] = p[u] \/ (p[u] = "waiting" /\ pc'[u] = "handler")
      /\ \A u \in Tasks : pc'[u] = "waiting" => \E i \in 1..Len(waiting') : waiting'[i] = u
      /\ waiting = <<>> => pc' = p
  BY <1>1, <1>2, <1>4, <1>5, <1>6, Starts
<1>8. ASSUME idle
      PROVE  \A u \in Tasks : pc'[u] = "free"
  <2>1. \A u \in Tasks \ {t} : pc[u] = "free"
    BY <1>8, IdleIsEmpty DEF IInv, Workers
  <2> QED
    BY <1>2, <1>7, <1>8, <2>1
<1>9. pc'[t] = "free" /\ \A u \in Tasks \ {t} : p[u] = pc[u]
  BY <1>2, <1>7
<1> QED
  BY <1>1, <1>4, <1>7, <1>8, <1>9

\* The rest of a batch, up to the next await.
LEMMA Adds ==
  ASSUME TypeOK, NEW l \in Loops, NEW rows \in SUBSET Jobs, AddRows(l, rows)
  PROVE  /\ \A m \in Loops \ {l} :
              loopPc'[m] = loopPc[m] /\ batch'[m] = batch[m] /\ adding'[m] = adding[m]
         /\ \/ loopPc'[l] = "idle"
            \/ loopPc'[l] = "top" /\ QueueIdle'
            \/ /\ loopPc'[l] = "marking" /\ isRunning'
               /\ adding'[l] \in rows /\ batch'[l] = rows \ {adding'[l]}
               /\ adding'[l] \notin jobIds'
  BY DEF TypeOK, AddRows, AwaitIdle, AddRefused

-----------------------------------------------------------------------------
(* The loop.                                                                *)

\* A loop moves on without having touched the queue or the table: what it has
\* to know of where it goes.
LEMMA ReadKeeps ==
  ASSUME IInv, QInv, stops = 0, NEW l \in Loops, LoopUnchanged, loopPc[l] # "off",
         \A m \in Loops \ {l} :
           loopPc'[m] = loopPc[m] /\ batch'[m] = batch[m] /\ adding'[m] = adding[m],
         loopPc'[l] = "marking" => adding'[l] \notin jobIds' /\ adding'[l] \notin batch'[l],
         dbErrors = 0 =>
           /\ loopPc'[l] # "error"
           /\ loopPc'[l] \in {"top", "readPending"} => \A t \in Tasks : ~Used(t)
           /\ loopPc'[l] = "marking" =>
                /\ \A j \in LeftOver(l)' : Unheld(j) /\ Takeable(j)
                /\ crashes = 0 => LeftOver(l)' \cap backoff = {}
  PROVE  QInv'
<1> USE DEF LoopUnchanged, tableVars, bounds
<1>1. Workers
  BY DEF QInv
<1>2. isRunning
  BY <1>1 DEF Workers
<1>3. Workers'
  BY <1>1, <1>2 DEF Workers, Used
<1>4. ASSUME dbErrors = 0
      PROVE  Steady'
  BY <1>4 DEF QInv, Steady, Used, Unheld, Takeable, LeftOver
<1>5. ASSUME dbErrors = 0, crashes = 0
      PROVE  Due'
  BY <1>5 DEF QInv, Due, Unheld, LeftOver
<1> QED
  BY <1>3, <1>4, <1>5 DEF QInv

\* The rows of a batch, as they are read.
LEMMA ReadRowsKeeps ==
  ASSUME IInv, QInv, stops = 0, NEW l \in Loops, LoopUnchanged, loopPc[l] # "off",
         NEW rows \in SUBSET Jobs, AddRows(l, rows),
         dbErrors = 0 => /\ \A j \in rows : Unheld(j) /\ Takeable(j)
                         /\ crashes = 0 => rows \cap backoff = {}
  PROVE  QInv'
<1>1. /\ \A m \in Loops \ {l} :
           loopPc'[m] = loopPc[m] /\ batch'[m] = batch[m] /\ adding'[m] = adding[m]
      /\ \/ loopPc'[l] = "idle"
         \/ loopPc'[l] = "top" /\ QueueIdle'
         \/ /\ loopPc'[l] = "marking" /\ isRunning'
            /\ adding'[l] \in rows /\ batch'[l] = rows \ {adding'[l]}
            /\ adding'[l] \notin jobIds'
  BY Adds DEF IInv
<1>2. QueueIdle' => \A t \in Tasks : ~Used(t)
  <2>1. ASSUME QueueIdle'
        PROVE  waiting = <<>> /\ ExecutingIn(pc) = {}
    BY <2>1 DEF QueueIdle, LoopUnchanged
  <2> QED
    BY <2>1, IdleIsEmpty DEF IInv, QInv, Workers, Used
<1>3. loopPc'[l] = "marking" => LeftOver(l)' = rows
  BY <1>1 DEF LeftOver
<1> QED
  BY <1>1, <1>2, <1>3, ReadKeeps

\* The rows left behind are read when no task is in use, so nobody holds them.
LEMMA LoopReadsQueuedKeeps ==
  ASSUME IInv, QInv, stops = 0, NEW l \in Loops, LoopReadsQueued(l)
  PROVE  QInv'
<1>1. loopPc[l] = "top" /\ LoopUnchanged
  BY DEF LoopReadsQueued
<1>2. dbErrors = 0 => \A t \in Tasks : ~Used(t)
  BY <1>1 DEF QInv, Steady
<1>3. CASE loopPc' = [loopPc EXCEPT ![l] = "readPending"] /\ UNCHANGED <<batch, adding>>
  BY <1>1, <1>2, <1>3, ReadKeeps DEF IInv, TypeOK
<1>4. CASE AddRows(l, QueuedExcluding(jobIds))
  <2>1. /\ QueuedExcluding(jobIds) \in SUBSET Jobs
        /\ \A j \in QueuedExcluding(jobIds) : status[j] = "queued"
    BY DEF QueuedExcluding
  <2>2. dbErrors = 0 => \A j \in Jobs : Unheld(j)
    BY <1>2, ConstantsAssumption DEF QInv, Workers, Unheld
  <2>3. dbErrors = 0 /\ crashes = 0 => QueuedExcluding(jobIds) = {}
    BY <2>1, <2>2 DEF QInv, Due
  <2> QED
    BY <1>1, <1>4, <2>1, <2>2, <2>3, ReadRowsKeeps DEF Takeable
<1> QED
  BY <1>3, <1>4 DEF LoopReadsQueued

\* The pending rows are read when no task is in use, and they are due.
LEMMA LoopReadsPendingKeeps ==
  ASSUME IInv, QInv, stops = 0, NEW l \in Loops, LoopReadsPending(l)
  PROVE  QInv'
<1>1. loopPc[l] = "readPending" /\ LoopUnchanged
  BY DEF LoopReadsPending
<1>2. PICK pending \in PendingBatches(SizeLimit) :
        IF pending # {} THEN AddRows(l, pending)
        ELSE loopPc' = [loopPc EXCEPT ![l] = "sleep"] /\ UNCHANGED <<batch, adding>>
  BY DEF LoopReadsPending
<1>3. pending \in SUBSET Jobs /\ \A j \in pending : status[j] = "pending" /\ j \notin backoff
  BY DEF PendingBatches, PendingDue
<1>4. dbErrors = 0 => \A j \in Jobs : Unheld(j)
  BY <1>1, ConstantsAssumption DEF QInv, Workers, Steady, Unheld
<1>5. CASE AddRows(l, pending)
  BY <1>1, <1>3, <1>4, <1>5, ReadRowsKeeps DEF Takeable
<1>6. CASE loopPc' = [loopPc EXCEPT ![l] = "sleep"] /\ UNCHANGED <<batch, adding>>
  BY <1>1, <1>6, ReadKeeps DEF IInv, TypeOK
<1> QED
  BY <1>2, <1>5, <1>6

\* After an empty batch and its timeout there is nothing to add.
LEMMA LoopWakesKeeps ==
  ASSUME IInv, QInv, stops = 0, NEW l \in Loops, LoopWakes(l)
  PROVE  QInv'
<1>1. loopPc[l] = "sleep" /\ LoopUnchanged /\ AddRows(l, {})
  BY DEF LoopWakes, AddRows
<1> QED
  BY <1>1, ReadRowsKeeps

\* A loop that ends, or goes on after a failed statement.
LEMMA LoopRestKeeps ==
  ASSUME IInv, QInv, stops = 0, NEW l \in Loops, LoopExits(l) \/ LoopResumes(l)
  PROVE  QInv'
<1>1. CASE LoopExits(l)
  BY <1>1 DEF LoopExits, QInv, Workers
<1>2. CASE LoopResumes(l)
  <2>1. loopPc[l] = "error" /\ LoopUnchanged /\ dbErrors # 0
    BY <1>2 DEF LoopResumes, QInv, Steady
  <2> QED
    BY <1>2, <2>1, ReadKeeps DEF LoopResumes, IInv, TypeOK
<1> QED
  BY <1>1, <1>2

\* The row of a new task was nobody's, and the rest of the batch still is.
LEMMA LoopEnqueuesKeeps ==
  ASSUME IInv, QInv, stops = 0, NEW l \in Loops, LoopEnqueues(l)
  PROVE  QInv'
<1>1. PICK j \in Jobs : adding[l] = j
  BY DEF LoopEnqueues, IInv, LoopOK
<1>2. Workers /\ loopPc[l] = "marking" /\ isRunning /\ j # NoJob
  BY ConstantsAssumption DEF LoopEnqueues, QInv, Workers
<1>3. PICK t \in Tasks :
        /\ pc[t] = "free"
        /\ job' = [job EXCEPT ![t] = j]
        /\ TryToStartAnother(Append(waiting, t), [pc EXCEPT ![t] = "waiting"], job',
                             jobIds \cup {j})
  BY <1>1 DEF LoopEnqueues
<1>4. /\ UpdateJobStatus(j, "queued") /\ AddRows(l, batch[l])
      /\ UNCHANGED <<isRunning, paused, stopping, zombies, rejected, bounds>>
  BY <1>1 DEF LoopEnqueues
<1>5. /\ waiting \in Seq(Tasks) /\ pc \in [Tasks -> TaskPcs] /\ job \in [Tasks -> Jobs \cup {NoJob}]
      /\ batch[l] \in SUBSET Jobs /\ status \in [Jobs -> Statuses]
  BY DEF IInv, TypeOK
<1> DEFINE w == Append(waiting, t)
           p == [pc EXCEPT ![t] = "waiting"]
<1>6. /\ w \in Seq(Tasks) /\ Len(w) = Len(waiting) + 1 /\ Len(waiting) \in Nat
      /\ w[Len(waiting) + 1] = t /\ \A i \in 1..Len(waiting) : w[i] = waiting[i]
  BY <1>5, AppendProperties, LenProperties
<1>7. p \in [Tasks -> TaskPcs] /\ job' \in [Tasks -> Jobs \cup {NoJob}]
      /\ job'[t] = j /\ \A u \in Tasks \ {t} : job'[u] = job[u]
  BY <1>2, <1>3, <1>5 DEF TaskPcs
<1>8. QueueOK(w, p, job')
  <2>1. \A i \in 1..Len(waiting) : waiting[i] # t
    BY <1>3 DEF IInv, QueueOK
  <2>2. \A i \in 1..Len(w) : p[w[i]] = "waiting"
    BY <1>5, <1>6, ElementOfSeq DEF IInv, QueueOK
  <2>3. \A i, k \in 1..Len(w) : w[i] = w[k] => i = k
    BY <1>6, <2>1 DEF IInv, QueueOK
  <2>4. \A u \in Tasks : p[u] # "free" => job'[u] \in Jobs
    BY <1>2, <1>5, <1>7 DEF IInv, QueueOK
  <2> QED
    BY <2>2, <2>3, <2>4 DEF QueueOK
<1>9. \A u \in Tasks : p[u] = "waiting" => \E i \in 1..Len(w) : w[i] = u
  <2> SUFFICES ASSUME NEW u \in Tasks, p[u] = "waiting"
               PROVE  \E i \in 1..Len(w) : w[i] = u
    OBVIOUS
  <2>1. CASE u = t
    BY <1>6, <2>1
  <2>2. CASE u # t
    <3>1. PICK i \in 1..Len(waiting) : waiting[i] = u
      BY <1>2, <1>5, <2>2 DEF Workers
    <3> QED
      BY <1>6, <3>1
  <2> QED
    BY <2>1, <2>2
<1>10. \A m \in Loops \ {l} : loopPc[m] = "off"
  BY <1>2 DEF Workers
<1>11. \A u \in Tasks \ {t} : job[u] # j
  BY <1>1, <1>2 DEF Workers
<1>12. TryToStartAnother(w, p, job', jobIds \cup {j})
  BY <1>3
<1> HIDE DEF w, p
<1>13. /\ jobIds' = jobIds \cup {j}
       /\ \A u \in Tasks : pc'[u] = p[u] \/ (p[u] = "waiting" /\ pc'[u] = "handler")
       /\ \A u \in Tasks : pc'[u] = "waiting" => \E i \in 1..Len(waiting') : waiting'[i] = u
  BY <1>2, <1>12, <1>6, <1>7, <1>8, <1>9, Starts
<1>14. /\ Used(t)' /\ pc'[t] # "cancelled"
       /\ \A u \in Tasks \ {t} : /\ Used(u)' <=> Used(u)
                                 /\ pc'[u] = "cancelled" => pc[u] = "cancelled"
  BY <1>5, <1>13 DEF p, Used
<1>15. /\ \A m \in Loops \ {l} :
            loopPc'[m] = loopPc[m] /\ batch'[m] = batch[m] /\ adding'[m] = adding[m]
       /\ \/ loopPc'[l] = "idle"
          \/ loopPc'[l] = "top" /\ QueueIdle'
          \/ /\ loopPc'[l] = "marking" /\ isRunning'
             /\ adding'[l] \in batch[l] /\ batch'[l] = batch[l] \ {adding'[l]}
             /\ adding'[l] \notin jobIds'
  BY <1>4, <1>5, Adds DEF IInv
<1>16. Workers'
  <2>1. \A u, v \in Tasks : Used(u)' /\ job'[u] = job'[v] => u = v
    <3>2. \A u, v \in Tasks \ {t} : Used(u) /\ job[u] = job[v] => u = v
      BY <1>2 DEF Workers
    <3> QED
      BY <1>7, <1>14, <1>11, <3>2
  <2>2. \A u \in Tasks : (Used(u)' <=> job'[u] # NoJob) /\ (Used(u)' => job'[u] \in jobIds')
    BY <1>2, <1>7, <1>13, <1>14 DEF Workers
  <2>3. \A m \in Loops \ {l} : loopPc[m] = "off"
    BY <1>2 DEF Workers
  <2> QED
    BY <1>2, <1>4, <1>13, <1>14, <1>15, <2>1, <2>2, <2>3 DEF Workers
<1>17. loopPc'[l] # "top"
  <2>1. ~QueueIdle'
    <3>1. CASE pc'[t] = "waiting"
      <4>1. waiting' # <<>>
        BY <1>13, <3>1, EmptySeq
      <4> QED
        BY <4>1 DEF QueueIdle
    <3>2. CASE pc'[t] = "handler"
      <4>1. t \in ExecutingIn(pc')
        BY <3>2 DEF ExecutingIn, Executing
      <4> QED
        BY <4>1 DEF QueueIdle
    <3> QED
      BY <1>5, <1>13, <3>1, <3>2 DEF p
  <2> QED
    BY <1>15, <2>1
<1>18. ASSUME dbErrors = 0
       PROVE  /\ status'[j] \in {"queued", "deleted"}
              /\ \A k \in Jobs \ {j} : status'[k] = status[k]
  <2>1. status[j] \in {"pending", "queued", "deleted"}
    BY <1>1, <1>2, <1>18 DEF QInv, Steady, Takeable, LeftOver
  <2> QED
    BY <1>4, <1>5, <2>1 DEF UpdateJobStatus, Exists, tableVars
<1>19. ASSUME dbErrors = 0
       PROVE  Steady'
  <2>1. \A k \in Jobs \ {j} : Unheld(k) => Unheld(k)'
    BY <1>7 DEF Unheld
  <2>2. Steady
    BY <1>19 DEF QInv
  <2>3. \A k \in batch[l] : k \in Jobs \ {j} /\ Unheld(k) /\ Takeable(k)
    BY <1>1, <1>2, <1>5, <2>2 DEF Steady, LeftOver
  <2>4. \A k \in batch[l] : Unheld(k)' /\ Takeable(k)'
    BY <1>18, <1>19, <2>1, <2>3 DEF Takeable
  <2>5. \A u \in Tasks : Used(u)' => status'[job'[u]] \in {"pending", "queued", "deleted"}
    <3>1. Takeable(j)'
      BY <1>18, <1>19 DEF Takeable
    <3>2. \A u \in Tasks \ {t} : Used(u) => Takeable(job[u]) /\ job[u] \in Jobs \ {j}
      BY <1>2, <1>11, <1>5, <2>2 DEF Workers, Steady
    <3> QED
      BY <1>7, <1>14, <1>18, <1>19, <3>1, <3>2 DEF Takeable
  <2>6. \A m \in Loops : loopPc'[m] = "marking" =>
          adding'[m] \notin batch'[m] /\ \A k \in LeftOver(m)' : Unheld(k)' /\ Takeable(k)'
    BY <1>15, <1>10, <2>4 DEF LeftOver
  <2>7. \A m \in Loops : loopPc'[m] # "error" /\ loopPc'[m] \notin {"top", "readPending"}
    BY <1>15, <1>17, <1>10
  <2> QED
    BY <2>5, <2>6, <2>7 DEF Steady, Takeable
<1>20. ASSUME dbErrors = 0, crashes = 0
       PROVE  Due'
  <2>1. Due
    BY <1>20 DEF QInv
  <2>2. backoff' \subseteq backoff
    BY <1>4 DEF UpdateJobStatus, tableVars
  <2>3. \A k \in Jobs : status'[k] = "queued" => ~Unheld(k)'
    <3>1. ~Unheld(j)'
      BY <1>7 DEF Unheld
    <3>2. \A k \in Jobs \ {j} : ~Unheld(k) => ~Unheld(k)'
      <4> SUFFICES ASSUME NEW k \in Jobs \ {j}, NEW u \in Tasks, job[u] = k
                   PROVE  job'[u] = k
        BY DEF Unheld
      <4>1. u # t
        BY <1>2, <1>3, ConstantsAssumption DEF Workers, Used
      <4> QED
        BY <1>7, <4>1
    <3> QED
      BY <1>18, <1>20, <2>1, <3>1, <3>2 DEF Due
  <2>4. \A m \in Loops : loopPc'[m] = "marking" => LeftOver(m)' \cap backoff' = {}
    BY <1>2, <1>15, <1>10, <2>1, <2>2 DEF Due, LeftOver
  <2> QED
    BY <2>3, <2>4 DEF Due
<1> QED
  BY <1>4, <1>16, <1>19, <1>20 DEF QInv, bounds

-----------------------------------------------------------------------------
(* start(), and the tasks.                                                  *)

\* A queue that was not running has nothing waiting, so start() starts no task.
LEMMA StartKeeps ==
  ASSUME IInv, QInv, stops = 0, Start
  PROVE  QInv'
<1>1. Workers /\ TypeOK
  BY DEF QInv, IInv
<1>2. \A t \in Tasks : ~Used(t)
  BY <1>1 DEF Workers, Start
<1>3. Len(waiting) = 0 /\ waiting = <<>>
  <2>1. Len(waiting) \in Nat /\ \A i \in 1..Len(waiting) : waiting[i] \in Tasks
    BY <1>1, LenProperties, ElementOfSeq DEF TypeOK
  <2>2. ~(1 \in 1..Len(waiting))
    BY <1>2, <2>1 DEF IInv, QueueOK, Used
  <2> QED
    BY <1>1, <2>1, <2>2, EmptySeq DEF TypeOK
<1>4. PICK l \in Loops : loopPc[l] = "off" /\ loopPc' = [loopPc EXCEPT ![l] = "top"]
  BY DEF Start
<1>5. pc' = pc
  <2> DEFINE room == ConcurrencyLimit - Pending
             n == IF ~paused \/ room < 0 THEN 0
                  ELSE IF room < Len(waiting) THEN room ELSE Len(waiting)
             started == {waiting[i] : i \in 1..n}
  <2>1. pc' = [t \in Tasks |-> IF t \in started THEN "handler" ELSE pc[t]]
    BY DEF Start
  <2>2. Pending \in Nat /\ ConcurrencyLimit \in Nat
    BY ExecutingFinite, ConstantsAssumption DEF Pending
  <2>3. n = 0
    BY <1>3, <2>2
  <2>4. started = {}
    BY <2>3
  <2> QED
    BY <1>1, <2>1, <2>4 DEF TypeOK
<1>6. /\ isRunning'
      /\ UNCHANGED <<status, backoff, jobIds, job, batch, adding, crashes, stops, dbErrors>>
  BY DEF Start, tableVars, bounds
<1>7. \A m \in Loops : loopPc'[m] = IF m = l THEN "top" ELSE "off"
  BY <1>1, <1>4 DEF Workers, TypeOK, Start
<1>8. Workers'
  BY <1>1, <1>2, <1>5, <1>6, <1>7 DEF Workers, Used
<1>9. ASSUME dbErrors = 0 PROVE Steady'
  BY <1>2, <1>5, <1>6, <1>7, <1>9 DEF QInv, Steady, Used
<1>10. ASSUME dbErrors = 0, crashes = 0 PROVE Due'
  BY <1>6, <1>7, <1>10 DEF QInv, Due, Unheld
<1> QED
  BY <1>6, <1>8, <1>9, <1>10 DEF QInv

\* Inside work(): the row of the task may get a retry_after, and no other.
LEMMA InnerStepKeeps ==
  ASSUME IInv, QInv, stops = 0, NEW t \in Tasks, NEW v \in Executing \ {"cancelled"},
         pc[t] \in Executing, pc' = [pc EXCEPT ![t] = v],
         backoff' \subseteq backoff \cup {job[t]},
         UNCHANGED <<status, isRunning, jobIds, waiting, job, loopVars, bounds>>
  PROVE  QInv'
<1>1. Workers /\ pc \in [Tasks -> TaskPcs]
  BY DEF QInv, IInv, TypeOK
<1>2. v \notin {"waiting", "free", "cancelled"} /\ Used(t)
  BY DEF Executing, Writing, Settled, Used
<1>3. \A u \in Tasks : /\ Used(u)' <=> Used(u)
                       /\ pc'[u] = "waiting" => pc[u] = "waiting"
                       /\ pc'[u] # "cancelled"
  BY <1>1, <1>2 DEF Used, Workers
<1>4. Workers'
  BY <1>1, <1>3 DEF Workers, loopVars
<1>5. ASSUME dbErrors = 0 PROVE Steady'
  BY <1>3, <1>5 DEF QInv, Steady, LeftOver, Unheld, Takeable, loopVars
<1>6. ASSUME dbErrors = 0, crashes = 0 PROVE Due'
  <2>1. \A l \in Loops : loopPc[l] = "marking" => job[t] \notin LeftOver(l)
    BY <1>6 DEF QInv, Steady, Unheld
  <2> QED
    BY <1>6, <2>1 DEF QInv, Due, LeftOver, Unheld, loopVars
<1> QED
  BY <1>4, <1>5, <1>6 DEF QInv, bounds

\* The end of work(): the row is no longer 'queued', or its statement failed.
LEMMA LastStepKeeps ==
  ASSUME IInv, QInv, stops = 0, NEW t \in Tasks, pc[t] \in Executing,
         Complete(t, jobIds \ {job[t]}),
         \A k \in Jobs \ {job[t]} : status'[k] = status[k],
         dbErrors' = 0 => dbErrors = 0 /\ status'[job[t]] # "queued",
         backoff' \subseteq backoff, crashes' = crashes, stops' = stops
  PROVE  QInv'
<1>1. Workers /\ TypeOK
  BY DEF QInv, IInv
<1>2. /\ isRunning /\ isRunning' = isRunning /\ batch' = batch /\ adding' = adding
      /\ jobIds' = jobIds \ {job[t]}
      /\ pc'[t] = "free" /\ job' = [job EXCEPT ![t] = NoJob]
      /\ \A u \in Tasks \ {t} : pc'[u] = pc[u] \/ (pc[u] = "waiting" /\ pc'[u] = "handler")
      /\ \A u \in Tasks : pc'[u] = "waiting" => \E i \in 1..Len(waiting') : waiting'[i] = u
      /\ \A l \in Loops :
           \/ loopPc'[l] = loopPc[l]
           \/ /\ loopPc[l] = "idle" /\ loopPc'[l] = "top"
              /\ \A u \in Tasks : pc'[u] = "free"
  BY <1>1, Ends
<1>3. Used(t) /\ job[t] # NoJob /\ job[t] \in Jobs
  BY <1>1 DEF Workers, Used, Executing, Writing, Settled, IInv, QueueOK
<1>4. /\ job'[t] = NoJob /\ ~Used(t)'
      /\ \A u \in Tasks \ {t} :
           /\ job'[u] = job[u] /\ job[u] # job[t]
           /\ Used(u)' <=> Used(u)
           /\ pc'[u] # "cancelled"
  BY <1>1, <1>2, <1>3 DEF TypeOK, Workers, Used
<1>5. Workers'
  <2>1. /\ \A u \in Tasks : Used(u)' <=> job'[u] # NoJob
        /\ \A u \in Tasks : Used(u)' => job'[u] \in jobIds'
        /\ \A u, v \in Tasks : Used(u)' /\ job'[u] = job'[v] => u = v
    BY <1>1, <1>2, <1>4 DEF Workers
  <2>2. \A l \in Loops : loopPc'[l] # "off" => loopPc[l] # "off"
    BY <1>2
  <2>3. \A l \in Loops : loopPc'[l] = "marking" => adding'[l] \notin jobIds'
    BY <1>1, <1>2 DEF Workers
  <2>4. \A u \in Tasks : pc'[u] # "cancelled"
    BY <1>2, <1>4
  <2> QED
    BY <1>1, <1>2, <2>1, <2>2, <2>3, <2>4 DEF Workers
<1>6. ASSUME dbErrors' = 0 PROVE Steady'
  <2>1. Steady
    BY <1>6 DEF QInv
  <2>2. \A l \in Loops : loopPc'[l] # "error"
    BY <1>2, <2>1 DEF Steady
  <2>3. \A l \in Loops : loopPc'[l] \in {"top", "readPending"} => \A u \in Tasks : ~Used(u)'
    <3>1. \A l \in Loops : loopPc[l] \notin {"top", "readPending"}
      BY <1>3, <2>1 DEF Steady
    <3> QED
      BY <1>2, <3>1 DEF Used
  <2>4. ASSUME NEW l \in Loops, loopPc'[l] = "marking", NEW k \in LeftOver(l)
        PROVE  Unheld(k)' /\ Takeable(k)'
    <3>1. loopPc[l] = "marking"
      BY <1>2, <2>4
    <3>2. k \in Jobs /\ Unheld(k) /\ Takeable(k)
      BY <1>1, <2>1, <2>4, <3>1 DEF Steady, LeftOver, TypeOK, IInv, LoopOK
    <3>3. k # job[t] /\ k # NoJob
      BY <3>2, ConstantsAssumption DEF Unheld
    <3> QED
      BY <1>4, <3>2, <3>3 DEF Unheld, Takeable
  <2>5. \A u \in Tasks : Used(u)' => status'[job'[u]] \in {"pending", "queued", "deleted"}
    <3>1. \A u \in Tasks \ {t} : Used(u) => job[u] \in Jobs \ {job[t]}
      BY <1>4 DEF IInv, QueueOK, Used
    <3> QED
      BY <1>4, <2>1, <3>1 DEF Steady, Takeable
  <2> QED
    BY <1>2, <2>1, <2>2, <2>3, <2>4, <2>5 DEF Steady, Takeable, LeftOver
<1>7. ASSUME dbErrors' = 0, crashes' = 0 PROVE Due'
  <2>1. Due
    BY <1>7 DEF QInv
  <2>2. ASSUME NEW k \in Jobs, status'[k] = "queued" PROVE ~Unheld(k)'
    <3>1. k # job[t] /\ status[k] = "queued"
      BY <1>7, <2>2
    <3>2. PICK u \in Tasks : job[u] = k
      BY <2>1, <3>1 DEF Due, Unheld
    <3>3. u # t
      BY <3>1, <3>2
    <3> QED
      BY <1>4, <3>2, <3>3 DEF Unheld
  <2>3. \A l \in Loops : loopPc'[l] = "marking" => LeftOver(l)' \cap backoff' = {}
    BY <1>2, <2>1 DEF Due, LeftOver
  <2> QED
    BY <2>2, <2>3 DEF Due
<1> QED
  BY <1>5, <1>6, <1>7 DEF QInv

\* Every step of a task.
LEMMA TaskStepKeeps ==
  ASSUME IInv, QInv, stops = 0, NEW t \in Tasks, TaskStep(t) \/ TaskDbError(t)
  PROVE  QInv'
<1> USE DEF Executing, Writing, Settled
<1>1. Workers /\ TypeOK /\ (pc[t] # "free" => job[t] \in Jobs)
  BY DEF QInv, IInv, QueueOK
<1>2. ASSUME NEW o \in Outcomes, HandlerSettles(t, o) PROVE QInv'
  <2>1. AfterHandler[o] \in Executing \ {"cancelled"}
    BY ConstantsAssumption DEF AfterHandler, HandlerOutcomes
  <2> QED
    BY <2>1, <1>2, InnerStepKeeps DEF HandlerSettles, tableVars
<1>3. CASE HostSaved(t)
  BY <1>3, InnerStepKeeps DEF HostSaved, tableVars
<1>4. CASE RetryCounted(t)
  <2>1. /\ pc[t] = "bump" /\ backoff' = backoff \cup {job[t]} /\ status' = status
        /\ \E v \in {"pending", "failed"} : pc' = [pc EXCEPT ![t] = v]
    BY <1>4 DEF RetryCounted
  <2> QED
    BY <1>4, <2>1, InnerStepKeeps DEF RetryCounted
<1>5. CASE RetryRowMissing(t)
  BY <1>1, <1>5, LastStepKeeps DEF RetryRowMissing, Exists, tableVars, bounds
<1>6. CASE StatusWritten(t)
  <2>1. /\ pc[t] \in Writing /\ job[t] \in Jobs /\ UpdateJobStatus(job[t], pc[t])
        /\ Complete(t, jobIds \ {job[t]}) /\ UNCHANGED bounds
    BY <1>1, <1>6 DEF StatusWritten
  <2>2. /\ \A k \in Jobs \ {job[t]} : status'[k] = status[k]
        /\ status'[job[t]] # "queued" /\ backoff' \subseteq backoff
    BY <1>1, <2>1 DEF UpdateJobStatus, Exists, tableVars, TypeOK
  <2> QED
    BY <2>1, <2>2, LastStepKeeps DEF bounds
<1>7. CASE TaskDbError(t)
  <2>1. dbErrors' # 0
    BY <1>1, <1>7 DEF TaskDbError, TypeOK
  <2> QED
    BY <1>1, <1>7, <2>1, LastStepKeeps DEF TaskDbError, tableVars
<1>8. ~CancelledEnds(t)
  BY <1>1 DEF CancelledEnds, Workers
<1> QED
  BY <1>2, <1>3, <1>4, <1>5, <1>6, <1>7, <1>8 DEF TaskStep

-----------------------------------------------------------------------------
(* The rest of the service.                                                 *)

\* What a request, a rollback, or the passing of time may do to the table.
TableMove ==
  /\ \A j \in Jobs : status'[j] \in {status[j], "pending", "deleted"}
  /\ backoff' \subseteq backoff

\* Requests, rollbacks and time do no more than that.
LEMMA TableMoves ==
  ASSUME TypeOK,
         \/ RetryAllFailedJobs
         \/ \E j \in Jobs : \/ InsertJob(j) \/ RequestRefresh(j) \/ DeleteJob(j)
                            \/ RetryAfterPasses(j) \/ ZombieEnds(j)
  PROVE  TableMove
BY DEF TypeOK, TableMove, RetryAllFailedJobs, InsertJob, RequestRefresh, DeleteJob,
       RetryAfterPasses, ZombieEnds, tableVars

\* Nobody who reads or holds a row minds.
LEMMA TableStepKeeps ==
  ASSUME QInv, TableMove,
         UNCHANGED <<isRunning, jobIds, waiting, pc, job, loopVars, bounds>>, TypeOK, LoopOK
  PROVE  QInv'
<1> USE DEF loopVars, bounds
<1>1. ASSUME Workers PROVE Workers'
  BY <1>1 DEF Workers, Used
<1>2. ASSUME Workers, Steady PROVE Steady'
  <2>1. \A j \in Jobs : Takeable(j) => Takeable(j)'
    BY DEF TableMove, Takeable
  <2>2. \A l \in Loops : loopPc[l] = "marking" => LeftOver(l) \subseteq Jobs
    BY DEF TypeOK, LoopOK, LeftOver
  <2>3. \A t \in Tasks : Used(t) => job[t] \in Jobs
    BY <1>2 DEF Workers, TypeOK
  <2>4. \A t \in Tasks : Used(t)' => status'[job'[t]] \in {"pending", "queued", "deleted"}
    BY <1>2, <2>1, <2>3 DEF Steady, Takeable, Used
  <2> QED
    BY <1>2, <2>1, <2>2, <2>4 DEF Steady, Takeable, Used, Unheld, LeftOver
<1>3. ASSUME Due PROVE Due'
  BY <1>3 DEF Due, TableMove, Unheld, LeftOver
<1> QED
  BY <1>1, <1>2, <1>3 DEF QInv

\* A failed statement of the loop.
LEMMA LoopDbErrorKeeps ==
  ASSUME IInv, QInv, stops = 0, NEW l \in Loops, LoopDbError(l)
  PROVE  QInv'
<1>1. Workers /\ TypeOK
  BY DEF QInv, IInv
<1>2. /\ loopPc[l] # "off" /\ loopPc' = [loopPc EXCEPT ![l] = "error"]
      /\ adding' = [adding EXCEPT ![l] = NoJob]
      /\ UNCHANGED <<isRunning, jobIds, waiting, pc, job>>
      /\ dbErrors' # 0
  BY <1>1 DEF LoopDbError, TypeOK
<1>3. Workers'
  BY <1>1, <1>2 DEF Workers, Used, TypeOK
<1> QED
  BY <1>2, <1>3 DEF QInv

\* A process that has nothing: after a crash, and at first.
LEMMA EmptyKeeps ==
  ASSUME ~isRunning, TypeOK,
         \A t \in Tasks : pc[t] = "free" /\ job[t] = NoJob, \A l \in Loops : loopPc[l] = "off",
         crashes = 0 => \A j \in Jobs : status[j] # "queued"
  PROVE  QInv
<1>1. Workers
  BY DEF Workers, Used
<1>2. Steady
  BY DEF Steady, Used
<1>3. crashes = 0 => Due
  BY DEF Due
<1> QED
  BY <1>1, <1>2, <1>3 DEF QInv

\* A crash leaves no loop and no task, whatever it interrupts.
LEMMA CrashKeeps ==
  ASSUME IInv, Crash
  PROVE  QInv'
<1>1. crashes' # 0
  BY ConstantsAssumption DEF IInv, TypeOK, Crash
<1>2. /\ ~isRunning' /\ \A l \in Loops : loopPc'[l] = "off"
      /\ \A t \in Tasks : pc'[t] = "free" /\ job'[t] = NoJob
  BY DEF Crash
<1>3. Workers'
  BY <1>2 DEF Workers, Used
<1>4. Steady'
  BY <1>2 DEF Steady, Used
<1> QED
  BY <1>1, <1>3, <1>4 DEF QInv

\* Nothing is held by a process that has just started.
LEMMA InitKeeps == Init => QInv
BY InitOK, EmptyKeeps DEF IInv, Init

\* stop() and failed statements are counted, and never forgotten.
LEMMA FaultsAreCounted ==
  ASSUME TypeOK, [Next]_vars
  PROVE  /\ stops' = 0 => stops = 0 /\ ~Stop
         /\ dbErrors' = 0 => /\ dbErrors = 0
                             /\ \A l \in Loops : ~LoopDbError(l)
                             /\ \A t \in Tasks : ~TaskDbError(t)
<1>1. stops \in Nat /\ dbErrors \in Nat
  BY ConstantsAssumption DEF TypeOK
<1>2. Stop => stops' = stops + 1 /\ dbErrors' = dbErrors
  BY DEF Stop
<1>3. ASSUME NEW l \in Loops
      PROVE  /\ LoopDbError(l) => dbErrors' = dbErrors + 1 /\ stops' = stops
             /\ LoopStep(l) => stops' = stops /\ dbErrors' = dbErrors
  BY DEF LoopStep, LoopExits, LoopReadsQueued, LoopReadsPending, LoopEnqueues, LoopWakes,
         LoopResumes, LoopUnchanged, LoopDbError, bounds
<1>4. ASSUME NEW t \in Tasks
      PROVE  /\ TaskDbError(t) => dbErrors' = dbErrors + 1 /\ stops' = stops
             /\ TaskStep(t) => stops' = stops /\ dbErrors' = dbErrors
  BY DEF TaskStep, HandlerSettles, HostSaved, RetryCounted, RetryRowMissing, StatusWritten,
         CancelledEnds, TaskDbError, bounds
<1>5. ASSUME \/ RetryAllFailedJobs
             \/ \E j \in Jobs : \/ InsertJob(j) \/ RequestRefresh(j) \/ DeleteJob(j)
                                \/ RetryAfterPasses(j) \/ ZombieEnds(j)
      PROVE  stops' = stops /\ dbErrors' = dbErrors
  BY <1>5 DEF RetryAllFailedJobs, InsertJob, RequestRefresh, DeleteJob, RetryAfterPasses,
              ZombieEnds, QueueUnchanged, bounds
<1>6. Start \/ Crash \/ UNCHANGED vars => stops' = stops /\ dbErrors' = dbErrors
  BY DEF Start, Crash, vars, bounds
<1>7. stops' \in {stops, stops + 1} /\ dbErrors' \in {dbErrors, dbErrors + 1}
  BY <1>2, <1>3, <1>4, <1>5, <1>6 DEF Next, Environment
<1>8. /\ stops' = 0 => stops = 0 /\ ~Stop
      /\ dbErrors' = 0 => dbErrors = 0
  BY <1>1, <1>2, <1>7
<1>9. dbErrors' = 0 => /\ \A l \in Loops : ~LoopDbError(l)
                       /\ \A t \in Tasks : ~TaskDbError(t)
  BY <1>1, <1>3, <1>4
<1> QED
  BY <1>8, <1>9

\* Every step keeps what is said of the queue before the first stop().
LEMMA NextKeeps == IInv /\ QInv /\ [Next]_vars => QInv'
<1>1. SUFFICES ASSUME IInv, QInv, [Next]_vars, stops' = 0 PROVE QInv'
  BY DEF QInv
<1>2. TypeOK /\ LoopOK
  BY <1>1 DEF IInv
<1>3. ~Stop /\ stops = 0
  BY <1>1, <1>2, FaultsAreCounted
<1>4. CASE Start
  BY <1>1, <1>3, <1>4, StartKeeps
<1>5. ASSUME NEW l \in Loops, LoopStep(l) \/ LoopDbError(l) PROVE QInv'
  BY <1>1, <1>3, <1>5, LoopReadsQueuedKeeps, LoopReadsPendingKeeps, LoopWakesKeeps, LoopRestKeeps,
     LoopEnqueuesKeeps, LoopDbErrorKeeps DEF LoopStep
<1>6. ASSUME NEW t \in Tasks, TaskStep(t) \/ TaskDbError(t) PROVE QInv'
  BY <1>1, <1>3, <1>6, TaskStepKeeps
<1>7. CASE \/ RetryAllFailedJobs
           \/ \E j \in Jobs : \/ InsertJob(j) \/ RequestRefresh(j) \/ DeleteJob(j)
                              \/ RetryAfterPasses(j) \/ ZombieEnds(j)
  <2>1. UNCHANGED <<isRunning, jobIds, waiting, pc, job, loopVars, bounds>>
    BY <1>7 DEF RetryAllFailedJobs, InsertJob, RequestRefresh, DeleteJob, RetryAfterPasses,
                ZombieEnds, QueueUnchanged
  <2> QED
    BY <1>1, <1>2, <1>7, <2>1, TableMoves, TableStepKeeps
<1>8. CASE Crash
  BY <1>1, <1>8, CrashKeeps
<1>9. CASE UNCHANGED vars
  <2>1. TableMove
    BY <1>9 DEF TableMove, vars, tableVars
  <2> QED
    BY <1>1, <1>2, <1>9, <2>1, TableStepKeeps DEF vars
<1> QED
  BY <1>1, <1>3, <1>4, <1>5, <1>6, <1>7, <1>8, <1>9 DEF Next, Environment

-----------------------------------------------------------------------------
(* The theorems.                                                            *)

\* What is said of the queue before the first stop() holds in every reachable
\* state, for all constants.
THEOREM QueueInvariance == Spec => [](IInv /\ QInv)
BY InitOK, InitKeeps, NextOK, NextKeeps, PTL DEF Spec

\* While nobody has called stop(), no two tasks work on one row.
THEOREM OneTaskEach == Spec => []OneTaskPerJob
<1>1. IInv /\ QInv => OneTaskPerJob
  <2> SUFFICES ASSUME IInv, QInv, stops = 0, NEW j \in Jobs
               PROVE  Cardinality(TasksOn(j)) <= 1
    BY DEF OneTaskPerJob
  <2>1. CASE TasksOn(j) = {}
    BY <2>1, FS_EmptySet
  <2>2. CASE TasksOn(j) # {}
    <3>1. PICK t \in Tasks : job[t] = j
      BY <2>2 DEF TasksOn
    <3>2. TasksOn(j) = {t}
      BY <3>1, ConstantsAssumption DEF QInv, Workers, TasksOn
    <3> QED
      BY <3>2, FS_Singleton
  <2> QED
    BY <2>1, <2>2
<1> QED
  BY <1>1, QueueInvariance, PTL

\* A row that must wait for its retry_after is not taken before it has passed.
THEOREM BackoffIsHonoured == Spec => BackoffHonoured
<1>1. IInv /\ QInv /\ stops = 0 /\ crashes = 0 /\ dbErrors = 0 =>
        \A l \in Loops : loopPc[l] = "marking" => adding[l] \notin backoff
  BY DEF QInv, Due, LeftOver
<1> QED
  BY <1>1, QueueInvariance, PTL DEF BackoffHonoured

\* The two steps that write a status to a row write it to one nobody has settled.
LEMMA SettledStep ==
  ASSUME IInv, QInv, [Next]_vars, stops = 0, dbErrors = 0, NEW j \in Jobs, status[j] \in Settled
  PROVE  status'[j] \in {status[j], "pending", "deleted"}
<1>1. Workers /\ Steady /\ TypeOK /\ ~Takeable(j)
  BY DEF QInv, IInv, Takeable, Settled
<1>2. ASSUME NEW l \in Loops, LoopStep(l) \/ LoopDbError(l) PROVE status'[j] = status[j]
  <2>1. CASE LoopEnqueues(l)
    <3>1. adding[l] # j /\ UpdateJobStatus(adding[l], "queued")
      BY <1>1, <2>1 DEF LoopEnqueues, Steady, LeftOver
    <3> QED
      BY <1>1, <3>1 DEF UpdateJobStatus, TypeOK, tableVars
  <2>2. CASE ~LoopEnqueues(l)
    BY <1>2, <2>2 DEF LoopStep, LoopExits, LoopReadsQueued, LoopReadsPending, LoopWakes,
                      LoopResumes, LoopUnchanged, LoopDbError, tableVars
  <2> QED
    BY <2>1, <2>2
<1>3. ASSUME NEW t \in Tasks, TaskStep(t) \/ TaskDbError(t) PROVE status'[j] = status[j]
  <2>1. CASE StatusWritten(t)
    <3>1. job[t] # j /\ UpdateJobStatus(job[t], pc[t])
      BY <1>1, <2>1 DEF StatusWritten, Steady, Used, Writing, Settled
    <3> QED
      BY <1>1, <3>1 DEF UpdateJobStatus, TypeOK, tableVars
  <2>2. CASE ~StatusWritten(t)
    BY <1>3, <2>2 DEF TaskStep, HandlerSettles, HostSaved, RetryCounted, RetryRowMissing,
                      CancelledEnds, TaskDbError, tableVars
  <2> QED
    BY <2>1, <2>2
<1>4. CASE \/ RetryAllFailedJobs
           \/ \E k \in Jobs : \/ InsertJob(k) \/ RequestRefresh(k) \/ DeleteJob(k)
                              \/ RetryAfterPasses(k) \/ ZombieEnds(k)
  BY <1>1, <1>4, TableMoves DEF TableMove
<1>5. CASE Start \/ Stop \/ Crash \/ UNCHANGED vars
  BY <1>5 DEF Start, Stop, Crash, vars, tableVars
<1> QED
  BY <1>2, <1>3, <1>4, <1>5 DEF Next, Environment

\* A settled row runs again only after somebody has asked for it.
THEOREM SettledStays == Spec => SettledUntilRequested
<1>1. IInv /\ QInv /\ [Next]_vars =>
        [\A j \in Jobs : status[j] \in Settled /\ stops = 0 /\ dbErrors = 0
           => status'[j] \in {status[j], "pending", "deleted"}]_vars
  BY SettledStep
<1> QED
  BY <1>1, QueueInvariance, PTL DEF Spec, SettledUntilRequested

-----------------------------------------------------------------------------
(* The refinement.                                                          *)

Held == {job[t] : t \in Tasks} \ {NoJob}

\* The worker that takes a row is the task the loop adds for it; the loop's other
\* steps change neither the rows' status nor who holds them.
LEMMA LoopRefines ==
  ASSUME IInv, QInv, stops = 0, dbErrors = 0, NEW l \in Loops, LoopStep(l)
  PROVE  \/ UNCHANGED <<status, job>>
         \/ \E j \in Jobs : Lifecycle!Take(j)
<1>1. Workers /\ Steady /\ TypeOK
  BY DEF QInv, IInv
<1>2. CASE ~LoopEnqueues(l)
  BY <1>2 DEF LoopStep, LoopExits, LoopReadsQueued, LoopReadsPending, LoopWakes,
              LoopResumes, LoopUnchanged, tableVars
<1>3. CASE LoopEnqueues(l)
  <2>1. PICK j \in Jobs : adding[l] = j
    BY <1>3 DEF LoopEnqueues, IInv, LoopOK
  <2>2. /\ Unheld(j) /\ Takeable(j) /\ j # NoJob
    BY <1>1, <1>3, <2>1, ConstantsAssumption DEF LoopEnqueues, Steady, LeftOver
  <2>3. PICK t \in Tasks : pc[t] = "free" /\ job' = [job EXCEPT ![t] = j]
    BY <1>3, <2>1 DEF LoopEnqueues
  <2>4. job[t] = NoJob
    BY <1>1, <2>3 DEF Workers, Used
  <2>5. Held' = Held \cup {j} /\ j \notin Held
    BY <1>1, <2>2, <2>3, <2>4 DEF Held, Unheld, TypeOK
  <2>6. status' = IF status[j] = "deleted" THEN status ELSE [status EXCEPT ![j] = "queued"]
    BY <1>3, <2>1, <2>2 DEF LoopEnqueues, UpdateJobStatus, Exists, Takeable, tableVars
  <2> QED
    BY <2>2, <2>5, <2>6 DEF Lifecycle!Take, Held, Takeable
<1> QED
  BY <1>2, <1>3

\* The end of a task is the worker's release of its row.
LEMMA TaskRefines ==
  ASSUME IInv, QInv, stops = 0, NEW t \in Tasks, TaskStep(t)
  PROVE  \/ UNCHANGED <<status, job>>
         \/ \E j \in Jobs : Lifecycle!Release(j)
<1>1. Workers /\ TypeOK
  BY DEF QInv, IInv
<1>2. CASE (\E o \in Outcomes : HandlerSettles(t, o)) \/ HostSaved(t) \/ RetryCounted(t)
  BY <1>2 DEF HandlerSettles, HostSaved, RetryCounted, tableVars
<1>3. CASE RetryRowMissing(t) \/ StatusWritten(t)
  <2>1. PICK j \in Jobs : job[t] = j
    BY <1>3 DEF RetryRowMissing, StatusWritten, IInv, QueueOK, Writing, Settled
  <2>2. j # NoJob /\ job' = [job EXCEPT ![t] = NoJob]
    BY <1>3, ConstantsAssumption DEF RetryRowMissing, StatusWritten, Complete
  <2>3. \A u \in Tasks \ {t} : job[u] # j
    BY <1>1, <2>1, <2>2 DEF Workers
  <2>4. Held' = Held \ {j} /\ j \in Held
    BY <1>1, <2>1, <2>2, <2>3 DEF Held, TypeOK
  <2>5. \/ UNCHANGED status
        \/ /\ status[j] \notin {"absent", "deleted"}
           /\ \E s \in {"pending", "done", "failed", "invalid"} :
                status' = [status EXCEPT ![j] = s]
    BY <1>3, <2>1 DEF RetryRowMissing, StatusWritten, UpdateJobStatus, Exists, Writing, Settled,
                        tableVars
  <2> QED
    BY <2>4, <2>5 DEF Lifecycle!Release, Lifecycle!Gone, Held
<1>4. ~CancelledEnds(t)
  BY <1>1 DEF CancelledEnds, Workers
<1> QED
  BY <1>2, <1>3, <1>4 DEF TaskStep

\* The steps of the rest of the service are requests and deletions.
LEMMA TableRefines ==
  ASSUME TypeOK,
         \/ RetryAllFailedJobs
         \/ \E j \in Jobs : \/ InsertJob(j) \/ RequestRefresh(j) \/ DeleteJob(j)
                            \/ RetryAfterPasses(j) \/ ZombieEnds(j)
  PROVE  \/ UNCHANGED <<status, job>>
         \/ \E S \in SUBSET Jobs : Lifecycle!Request(S)
         \/ \E j \in Jobs : Lifecycle!Delete(j)
<1> USE DEF QueueUnchanged, TypeOK
<1>1. CASE RetryAllFailedJobs
  BY <1>1 DEF RetryAllFailedJobs, Lifecycle!Request
<1>2. ASSUME NEW j \in Jobs, InsertJob(j) \/ RequestRefresh(j)
      PROVE  \E S \in SUBSET Jobs : Lifecycle!Request(S)
  <2>1. status' = [k \in Jobs |-> IF k \in {j} THEN "pending" ELSE status[k]]
    BY <1>2 DEF InsertJob, RequestRefresh
  <2>2. Lifecycle!Request({j})
    BY <1>2, <2>1 DEF InsertJob, RequestRefresh, Exists, Lifecycle!Request
  <2> QED
    BY <2>2
<1>3. ASSUME NEW j \in Jobs, DeleteJob(j) PROVE Lifecycle!Delete(j)
  BY <1>3 DEF DeleteJob, Exists, Lifecycle!Delete, Lifecycle!Gone
<1>4. ASSUME NEW j \in Jobs, RetryAfterPasses(j) \/ ZombieEnds(j) PROVE UNCHANGED <<status, job>>
  BY <1>4 DEF RetryAfterPasses, ZombieEnds, tableVars
<1> QED
  BY <1>1, <1>2, <1>3, <1>4

\* A step of the queue is a step of the lifecycle, or changes nothing it sees.
LEMMA StepRefines ==
  ASSUME IInv, QInv, [Next]_vars, stops' = 0, dbErrors' = 0
  PROVE  Lifecycle!Next \/ UNCHANGED <<status, job>>
<1> USE DEF Lifecycle!Next
<1>1. TypeOK /\ ~Stop /\ stops = 0
  BY FaultsAreCounted DEF IInv
<1>2. dbErrors = 0 /\ (\A l \in Loops : ~LoopDbError(l)) /\ \A t \in Tasks : ~TaskDbError(t)
  BY <1>1, FaultsAreCounted
<1>3. ASSUME NEW l \in Loops, LoopStep(l) PROVE Lifecycle!Next \/ UNCHANGED <<status, job>>
  BY <1>1, <1>2, <1>3, LoopRefines
<1>4. ASSUME NEW t \in Tasks, TaskStep(t) PROVE Lifecycle!Next \/ UNCHANGED <<status, job>>
  BY <1>1, <1>4, TaskRefines
<1>5. CASE \/ RetryAllFailedJobs
           \/ \E j \in Jobs : \/ InsertJob(j) \/ RequestRefresh(j) \/ DeleteJob(j)
                              \/ RetryAfterPasses(j) \/ ZombieEnds(j)
  BY <1>1, <1>5, TableRefines
<1>6. CASE Crash
  BY <1>6 DEF Crash, Lifecycle!Die, tableVars
<1>7. CASE Start \/ UNCHANGED vars
  BY <1>7 DEF Start, vars, tableVars
<1> QED
  BY <1>1, <1>2, <1>3, <1>4, <1>5, <1>6, <1>7 DEF Next, Environment

\* The queue implements JobLifecycle until stop() is called or a statement fails.
THEOREM LifecycleImplemented == Spec => ImplementsLifecycle
<1>1. Init => Lifecycle!Init
  BY DEF Init, Lifecycle!Init
<1>2. IInv /\ QInv /\ [Next]_vars =>
        [stops' = 0 /\ dbErrors' = 0 => Lifecycle!Next]_<<status, job>>
  BY StepRefines
<1> QED
  BY <1>1, <1>2, QueueInvariance, PTL DEF Spec, ImplementsLifecycle
=============================================================================
