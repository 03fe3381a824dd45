------------------------------ MODULE JobQueue ------------------------------
(***************************************************************************)
(* The token processor's job queue: the `jobs` table, the in-memory p-queue *)
(* that executes its rows, the loop that refills it (job-queue.ts), the     *)
(* wrapper every job runs in (job.ts), and what the rest of the service     *)
(* does to the table and to the queue meanwhile (chainhook ingestion, admin *)
(* RPC, process crashes).                                                   *)
(*                                                                          *)
(* Granularity.  The process is one JavaScript thread: code between two     *)
(* awaits runs without interruption.  An action is the database statement   *)
(* an await waits for, together with the code that runs when it resolves,   *)
(* up to the next await.                                                    *)
(***************************************************************************)
EXTENDS Integers, Sequences, FiniteSets

CONSTANTS
  Jobs,              \* rows the jobs table may ever hold (ids are never reused)
  Tasks,             \* identities for the functions handed to the p-queue
  Loops,             \* identities for the activations of runQueueLoop()
  NoJob,             \* "no job": the value of a slot that holds none
  ConcurrencyLimit,  \* ENV.JOB_QUEUE_CONCURRENCY_LIMIT
  SizeLimit,         \* ENV.JOB_QUEUE_SIZE_LIMIT
  MaxRetries,        \* ENV.JOB_QUEUE_MAX_RETRIES
  StrictMode,        \* ENV.JOB_QUEUE_STRICT_MODE
  Outcomes,          \* the ways a job's handler may end in this instance
  MaxCrashes,        \* bound: process crashes
  MaxStops,          \* bound: calls of stop()
  MaxDbErrors        \* bound: failed database statements

HandlerOutcomes ==
  {"success", "timeout", "rateLimited", "retryable", "userError", "otherError"}

ASSUME ConstantsAssumption ==
  /\ IsFiniteSet(Jobs) /\ IsFiniteSet(Tasks) /\ IsFiniteSet(Loops)
  /\ NoJob \notin Jobs
  /\ Loops # {}
  /\ ConcurrencyLimit \in Nat \ {0}
  /\ SizeLimit \in Nat \ {0}
  /\ Cardinality(Tasks) >= SizeLimit + Cardinality(Loops) - 1  \* see SizeBound
  /\ MaxRetries \in Nat
  /\ StrictMode \in BOOLEAN
  /\ Outcomes \subseteq HandlerOutcomes
  /\ MaxCrashes \in Nat /\ MaxStops \in Nat /\ MaxDbErrors \in Nat

VARIABLES
  \* --- the jobs table ---
  status,      \* the row's status; "absent" before its INSERT, "deleted" after a rollback
  retryCount,  \* the row's retry_count
  backoff,     \* rows whose retry_after lies in the future
  older,       \* older[j]: rows whose updated_at is earlier than j's
  \* --- the JobQueue object ---
  isRunning,   \* _isRunning
  jobIds,      \* jobIds
  paused,      \* the p-queue's isPaused
  waiting,     \* the p-queue's tasks that have not started, first in first out
  pc,          \* where each task is
  job,         \* the job each task executes
  stopping,    \* a stop() call waits for the p-queue to be idle
  \* --- the activations of runQueueLoop() ---
  loopPc,      \* where each activation is
  batch,       \* what is left of the rows it is adding
  adding,      \* the row it is marking as queued
  \* --- what outlives a task, and history ---
  zombies,     \* jobs with a timed-out handler that still runs
  owed,        \* history: jobs with a request no handler has started after
  rejected,    \* history: work() has rejected
  crashes, stops, dbErrors   \* how much of each bound is used

tableVars == <<status, retryCount, backoff, older>>
loopVars  == <<loopPc, batch, adding>>
bounds    == <<crashes, stops, dbErrors>>
vars == <<tableVars, isRunning, jobIds, paused, waiting, pc, job, stopping,
          loopVars, zombies, owed, rejected, bounds>>

Settled   == {"done", "failed", "invalid"}
Statuses  == {"absent", "pending", "queued", "deleted"} \cup Settled
\* A task at one of these is about to write that status to its row.
Writing   == Settled \cup {"pending"}
\* p-queue counts a task as pending from its start to its completion.
Executing == {"cancelled", "handler", "saveHost", "bump"} \cup Writing
TaskPcs   == {"free", "waiting"} \cup Executing
LoopPcs   == {"off", "top", "readPending", "marking", "sleep", "idle", "error"}

TypeOK ==
  /\ status \in [Jobs -> Statuses]
  /\ retryCount \in [Jobs -> Nat]
  /\ backoff \subseteq Jobs
  /\ older \in [Jobs -> SUBSET Jobs]
  /\ isRunning \in BOOLEAN
  /\ jobIds \subseteq Jobs
  /\ paused \in BOOLEAN
  /\ waiting \in Seq(Tasks)
  /\ pc \in [Tasks -> TaskPcs]
  /\ job \in [Tasks -> Jobs \cup {NoJob}]
  /\ stopping \in BOOLEAN
  /\ loopPc \in [Loops -> LoopPcs]
  /\ batch \in [Loops -> SUBSET Jobs]
  /\ adding \in [Loops -> Jobs \cup {NoJob}]
  /\ zombies \subseteq Jobs
  /\ owed \subseteq Jobs
  /\ rejected \in BOOLEAN
  /\ crashes \in 0..MaxCrashes
  /\ stops \in 0..MaxStops
  /\ dbErrors \in 0..MaxDbErrors

-----------------------------------------------------------------------------
(* The table.                                                               *)

Exists(j) == status[j] \notin {"absent", "deleted"}

\* updated_at = NOW() on the rows of S: they are now the latest.
Touch(S) == older' = [k \in Jobs |-> IF k \in S THEN Jobs \ S ELSE older[k] \ S]

\* Mutant: an upsert brings a deleted row back.
UpdateJobStatusUpserts(j, s) ==
  /\ status' = [status EXCEPT ![j] = s]
  /\ UNCHANGED <<retryCount, backoff>>
  /\ Touch({j})

\* updateJobStatus(): one UPDATE, by id and nothing else.  Every status but
\* 'pending' also clears retry_count and retry_after.
UpdateJobStatus(j, s) ==
  IF Exists(j)
  THEN /\ status' = [status EXCEPT ![j] = s]
       /\ retryCount' = IF s = "pending" THEN retryCount ELSE [retryCount EXCEPT ![j] = 0]
       /\ backoff' = IF s = "pending" THEN backoff ELSE backoff \ {j}
       /\ Touch({j})
  ELSE UNCHANGED tableVars

\* Mutant: rows left 'queued' are not looked for.
NoneQueued(ids) == {}

QueuedExcluding(ids) == {j \in Jobs : status[j] = "queued" /\ j \notin ids}

\* Mutant: no condition on retry_after.
PendingDueOrNot == {j \in Jobs : status[j] = "pending"}

PendingDue == {j \in Jobs : status[j] = "pending" /\ j \notin backoff}

\* Mutant: no ORDER BY.
PendingBatchesUnordered(limit) ==
  {S \in SUBSET PendingDue :
     Cardinality(S) <= limit /\ (Cardinality(S) < limit => S = PendingDue)}

\* What getPendingJobBatch() may return: the least recently updated rows,
\* at most `limit` of them.
PendingBatches(limit) ==
  {S \in SUBSET PendingDue :
     /\ Cardinality(S) <= limit
     /\ Cardinality(S) < limit => S = PendingDue
     /\ \A j \in S, k \in PendingDue \ S : k \notin older[j]}

-----------------------------------------------------------------------------
(* The p-queue.                                                             *)

ExecutingIn(p) == {t \in Tasks : p[t] \in Executing}
Pending   == Cardinality(ExecutingIn(pc))        \* queue.pending
QueueIdle == waiting = <<>> /\ ExecutingIn(pc) = {}

\* The function given to queue.add() runs when p-queue starts it, and its
\* first test is `if (this._isRunning)`.
StartedPc == IF isRunning THEN "handler" ELSE "cancelled"

\* Mutant: one too many.
TryToStartOneMore(w, p, jb, ids) ==
  IF w # <<>> /\ ~paused /\ Cardinality(ExecutingIn(p)) <= ConcurrencyLimit
  THEN /\ waiting' = Tail(w)
       /\ pc' = [p EXCEPT ![Head(w)] = StartedPc]
       /\ jobIds' = IF isRunning THEN ids ELSE ids \ {jb[Head(w)]}
       /\ owed' = IF isRunning THEN owed \ {jb[Head(w)]} ELSE owed
  ELSE waiting' = w /\ pc' = p /\ jobIds' = ids /\ owed' = owed

\* _tryToStartAnother(), called at the end of add() and of a task's run: with
\* the queue at w, tasks at p working on jb, and jobIds at ids, start the head
\* of the queue if the queue is not paused and the limit allows it.  A
\* cancelled task leaves jobIds at once.
TryToStartAnother(w, p, jb, ids) ==
  IF w # <<>> /\ ~paused /\ Cardinality(ExecutingIn(p)) < ConcurrencyLimit
  THEN /\ waiting' = Tail(w)
       /\ pc' = [p EXCEPT ![Head(w)] = StartedPc]
       /\ jobIds' = IF isRunning THEN ids ELSE ids \ {jb[Head(w)]}
       /\ owed' = IF isRunning THEN owed \ {jb[Head(w)]} ELSE owed
  ELSE waiting' = w /\ pc' = p /\ jobIds' = ids /\ owed' = owed

\* Task t ends with jobIds at ids: p-queue's _next().  When nothing is left to
\* run, every onIdle() promise resolves: loops go on, and a stop() that was
\* waiting pauses the queue.
Complete(t, ids) ==
  /\ TryToStartAnother(waiting, [pc EXCEPT ![t] = "free"], job, ids)
  /\ job' = [job EXCEPT ![t] = NoJob]
  /\ LET idle == waiting = <<>> /\ ExecutingIn(pc) = {t}
     IN /\ loopPc' = [l \in Loops |-> IF idle /\ loopPc[l] = "idle" THEN "top" ELSE loopPc[l]]
        /\ paused' = (paused \/ (idle /\ stopping))
        /\ stopping' = (stopping /\ ~idle)
  /\ UNCHANGED <<isRunning, batch, adding>>

-----------------------------------------------------------------------------
(* JobQueue: start(), stop(), the loop.                                     *)

\* start(), from initBackgroundServices() or the admin RPC, which refuses when
\* the queue is running.  PQueue.start() does nothing unless paused, and then
\* starts as many tasks as the limit allows.
Start ==
  /\ ~isRunning
  /\ \E l \in Loops :
       /\ loopPc[l] = "off"
       /\ loopPc' = [loopPc EXCEPT ![l] = "top"]
  /\ isRunning' = TRUE
  /\ paused' = FALSE
  /\ LET room == ConcurrencyLimit - Pending
         n == IF ~paused \/ room < 0 THEN 0
              ELSE IF room < Len(waiting) THEN room ELSE Len(waiting)
         started == {waiting[i] : i \in 1..n}
     IN /\ waiting' = SubSeq(waiting, n + 1, Len(waiting))
        /\ pc' = [t \in Tasks |-> IF t \in started THEN "handler" ELSE pc[t]]
        /\ owed' = owed \ {job[t] : t \in started}
  /\ UNCHANGED <<tableVars, jobIds, job, stopping, batch, adding, zombies, rejected, bounds>>

\* Mutant: the next idle event instead of onIdle().
StopAwaitsEvent ==
  /\ stops < MaxStops
  /\ stops' = stops + 1
  /\ isRunning' = FALSE
  /\ stopping' = TRUE
  /\ UNCHANGED <<tableVars, jobIds, paused, waiting, pc, job, loopVars, zombies, owed,
                 rejected, crashes, dbErrors>>

\* stop(), from the admin RPC, which does not wait for it, or from the shutdown
\* handler, which does not ask whether the queue is running.
Stop ==
  /\ stops < MaxStops
  /\ stops' = stops + 1
  /\ isRunning' = FALSE
  /\ IF QueueIdle
     THEN paused' = TRUE /\ UNCHANGED stopping
     ELSE stopping' = TRUE /\ UNCHANGED paused
  /\ UNCHANGED <<tableVars, jobIds, waiting, pc, job, loopVars, zombies, owed,
                 rejected, crashes, dbErrors>>

LoopUnchanged == UNCHANGED <<tableVars, isRunning, jobIds, paused, waiting, pc, job,
                             stopping, zombies, owed, rejected, bounds>>

\* `while (this._isRunning)`
LoopExits(l) ==
  /\ loopPc[l] = "top"
  /\ ~isRunning
  /\ loopPc' = [loopPc EXCEPT ![l] = "off"]
  /\ UNCHANGED <<batch, adding>>
  /\ LoopUnchanged

\* Mutants: the size without what is running; no test of jobIds.
AddRefusedBySize(j) == ~isRunning \/ j \in jobIds \/ Len(waiting) >= SizeLimit
AddRefusedButTwice(j) == ~isRunning \/ Len(waiting) + Pending >= SizeLimit

\* The early return of add().
AddRefused(j) ==
  \/ ~isRunning
  \/ j \in jobIds
  \/ Len(waiting) + Pending >= SizeLimit

\* Mutants: the next idle event instead of onIdle(); no wait at all.
AwaitIdleEvent(l) ==
  /\ loopPc' = [loopPc EXCEPT ![l] = "idle"]
  /\ batch' = [batch EXCEPT ![l] = {}]
  /\ adding' = [adding EXCEPT ![l] = NoJob]
AwaitNothing(l) ==
  /\ loopPc' = [loopPc EXCEPT ![l] = "top"]
  /\ batch' = [batch EXCEPT ![l] = {}]
  /\ adding' = [adding EXCEPT ![l] = NoJob]

\* `await this.queue.onIdle()` in the state the step leads to.
AwaitIdle(l) ==
  /\ loopPc' = [loopPc EXCEPT ![l] = IF QueueIdle' THEN "top" ELSE "idle"]
  /\ batch' = [batch EXCEPT ![l] = {}]
  /\ adding' = [adding EXCEPT ![l] = NoJob]

\* The loop over the rows of a batch, up to its next await: the UPDATE of the
\* next row add() does not refuse, or onIdle() when it refuses all of them.
\* The code takes the rows by updated_at; the model allows any order.
AddRows(l, rows) ==
  \/ /\ \A j \in rows : AddRefused(j)'
     /\ AwaitIdle(l)
  \/ \E j \in rows :
       /\ ~AddRefused(j)'
       /\ loopPc' = [loopPc EXCEPT ![l] = "marking"]
       /\ batch' = [batch EXCEPT ![l] = rows \ {j}]
       /\ adding' = [adding EXCEPT ![l] = j]

\* addJobBatch(): rows left 'queued' by no one in memory come first.
LoopReadsQueued(l) ==
  /\ loopPc[l] = "top"
  /\ isRunning
  /\ LoopUnchanged
  /\ LET queued == QueuedExcluding(jobIds)
     IN IF queued # {}
        THEN AddRows(l, queued)
        ELSE loopPc' = [loopPc EXCEPT ![l] = "readPending"] /\ UNCHANGED <<batch, adding>>

LoopReadsPending(l) ==
  /\ loopPc[l] = "readPending"
  /\ LoopUnchanged
  /\ \E pending \in PendingBatches(SizeLimit) :
       IF pending # {}
       THEN AddRows(l, pending)
       ELSE loopPc' = [loopPc EXCEPT ![l] = "sleep"] /\ UNCHANGED <<batch, adding>>

\* The rest of add(): the row is 'queued', the job goes to the p-queue.
LoopEnqueues(l) ==
  /\ loopPc[l] = "marking"
  /\ UpdateJobStatus(adding[l], "queued")
  /\ \E t \in Tasks :
       /\ pc[t] = "free"
       /\ job' = [job EXCEPT ![t] = adding[l]]
       /\ TryToStartAnother(Append(waiting, t), [pc EXCEPT ![t] = "waiting"], job',
                            jobIds \cup {adding[l]})
  /\ UNCHANGED <<isRunning, paused, stopping, zombies, rejected, bounds>>
  /\ AddRows(l, batch[l])

\* The 5 s timeout after an empty batch.
LoopWakes(l) ==
  /\ loopPc[l] = "sleep"
  /\ LoopUnchanged
  /\ AwaitIdle(l)

\* A statement of the loop fails: catch, and a 1 s timeout.
LoopDbError(l) ==
  /\ dbErrors < MaxDbErrors
  /\ dbErrors' = dbErrors + 1
  /\ loopPc[l] \in {"readPending", "marking"} \/ (loopPc[l] = "top" /\ isRunning)
  /\ loopPc' = [loopPc EXCEPT ![l] = "error"]
  /\ batch' = [batch EXCEPT ![l] = {}]
  /\ adding' = [adding EXCEPT ![l] = NoJob]
  /\ UNCHANGED <<tableVars, isRunning, jobIds, paused, waiting, pc, job, stopping,
                 zombies, owed, rejected, crashes, stops>>

LoopResumes(l) ==
  /\ loopPc[l] = "error"
  /\ loopPc' = [loopPc EXCEPT ![l] = "top"]
  /\ UNCHANGED <<batch, adding>>
  /\ LoopUnchanged

-----------------------------------------------------------------------------
(* Job.work().                                                              *)

\* Mutant: a status the enum of the table does not have.
AfterHandlerUnknown ==
  [success |-> "done", timeout |-> "timedOut", rateLimited |-> "saveHost",
   retryable |-> "bump", userError |-> "invalid", otherError |-> "failed"]

\* Where work() goes after the handler: the catch block's cases.
AfterHandler ==
  [success |-> "done", timeout |-> "failed", rateLimited |-> "saveHost",
   retryable |-> "bump", userError |-> "invalid", otherError |-> "failed"]

\* resolveOrTimeout() settles.  On a timeout nothing stops the handler.
HandlerSettles(t, o) ==
  /\ pc[t] = "handler"
  /\ pc' = [pc EXCEPT ![t] = AfterHandler[o]]
  /\ zombies' = IF o = "timeout" THEN zombies \cup {job[t]} ELSE zombies
  /\ UNCHANGED <<tableVars, isRunning, jobIds, paused, waiting, job, stopping,
                 loopVars, owed, rejected, bounds>>

ZombieEnds(j) ==
  /\ j \in zombies
  /\ zombies' = zombies \ {j}
  /\ UNCHANGED <<tableVars, isRunning, jobIds, paused, waiting, pc, job, stopping,
                 loopVars, owed, rejected, bounds>>

\* saveRateLimitedHost()
HostSaved(t) ==
  /\ pc[t] = "saveHost"
  /\ pc' = [pc EXCEPT ![t] = "bump"]
  /\ UNCHANGED <<tableVars, isRunning, jobIds, paused, waiting, job, stopping,
                 loopVars, zombies, owed, rejected, bounds>>

\* increaseJobRetryCount(), then the decision to try again or to give up.
RetryCounted(t) ==
  /\ pc[t] = "bump"
  /\ Exists(job[t])
  /\ LET retries == retryCount[job[t]] + 1
     IN /\ retryCount' = [retryCount EXCEPT ![job[t]] = retries]
        /\ pc' = [pc EXCEPT ![t] = IF StrictMode \/ retries <= MaxRetries
                                   THEN "pending" ELSE "failed"]
  /\ backoff' = backoff \cup {job[t]}
  /\ Touch({job[t]})
  /\ UNCHANGED <<status, isRunning, jobIds, paused, waiting, job, stopping,
                 loopVars, zombies, owed, rejected, bounds>>

\* Mutant: jobIds is not cleaned in a finally block.
RetryRowMissingLeaks(t) ==
  /\ pc[t] = "bump"
  /\ ~Exists(job[t])
  /\ rejected' = TRUE
  /\ Complete(t, jobIds)
  /\ UNCHANGED <<tableVars, zombies, bounds>>

\* The row is gone, `result[0]` is undefined, and the TypeError leaves the
\* catch block: work() rejects, and so does the promise add() dropped.
RetryRowMissing(t) ==
  /\ pc[t] = "bump"
  /\ ~Exists(job[t])
  /\ rejected' = TRUE
  /\ Complete(t, jobIds \ {job[t]})
  /\ UNCHANGED <<tableVars, zombies, bounds>>

\* updateStatus(), and the end of work().
StatusWritten(t) ==
  /\ pc[t] \in Writing
  /\ UpdateJobStatus(job[t], pc[t])
  /\ Complete(t, jobIds \ {job[t]})
  /\ UNCHANGED <<zombies, rejected, bounds>>

\* A statement of work() fails.  updateStatus() catches that; in the catch
\* block nothing does.
TaskDbError(t) ==
  /\ pc[t] \in {"saveHost", "bump"} \cup Writing
  /\ dbErrors < MaxDbErrors
  /\ dbErrors' = dbErrors + 1
  /\ rejected' = (rejected \/ pc[t] \notin Writing)
  /\ Complete(t, jobIds \ {job[t]})
  /\ UNCHANGED <<tableVars, zombies, crashes, stops>>

\* The task of a stopped queue, which left jobIds when it started.
CancelledEnds(t) ==
  /\ pc[t] = "cancelled"
  /\ Complete(t, jobIds)
  /\ UNCHANGED <<tableVars, zombies, rejected, bounds>>

-----------------------------------------------------------------------------
(* The rest of the service, and the world.                                  *)

QueueUnchanged == UNCHANGED <<isRunning, jobIds, paused, waiting, pc, job, stopping,
                              loopVars, zombies, rejected, bounds>>

\* A deployment, a mint or ProcessSmartContractJob inserts a job row.
InsertJob(j) ==
  /\ status[j] = "absent"
  /\ status' = [status EXCEPT ![j] = "pending"]
  /\ owed' = owed \cup {j}
  /\ Touch({j})
  /\ UNCHANGED <<retryCount, backoff>>
  /\ QueueUnchanged

\* A SIP-019 notification, a mint of a known token, a sequential insert, or the
\* admin RPC's refresh-token asks for the job again.  retry_count and
\* retry_after stay.
RequestRefresh(j) ==
  /\ Exists(j)
  /\ status' = [status EXCEPT ![j] = "pending"]
  /\ owed' = owed \cup {j}
  /\ Touch({j})
  /\ UNCHANGED <<retryCount, backoff>>
  /\ QueueUnchanged

\* retryAllFailedJobs(), from the admin RPC.
RetryAllFailedJobs ==
  LET failed == {j \in Jobs : status[j] \in {"failed", "invalid"}}
  IN /\ failed # {}
     /\ status' = [j \in Jobs |-> IF j \in failed THEN "pending" ELSE status[j]]
     /\ retryCount' = [j \in Jobs |-> IF j \in failed THEN 0 ELSE retryCount[j]]
     /\ backoff' = backoff \ failed
     /\ owed' = owed \cup failed
     /\ Touch(failed)
     /\ QueueUnchanged

\* A block rollback deletes the token or the contract, and the job with it.
DeleteJob(j) ==
  /\ Exists(j)
  /\ status' = [status EXCEPT ![j] = "deleted"]
  /\ retryCount' = [retryCount EXCEPT ![j] = 0]
  /\ backoff' = backoff \ {j}
  /\ owed' = owed \ {j}
  /\ UNCHANGED older
  /\ QueueUnchanged

\* The row's retry_after passes.
RetryAfterPasses(j) ==
  /\ j \in backoff
  /\ backoff' = backoff \ {j}
  /\ UNCHANGED <<status, retryCount, older, owed>>
  /\ QueueUnchanged

\* The process dies: what is not in the table is gone.
Crash ==
  /\ crashes < MaxCrashes
  /\ crashes' = crashes + 1
  /\ isRunning' = FALSE /\ paused' = TRUE /\ stopping' = FALSE
  /\ jobIds' = {} /\ waiting' = <<>> /\ zombies' = {}
  /\ pc' = [t \in Tasks |-> "free"]
  /\ job' = [t \in Tasks |-> NoJob]
  /\ loopPc' = [l \in Loops |-> "off"]
  /\ batch' = [l \in Loops |-> {}]
  /\ adding' = [l \in Loops |-> NoJob]
  /\ UNCHANGED <<tableVars, owed, rejected, stops, dbErrors>>

-----------------------------------------------------------------------------

Init ==
  /\ status = [j \in Jobs |-> "absent"]
  /\ retryCount = [j \in Jobs |-> 0]
  /\ backoff = {}
  /\ older = [j \in Jobs |-> {}]
  /\ isRunning = FALSE /\ paused = TRUE /\ stopping = FALSE
  /\ jobIds = {} /\ waiting = <<>> /\ zombies = {}
  /\ pc = [t \in Tasks |-> "free"]
  /\ job = [t \in Tasks |-> NoJob]
  /\ loopPc = [l \in Loops |-> "off"]
  /\ batch = [l \in Loops |-> {}]
  /\ adding = [l \in Loops |-> NoJob]
  /\ owed = {}
  /\ rejected = FALSE
  /\ crashes = 0 /\ stops = 0 /\ dbErrors = 0

LoopStep(l) ==
  \/ LoopExits(l) \/ LoopReadsQueued(l) \/ LoopReadsPending(l) \/ LoopEnqueues(l)
  \/ LoopWakes(l) \/ LoopResumes(l)

TaskStep(t) ==
  \/ \E o \in Outcomes : HandlerSettles(t, o)
  \/ HostSaved(t) \/ RetryCounted(t) \/ RetryRowMissing(t) \/ StatusWritten(t)
  \/ CancelledEnds(t)

Environment ==
  \/ \E j \in Jobs : InsertJob(j) \/ RequestRefresh(j) \/ DeleteJob(j)
  \/ RetryAllFailedJobs
  \/ Stop \/ Crash
  \/ \E l \in Loops : LoopDbError(l)
  \/ \E t \in Tasks : TaskDbError(t)

Next ==
  \/ Start
  \/ \E l \in Loops : LoopStep(l)
  \/ \E t \in Tasks : TaskStep(t)
  \/ \E j \in Jobs : ZombieEnds(j) \/ RetryAfterPasses(j)
  \/ Environment

Spec == Init /\ [][Next]_vars

\* A statement answers, a timer fires, a handler ends or times out, and a
\* process nobody has stopped starts its queue (JOB_QUEUE_AUTO_START).  Nothing
\* is assumed of requests, faults, zombies and the admin's start.
Fairness ==
  /\ WF_vars(Start /\ stops = 0)
  /\ \A l \in Loops : WF_vars(LoopStep(l))
  /\ \A t \in Tasks : WF_vars(TaskStep(t))
  /\ \A j \in Jobs : WF_vars(RetryAfterPasses(j))

FairSpec == Spec /\ Fairness

-----------------------------------------------------------------------------
(* Properties.                                                              *)

\* The p-queue never runs more tasks than JOB_QUEUE_CONCURRENCY_LIMIT,
\* whatever start() and stop() do to it while tasks end and are added
\* (job-queue.ts:43, 53-68).
ConcurrencyBound == Pending <= ConcurrencyLimit

\* add() tests the size before it awaits and enqueues after (job-queue.ts:81-90):
\* what the activations of the loop can add between the two is all the limit is
\* exceeded by, and the room for it is counted while they await.
Marking == {l \in Loops : loopPc[l] = "marking"}
SizeBound ==
  Len(waiting) + Pending + Cardinality(Marking) <= SizeLimit + Cardinality(Loops) - 1

\* No id stays in jobIds without a task that will take it out: an id left behind
\* would keep its row from ever being added again (job-queue.ts:83, 112, 102).
NoLeakedIds ==
  \A j \in jobIds : \E t \in Tasks :
    /\ job[t] = j
    /\ pc[t] \notin {"free", "cancelled"}

\* Who waits on onIdle() waits for something that will end or be started: no
\* idle moment is missed, by the loop (job-queue.ts:145) or by stop() (:66).
NoMissedIdle ==
  (stopping \/ \E l \in Loops : loopPc[l] = "idle") => ~QueueIdle

\* While nobody has called stop(), no two tasks work on one row, although the
\* row may be requested again at any moment, statements fail and the process
\* may crash (job-queue.ts:81-90, 112).
TasksOn(j) == {t \in Tasks : job[t] = j}
OneTaskPerJob == stops = 0 => \A j \in Jobs : Cardinality(TasksOn(j)) <= 1

\* A settled row runs again only after somebody has asked for it: it goes back
\* to 'pending' first, however stale the batch it was read in (job-queue.ts:111-130).
\* A failed statement is excluded: it sends the loop back to reading before the
\* queue is idle, and then a stale batch does run a settled row again.
SettledUntilRequested ==
  [][\A j \in Jobs : status[j] \in Settled /\ stops = 0 /\ dbErrors = 0
        => status'[j] \in {status[j], "pending", "deleted"}]_vars

\* A row that must wait for its retry_after is not taken for execution before
\* (pg-store.ts:258), although it is read some awaits before it is marked.  A
\* crash or a failed statement breaks this: a row left behind by them is read
\* again whatever its retry_after (pg-store.ts:268-279).
BackoffHonoured ==
  [][stops = 0 /\ crashes = 0 /\ dbErrors = 0
       => \A l \in Loops : loopPc[l] = "marking" => adding[l] \notin backoff]_vars

\* The queue implements JobLifecycle, crashes included, as long as nobody has
\* called stop() and no statement has failed: its workers are the tasks, from
\* add() to the end of work() (job-queue.ts:13-31).
Lifecycle == INSTANCE JobLifecycle WITH held <- {job[t] : t \in Tasks} \ {NoJob}
ImplementsLifecycle ==
  Lifecycle!Init /\ [][stops' = 0 /\ dbErrors' = 0 => Lifecycle!Next]_<<status, job>>

\* A request for a row nobody is working on is served by a handler that starts
\* after it, unless the row is deleted: through the loop's batches and size
\* limit, crashes and failed statements, while other rows are requested again
\* and again (job-queue.ts:138-150, pg-store.ts:259-260).  A row that is itself
\* requested forever goes to the back of the table each time, and may starve.
RequestServed ==
  \A j \in Jobs :
    [](stops = 0) /\ <>[][~RequestRefresh(j)]_vars =>
      ((status[j] = "pending" /\ TasksOn(j) = {}) ~> (j \notin owed \/ ~Exists(j)))

\* A row does not stay 'queued': its task settles it, or the loop finds it left
\* behind and runs it again (job-queue.ts:112-121).
QueuedLeaves ==
  [](stops = 0) => \A j \in Jobs : status[j] = "queued" ~> status[j] # "queued"

\* The first stop() completes: an idle moment comes, although the loop may still
\* be adding and start() may be called meanwhile (job-queue.ts:63-68).
FirstStopCompletes == (stopping /\ stops = 1) ~> ~stopping

-----------------------------------------------------------------------------
(* What the repository says, and the code does not do.                      *)

\* env.ts:76-79: "How many times a job will be retried if its failure is
\* recoverable".  A job that only ever fails recoverably is given up at last.
GivesUp == \A j \in Jobs : status[j] = "pending" ~> status[j] \in {"failed", "deleted"}

\* README.md:34: "Automatic metadata refreshes via SIP-019 notifications".  A row
\* is done only when a handler has started after the last request.
NoLostRequest == \A j \in Jobs : status[j] = "done" => j \notin owed
=============================================================================
