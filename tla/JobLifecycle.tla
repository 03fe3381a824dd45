---------------------------- MODULE JobLifecycle ----------------------------
(***************************************************************************)
(* What the job queue promises about the rows of the jobs table, without    *)
(* saying how: a row is held by at most one worker, a worker takes a row    *)
(* that somebody has asked for, and only a request or a worker changes it.  *)
(* The header comment of job-queue.ts is the text behind it.                *)
(***************************************************************************)
CONSTANT Jobs

VARIABLES
  status,   \* the rows' status
  held      \* the rows a worker of the running process holds

Gone == {"absent", "deleted"}

\* Rows are inserted, refreshed, or retried together.
Request(S) ==
  /\ \A j \in S : status[j] # "deleted"
  /\ status' = [j \in Jobs |-> IF j \in S THEN "pending" ELSE status[j]]
  /\ UNCHANGED held

Delete(j) ==
  /\ status[j] \notin Gone
  /\ status' = [status EXCEPT ![j] = "deleted"]
  /\ UNCHANGED held

\* A worker takes a row that waits, or that a dead worker left behind, or that
\* has just been deleted under its eyes.
Take(j) ==
  /\ j \notin held
  /\ status[j] \in {"pending", "queued", "deleted"}
  /\ held' = held \cup {j}
  /\ status' = IF status[j] = "deleted" THEN status ELSE [status EXCEPT ![j] = "queued"]

\* The worker lets go of the row, having written its verdict or having failed to.
Release(j) ==
  /\ j \in held
  /\ held' = held \ {j}
  /\ \/ UNCHANGED status
     \/ /\ status[j] \notin Gone
        /\ \E s \in {"pending", "done", "failed", "invalid"} :
             status' = [status EXCEPT ![j] = s]

Die == held' = {} /\ UNCHANGED status

Init == status = [j \in Jobs |-> "absent"] /\ held = {}

Next ==
  \/ \E S \in SUBSET Jobs : Request(S)
  \/ \E j \in Jobs : Delete(j) \/ Take(j) \/ Release(j)
  \/ Die

Spec == Init /\ [][Next]_<<status, held>>
=============================================================================
