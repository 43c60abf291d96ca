------------------------------- MODULE JobQueue -------------------------------
(***************************************************************************)
(* One queue of background jobs in the memory of the server (lib/queue.ts),*)
(* used whenever BullMQ is not configured.                                 *)
(*                                                                         *)
(* Nothing polls the queue.  processInMemoryJob takes the first waiting    *)
(* job and runs it; it is called when a job is added or retried by hand,   *)
(* once more after every run, and by a timer after a failed one.  The code *)
(* is single-threaded: what happens between two awaits is one step.        *)
(* BullMQ, delays of time and the payload of jobs are left out.            *)
(***************************************************************************)
EXTENDS Naturals, Sequences

CONSTANTS JobIds,      \* jobs that may be added
          Handled,     \* those whose name has a registered processor
          MaxAttempts, \* JobOptions.attempts
          MaxRetries   \* calls of retryJob (bound of the model)

ASSUME JobAssumption ==
  /\ Handled \subseteq JobIds
  /\ MaxAttempts \in Nat \ {0}
  /\ MaxRetries \in Nat

VARIABLES line,        \* inMemoryQueues: jobs in the order of their arrival
          jobStatus,   \* job.status, "none" before the job is added
          attempts,    \* job.attemptsMade
          runs,        \* processors at work on the job
          wakeups,     \* setImmediate calls of processInMemoryJob
          timers,      \* setTimeout calls of processInMemoryJob
          retried,     \* how often jobs were retried by hand
          unwoken      \* a waiting job without a processor was removed, and nobody
                       \* has looked at the queue since (history)

queueVars == <<line, jobStatus, attempts, runs, wakeups, timers, retried, unwoken>>

JobStatuses == {"none", "waiting", "delayed", "active", "completed", "failed"}

-----------------------------------------------------------------------------
(* processInMemoryJob *)

\* Mutant of Waiting: an active job is found once more.
WaitingOrActive(j, status) == status[j] \in {"waiting", "active"}

\* A delayed job is not waiting, and nothing ever makes it so.
Waiting(j, status) == status[j] = "waiting"

\* jobs.find: the first of them, if there is one, and only if it has a processor.
Started(q, status) ==
  {j \in Handled : \E i \in DOMAIN q : /\ q[i] = j
                                      /\ Waiting(j, status)
                                      /\ \A k \in 1 .. i - 1 : ~Waiting(q[k], status)}

\* It runs on a queue and statuses that its caller has just written.
Process(q, status) ==
  LET job == Started(q, status)
  IN  /\ jobStatus' = [j \in JobIds |-> IF j \in job THEN "active" ELSE status[j]]
      /\ runs' = [j \in JobIds |-> IF j \in job THEN runs[j] + 1 ELSE runs[j]]
      /\ unwoken' = FALSE

-----------------------------------------------------------------------------
(* Callers *)

AddJob(j, status) ==
  /\ jobStatus[j] = "none"
  /\ line' = Append(line, j)
  /\ Process(line', [jobStatus EXCEPT ![j] = status])
  /\ UNCHANGED <<attempts, wakeups, timers, retried>>

\* jobs.findIndex and splice.  Only the queue forgets the job: a processor at work
\* on it goes on.
RemoveJob(j) ==
  /\ \E i \in DOMAIN line :
        line[i] = j /\ line' = SubSeq(line, 1, i - 1) \o SubSeq(line, i + 1, Len(line))
  /\ unwoken' = (unwoken \/ (Waiting(j, jobStatus) /\ j \notin Handled))
  /\ UNCHANGED <<jobStatus, attempts, runs, wakeups, timers, retried>>

RetryJob(j) ==
  /\ j \in {line[i] : i \in DOMAIN line}
  /\ jobStatus[j] = "failed"
  /\ retried < MaxRetries
  /\ retried' = retried + 1
  /\ attempts' = [attempts EXCEPT ![j] = 0]
  /\ Process(line, [jobStatus EXCEPT ![j] = "waiting"])
  /\ UNCHANGED <<line, wakeups, timers>>

Wakeup ==
  /\ wakeups > 0
  /\ wakeups' = wakeups - 1
  /\ Process(line, jobStatus)
  /\ UNCHANGED <<line, attempts, timers, retried>>

Timer ==
  /\ timers > 0
  /\ timers' = timers - 1
  /\ Process(line, jobStatus)
  /\ UNCHANGED <<line, attempts, wakeups, retried>>

-----------------------------------------------------------------------------
(* The end of a run *)

EndRun(j) ==
  /\ runs[j] > 0
  /\ runs' = [runs EXCEPT ![j] = @ - 1]
  /\ wakeups' = wakeups + 1
  /\ UNCHANGED <<line, retried, unwoken>>

\* Mutant of Succeed: only a failure looks for the next job.
SucceedQuietly(j) ==
  /\ runs[j] > 0
  /\ runs' = [runs EXCEPT ![j] = @ - 1]
  /\ jobStatus' = [jobStatus EXCEPT ![j] = "completed"]
  /\ UNCHANGED <<line, retried, unwoken, attempts, timers, wakeups>>

Succeed(j) ==
  /\ EndRun(j)
  /\ jobStatus' = [jobStatus EXCEPT ![j] = "completed"]
  /\ UNCHANGED <<attempts, timers>>

\* A job that is to be tried again gets a timer for its backoff, and waits in
\* its old place, where the next wakeup finds it.
Fail(j) ==
  /\ EndRun(j)
  /\ attempts' = [attempts EXCEPT ![j] = @ + 1]
  /\ LET last == attempts[j] + 1 >= MaxAttempts
     IN  /\ jobStatus' = [jobStatus EXCEPT ![j] = IF last THEN "failed" ELSE "waiting"]
         /\ timers' = IF last THEN timers ELSE timers + 1

-----------------------------------------------------------------------------
QueueInit ==
  /\ line = <<>>
  /\ jobStatus = [j \in JobIds |-> "none"]
  /\ attempts = [j \in JobIds |-> 0]
  /\ runs = [j \in JobIds |-> 0]
  /\ wakeups = 0
  /\ timers = 0
  /\ retried = 0
  /\ unwoken = FALSE

QueueNext ==
  \/ \E j \in JobIds : \/ \E status \in {"waiting", "delayed"} : AddJob(j, status)
                       \/ RemoveJob(j)
                       \/ RetryJob(j)
                       \/ Succeed(j)
                       \/ Fail(j)
  \/ Wakeup
  \/ Timer

QueueSpec == QueueInit /\ [][QueueNext]_queueVars

\* The event loop runs what is scheduled, and every processor returns or throws.
EventLoop ==
  /\ WF_queueVars(Wakeup)
  /\ WF_queueVars(Timer)
  /\ \A j \in JobIds : WF_queueVars(Succeed(j) \/ Fail(j))

FairQueueSpec == QueueSpec /\ EventLoop

-----------------------------------------------------------------------------
(* What the queue promises *)

\* The queue's variables hold values of their types.
QueueTypeOK ==
  /\ line \in Seq(JobIds)
  /\ jobStatus \in [JobIds -> JobStatuses]
  /\ attempts \in [JobIds -> 0..MaxAttempts]
  /\ runs \in [JobIds -> Nat]
  /\ wakeups \in Nat
  /\ timers \in Nat
  /\ retried \in 0..MaxRetries
  /\ unwoken \in BOOLEAN

\* A job is run by one processor at a time, however many calls of
\* processInMemoryJob are pending, and by none that its status does not show.
OneRunAtATime == \A j \in JobIds : runs[j] = IF jobStatus[j] = "active" THEN 1 ELSE 0

\* A job without a processor blocks those behind it.
Blocked(j) ==
  \E i, k \in DOMAIN line :
    i <= k /\ line[k] = j /\ Waiting(line[i], jobStatus) /\ line[i] \notin Handled

\* Every waiting job comes to its end, except behind a job without a processor
\* or where a removal has left the queue asleep; failures of the jobs before it
\* and their retries only delay it.
JobsEnd ==
  \A j \in JobIds :
    jobStatus[j] = "waiting" ~> \/ jobStatus[j] \in {"completed", "failed"}
                                \/ j \notin {line[i] : i \in DOMAIN line}
                                \/ Blocked(j)
                                \/ unwoken
=============================================================================
