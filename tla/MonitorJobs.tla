----------------------------- MODULE MonitorJobs -----------------------------
(***************************************************************************)
(* Life of the monitor-run jobs of ARGUS: API requests (and the scheduler  *)
(* scan, which calls the same function) that create and cancel jobs in     *)
(* PostgreSQL, the Celery queue "monitoring" on Redis, and the workers     *)
(* that execute, retry and settle them.  Every action is one committed     *)
(* transaction or one broker operation; whatever a request or a worker     *)
(* read before is a local copy that may be stale when it writes.           *)
(*                                                                         *)
(* The stages of the workflow between taking a job and settling it are     *)
(* abstracted here to "running" (the cancellation check may still fire)    *)
(* and "finishing" (the last check of this execution has passed).          *)
(***************************************************************************)
EXTENDS Naturals, FiniteSets

CONSTANTS Monitors,    \* monitors that exist throughout
          Jobs,        \* rows analysis_jobs may get, each with its monitor_run
          Clients,     \* concurrent API requests or scheduler scans
          Workers,     \* Celery worker processes (pool solo, concurrency 1)
          MaxRetries,  \* settings.job_max_retries
          Faults,      \* the infrastructure faults that may happen
          MaxFaults,   \* bound on how many of them happen in one behaviour
          NoMonitor, NoJob, NoMsg

FaultKinds == {"api_crash", "send_ambiguous", "republish_lost",
               "db_error", "worker_crash", "redeliver"}

Messages == [job : Jobs, retries : 0 .. MaxRetries, nth : Nat]

ASSUME ConstantsAssumption ==
    /\ MaxRetries \in Nat
    /\ MaxFaults \in Nat
    /\ Faults \subseteq FaultKinds
    /\ NoMonitor \notin Monitors
    /\ NoJob \notin Jobs
    /\ NoMsg \notin Messages

VARIABLES jobStatus,   \* analysis_jobs.status, "none" before the insert
          jobMonitor,  \* analysis_jobs.monitor_id
          runStatus,   \* monitor_runs.status of the job's run
          queue,       \* messages waiting in the Redis list
          unacked,     \* messages delivered and not acknowledged yet
          sent,        \* number of messages ever published for a job
          revoked,     \* jobs whose task id was broadcast as revoked
          cpc, cmon, cjob, cdone,   \* a request: step, monitor, job, run read
          wpc, wmsg,                \* a worker: step and message in hand
          faults                    \* faults so far, bounded by MaxFaults

dbVars     == <<jobStatus, jobMonitor, runStatus>>
brokerVars == <<queue, unacked, sent, revoked>>
clientVars == <<cpc, cmon, cjob, cdone>>
workerVars == <<wpc, wmsg>>
vars       == <<jobStatus, jobMonitor, runStatus, queue, unacked, sent, revoked,
                cpc, cmon, cjob, cdone, wpc, wmsg, faults>>

FinalStatus == {"succeeded", "failed", "cancelled"}
DoneRun     == {"succeeded", "no_new_imagery", "partial"}
JobStatus   == {"none", "queued", "running"} \cup FinalStatus
RunStatus   == {"none", "started", "failed", "cancelled"} \cup DoneRun
ClientSteps == {"idle", "insert", "send", "failing",
                "cancel_read", "cancel_write", "revoke"}
WorkerSteps == {"idle", "start", "running", "finishing", "retry", "republish",
                "failing", "cancelling", "ack"}

Active(j) == jobStatus[j] \in {"queued", "running"}

(* Mutant: the index covers running jobs only. *)
IndexAllowsWhileQueued(j, m) ==
    \A k \in Jobs \ {j} : jobMonitor[k] = m => jobStatus[k] # "running"

(* The partial unique index uq_analysis_jobs_active_monitor_run lets row j  *)
(* be active for monitor m.                                                 *)
IndexAllows(j, m) == \A k \in Jobs \ {j} : jobMonitor[k] = m => ~ Active(k)

(* One of the configured infrastructure faults happens now.                 *)
Fault(f) == f \in Faults /\ faults < MaxFaults /\ faults' = faults + 1

TypeOK ==
    /\ jobStatus \in [Jobs -> JobStatus]
    /\ jobMonitor \in [Jobs -> Monitors \cup {NoMonitor}]
    /\ runStatus \in [Jobs -> RunStatus]
    /\ queue \subseteq Messages
    /\ unacked \subseteq Messages
    /\ sent \in [Jobs -> Nat]
    /\ revoked \subseteq Jobs
    /\ cpc \in [Clients -> ClientSteps]
    /\ cmon \in [Clients -> Monitors \cup {NoMonitor}]
    /\ cjob \in [Clients -> Jobs \cup {NoJob}]
    /\ cdone \in [Clients -> BOOLEAN]
    /\ wpc \in [Workers -> WorkerSteps]
    /\ wmsg \in [Workers -> Messages \cup {NoMsg}]
    /\ faults \in 0 .. MaxFaults

Init ==
    /\ jobStatus = [j \in Jobs |-> "none"]
    /\ jobMonitor = [j \in Jobs |-> NoMonitor]
    /\ runStatus = [j \in Jobs |-> "none"]
    /\ queue = {}
    /\ unacked = {}
    /\ sent = [j \in Jobs |-> 0]
    /\ revoked = {}
    /\ cpc = [c \in Clients |-> "idle"]
    /\ cmon = [c \in Clients |-> NoMonitor]
    /\ cjob = [c \in Clients |-> NoJob]
    /\ cdone = [c \in Clients |-> FALSE]
    /\ wpc = [w \in Workers |-> "idle"]
    /\ wmsg = [w \in Workers |-> NoMsg]
    /\ faults = 0
------------------------------------------------------------------------------
(* Requests.  A request is over: its handler forgets what it read.          *)
EndRequest(c) ==
    /\ cpc' = [cpc EXCEPT ![c] = "idle"]
    /\ cmon' = [cmon EXCEPT ![c] = NoMonitor]
    /\ cjob' = [cjob EXCEPT ![c] = NoJob]
    /\ cdone' = [cdone EXCEPT ![c] = FALSE]

(* enqueue_monitor_run_job counts the active jobs and finds none.           *)
CheckNoActiveJob(c, m) ==
    /\ cpc[c] = "idle"
    /\ \E j \in Jobs : jobStatus[j] = "none"
    /\ \A j \in Jobs : jobMonitor[j] = m => ~ Active(j)
    /\ cpc' = [cpc EXCEPT ![c] = "insert"]
    /\ cmon' = [cmon EXCEPT ![c] = m]
    /\ UNCHANGED <<dbVars, brokerVars, cjob, cdone, workerVars, faults>>

(* Mutant: the insert relies on the earlier count, there is no unique index. *)
InsertJobUnindexed(c, j) ==
    /\ cpc[c] = "insert"
    /\ jobStatus[j] = "none"
    /\ jobStatus' = [jobStatus EXCEPT ![j] = "queued"]
    /\ jobMonitor' = [jobMonitor EXCEPT ![j] = cmon[c]]
    /\ runStatus' = [runStatus EXCEPT ![j] = "started"]
    /\ cpc' = [cpc EXCEPT ![c] = "send"]
    /\ cjob' = [cjob EXCEPT ![c] = j]
    /\ UNCHANGED <<brokerVars, cmon, cdone, workerVars, faults>>

(* ... inserts job and run in one commit, if the unique index agrees, ...   *)
InsertJob(c, j) ==
    /\ cpc[c] = "insert"
    /\ jobStatus[j] = "none"
    /\ IndexAllows(j, cmon[c])
    /\ jobStatus' = [jobStatus EXCEPT ![j] = "queued"]
    /\ jobMonitor' = [jobMonitor EXCEPT ![j] = cmon[c]]
    /\ runStatus' = [runStatus EXCEPT ![j] = "started"]
    /\ cpc' = [cpc EXCEPT ![c] = "send"]
    /\ cjob' = [cjob EXCEPT ![c] = j]
    /\ UNCHANGED <<brokerVars, cmon, cdone, workerVars, faults>>

InsertConflict(c) ==
    /\ cpc[c] = "insert"
    /\ \E j \in Jobs : jobMonitor[j] = cmon[c] /\ Active(j)
    /\ EndRequest(c)
    /\ UNCHANGED <<dbVars, brokerVars, workerVars, faults>>

Publish(j, retries) ==
    /\ queue' = queue \cup {[job |-> j, retries |-> retries, nth |-> sent[j]]}
    /\ sent' = [sent EXCEPT ![j] = @ + 1]

(* ... and publishes the task.  celery_task_id is recorded with it: it only *)
(* decides whether a later cancel can revoke.                               *)
SendTask(c) ==
    /\ cpc[c] = "send"
    /\ Publish(cjob[c], 0)
    /\ EndRequest(c)
    /\ UNCHANGED <<dbVars, unacked, revoked, workerVars, faults>>

(* send_task raises; the broker may have stored the message all the same    *)
(* (socket timeout while waiting for the reply).                            *)
SendRaises(c) ==
    /\ cpc[c] = "send"
    /\ cpc' = [cpc EXCEPT ![c] = "failing"]
    /\ \/ UNCHANGED <<queue, sent, faults>>
       \/ Publish(cjob[c], 0) /\ Fault("send_ambiguous")
    /\ UNCHANGED <<dbVars, unacked, revoked, cmon, cjob, cdone, workerVars>>

(* Mutant: the send error is reported to the client and the job left as is. *)
MarkEnqueueFailedOmitted(c) ==
    /\ cpc[c] = "failing"
    /\ EndRequest(c)
    /\ UNCHANGED <<dbVars, brokerVars, workerVars, faults>>

(* The handler of the send error: status failed, whatever it is by now; a   *)
(* database error here is swallowed.                                        *)
MarkEnqueueFailed(c) ==
    /\ cpc[c] = "failing"
    /\ \/ /\ jobStatus' = [jobStatus EXCEPT ![cjob[c]] = "failed"]
          /\ runStatus' = [runStatus EXCEPT ![cjob[c]] = "failed"]
          /\ UNCHANGED faults
       \/ Fault("db_error") /\ UNCHANGED <<jobStatus, runStatus>>
    /\ EndRequest(c)
    /\ UNCHANGED <<jobMonitor, brokerVars, workerVars>>

(* The cancel request loads the job when it checks the owner; a final job   *)
(* is left alone and only revoked again.                                    *)
CancelReadJob(c, j) ==
    /\ cpc[c] = "idle"
    /\ jobStatus[j] # "none"
    /\ cpc' = [cpc EXCEPT ![c] = IF jobStatus[j] \in FinalStatus
                                 THEN "revoke" ELSE "cancel_read"]
    /\ cjob' = [cjob EXCEPT ![c] = j]
    /\ UNCHANGED <<dbVars, brokerVars, cmon, cdone, workerVars, faults>>

(* The second query refreshes the run only: the session keeps the job.      *)
CancelReadRun(c) ==
    /\ cpc[c] = "cancel_read"
    /\ cpc' = [cpc EXCEPT ![c] = "cancel_write"]
    /\ cdone' = [cdone EXCEPT ![c] = runStatus[cjob[c]] \in DoneRun]
    /\ UNCHANGED <<dbVars, brokerVars, cmon, cjob, workerVars, faults>>

CancelCommit(c) ==
    /\ cpc[c] = "cancel_write"
    /\ jobStatus' = [jobStatus EXCEPT ![cjob[c]] = "cancelled"]
    /\ runStatus' = IF cdone[c] THEN runStatus
                    ELSE [runStatus EXCEPT ![cjob[c]] = "cancelled"]
    /\ cpc' = [cpc EXCEPT ![c] = "revoke"]
    /\ UNCHANGED <<jobMonitor, brokerVars, cmon, cjob, cdone, workerVars, faults>>

(* Best effort: no task id, or a failed broadcast, revokes nothing.         *)
Revoke(c) ==
    /\ cpc[c] = "revoke"
    /\ revoked' \in {revoked, revoked \cup {cjob[c]}}
    /\ EndRequest(c)
    /\ UNCHANGED <<dbVars, queue, unacked, sent, workerVars, faults>>

(* The API process dies in the middle of a request.                         *)
ApiCrash(c) ==
    /\ cpc[c] # "idle"
    /\ Fault("api_crash")
    /\ EndRequest(c)
    /\ UNCHANGED <<dbVars, brokerVars, workerVars>>
------------------------------------------------------------------------------
(* Mutant: the message is acknowledged when it is delivered (acks early).   *)
ReceiveAckedEarly(w, m) ==
    /\ wpc[w] = "idle"
    /\ m \in queue
    /\ queue' = queue \ {m}
    /\ wpc' = [wpc EXCEPT ![w] = "start"]
    /\ wmsg' = [wmsg EXCEPT ![w] = m]
    /\ UNCHANGED <<dbVars, unacked, sent, revoked, clientVars, faults>>

(* Workers and broker.  task_acks_late: a message stays unacknowledged      *)
(* until the task ends, and is restored to the queue if it does not.        *)
Receive(w, m) ==
    /\ wpc[w] = "idle"
    /\ m \in queue
    /\ queue' = queue \ {m}
    /\ unacked' = unacked \cup {m}
    /\ wpc' = [wpc EXCEPT ![w] = "start"]
    /\ wmsg' = [wmsg EXCEPT ![w] = m]
    /\ UNCHANGED <<dbVars, sent, revoked, clientVars, faults>>

(* A worker that heard the revocation drops the task unexecuted.            *)
DropRevoked(w, m) ==
    /\ wpc[w] = "idle"
    /\ m \in queue
    /\ m.job \in revoked
    /\ queue' = queue \ {m}
    /\ UNCHANGED <<dbVars, unacked, sent, revoked, clientVars, workerVars, faults>>

WorkerGoto(w, step) ==
    /\ wpc' = [wpc EXCEPT ![w] = step]
    /\ UNCHANGED wmsg

Settled(j) == jobStatus[j] \in FinalStatus

(* Mutant: the workflow starts whatever the status of the job is.           *)
StartWorkflowUnguarded(w) ==
    /\ wpc[w] = "start"
    /\ LET j == wmsg[w].job
       IN  /\ jobStatus' = [jobStatus EXCEPT ![j] = "running"]
           /\ runStatus' = [runStatus EXCEPT ![j] = "started"]
    /\ WorkerGoto(w, "running")
    /\ UNCHANGED <<jobMonitor, brokerVars, clientVars, faults>>

(* execute_monitor_run_workflow locks the rows, skips a final job, and      *)
(* otherwise commits RUNNING and STARTED.                                   *)
StartWorkflow(w) ==
    /\ wpc[w] = "start"
    /\ LET j == wmsg[w].job
       IN  \/ /\ Settled(j)
              /\ WorkerGoto(w, "ack")
              /\ UNCHANGED dbVars
           \/ /\ ~ Settled(j)
              /\ jobStatus' = [jobStatus EXCEPT ![j] = "running"]
              /\ runStatus' = [runStatus EXCEPT ![j] = "started"]
              /\ WorkerGoto(w, "running")
              /\ UNCHANGED jobMonitor
    /\ UNCHANGED <<brokerVars, clientVars, faults>>

(* _ensure_not_cancelled: a fresh read of the status.  A pass that is not   *)
(* the last one of this execution changes nothing.                          *)
CheckCancelled(w) ==
    /\ wpc[w] = "running"
    /\ WorkerGoto(w, IF jobStatus[wmsg[w].job] = "cancelled"
                     THEN "cancelling" ELSE "finishing")
    /\ UNCHANGED <<dbVars, brokerVars, clientVars, faults>>

(* _mark_job_final with the outcome of the workflow: it writes the status   *)
(* without looking at the one the row has by now.                           *)
Finish(w, outcome) ==
    /\ wpc[w] = "finishing"
    /\ LET j == wmsg[w].job
       IN  /\ jobStatus' = [jobStatus EXCEPT ![j] = "succeeded"]
           /\ runStatus' = [runStatus EXCEPT ![j] = outcome]
    /\ WorkerGoto(w, "ack")
    /\ UNCHANGED <<jobMonitor, brokerVars, clientVars, faults>>

(* MonitorRunTransientError: retried while the message has retries left.    *)
TransientError(w) ==
    /\ wpc[w] = "running"
    /\ WorkerGoto(w, IF wmsg[w].retries < MaxRetries THEN "retry" ELSE "failing")
    /\ UNCHANGED <<dbVars, brokerVars, clientVars, faults>>

(* Any other exception of the workflow, a failed final commit included; the *)
(* first transaction of the workflow fails only with the database.          *)
WorkflowError(w) ==
    /\ \/ wpc[w] \in {"running", "finishing"} /\ UNCHANGED faults
       \/ wpc[w] = "start" /\ Fault("db_error")
    /\ WorkerGoto(w, "failing")
    /\ UNCHANGED <<dbVars, brokerVars, clientVars>>

(* mark_job_retry_pending: back to QUEUED unless the job is cancelled; an   *)
(* error of that commit, a violation of the unique index included, is       *)
(* rolled back and ignored.  Only if the rows cannot be read at all does    *)
(* the task end here.                                                       *)
MarkRetryPending(w) ==
    /\ wpc[w] = "retry"
    /\ LET j == wmsg[w].job
           Writes == jobStatus[j] # "cancelled" /\ IndexAllows(j, jobMonitor[j])
       IN  \/ /\ Writes
              /\ jobStatus' = [jobStatus EXCEPT ![j] = "queued"]
              /\ WorkerGoto(w, "republish")
              /\ UNCHANGED faults
           \/ /\ ~ Writes
              /\ WorkerGoto(w, "republish")
              /\ UNCHANGED <<jobStatus, faults>>
           \/ /\ Fault("db_error")
              /\ \E step \in {"republish", "ack"} : WorkerGoto(w, step)
              /\ UNCHANGED jobStatus
    /\ UNCHANGED <<jobMonitor, runStatus, brokerVars, clientVars>>

(* Mutant: the error of self.retry is swallowed and nothing published.      *)
RepublishOmitted(w) ==
    /\ wpc[w] = "republish"
    /\ WorkerGoto(w, "ack")
    /\ UNCHANGED <<dbVars, brokerVars, clientVars, faults>>

(* self.retry publishes the task again, then ends this execution.  If the   *)
(* publication fails Celery rejects the message without requeueing it.      *)
Republish(w) ==
    /\ wpc[w] = "republish"
    /\ \/ Publish(wmsg[w].job, wmsg[w].retries + 1) /\ UNCHANGED faults
       \/ Fault("republish_lost") /\ UNCHANGED <<queue, sent>>
    /\ WorkerGoto(w, "ack")
    /\ UNCHANGED <<dbVars, unacked, revoked, clientVars>>

(* Mutant: the final status is written to the job row only.                 *)
MarkEndedJobOnly(w, step, status) ==
    /\ wpc[w] = step
    /\ jobStatus' = [jobStatus EXCEPT ![wmsg[w].job] = status]
    /\ WorkerGoto(w, "ack")
    /\ UNCHANGED <<jobMonitor, runStatus, brokerVars, clientVars, faults>>

(* mark_job_failed and mark_job_cancelled: no look at the current status    *)
(* either; a database error in them leaves the rows as they are.            *)
MarkEnded(w, step, status) ==
    /\ wpc[w] = step
    /\ LET j == wmsg[w].job
       IN  \/ /\ jobStatus' = [jobStatus EXCEPT ![j] = status]
              /\ runStatus' = [runStatus EXCEPT ![j] = status]
              /\ UNCHANGED faults
           \/ Fault("db_error") /\ UNCHANGED <<jobStatus, runStatus>>
    /\ WorkerGoto(w, "ack")
    /\ UNCHANGED <<jobMonitor, brokerVars, clientVars>>

MarkFailed(w)    == MarkEnded(w, "failing", "failed")
MarkCancelled(w) == MarkEnded(w, "cancelling", "cancelled")

LetGo(w) ==
    /\ wpc' = [wpc EXCEPT ![w] = "idle"]
    /\ wmsg' = [wmsg EXCEPT ![w] = NoMsg]

(* The task has ended.  A restored copy keeps the delivery tag, so this     *)
(* acknowledgement also removes the entry of whoever holds the copy.        *)
Ack(w) ==
    /\ wpc[w] = "ack"
    /\ unacked' = unacked \ {wmsg[w]}
    /\ LetGo(w)
    /\ UNCHANGED <<dbVars, queue, sent, revoked, clientVars, faults>>

WorkerCrash(w) ==
    /\ wpc[w] # "idle"
    /\ Fault("worker_crash")
    /\ LetGo(w)
    /\ UNCHANGED <<dbVars, brokerVars, clientVars>>

HeldBy(w, m) == wpc[w] # "idle" /\ wmsg[w] = m

(* The visibility timeout restores a message nobody will acknowledge ...    *)
Restore(m) ==
    /\ m \in unacked
    /\ \A w \in Workers : ~ HeldBy(w, m)
    /\ unacked' = unacked \ {m}
    /\ queue' = queue \cup {m}
    /\ UNCHANGED <<dbVars, sent, revoked, clientVars, workerVars, faults>>

(* ... and also one whose worker is merely slow, when another worker polls. *)
Redeliver(m) ==
    /\ m \in unacked
    /\ \E w \in Workers : HeldBy(w, m)
    /\ \E w \in Workers : ~ HeldBy(w, m)
    /\ Fault("redeliver")
    /\ unacked' = unacked \ {m}
    /\ queue' = queue \cup {m}
    /\ UNCHANGED <<dbVars, sent, revoked, clientVars, workerVars>>
------------------------------------------------------------------------------
(* What a request in progress does by itself; starting one is the user's    *)
(* choice.                                                                  *)
RequestStep(c) ==
    \/ \E j \in Jobs : InsertJob(c, j)
    \/ InsertConflict(c)
    \/ SendTask(c)
    \/ SendRaises(c)
    \/ MarkEnqueueFailed(c)
    \/ CancelReadRun(c)
    \/ CancelCommit(c)
    \/ Revoke(c)

NewRequest(c) ==
    \/ \E m \in Monitors : CheckNoActiveJob(c, m)
    \/ \E j \in Jobs : CancelReadJob(c, j)

WorkerStep(w) ==
    \/ \E m \in queue : Receive(w, m)
    \/ \E m \in queue : DropRevoked(w, m)
    \/ StartWorkflow(w)
    \/ CheckCancelled(w)
    \/ \E outcome \in DoneRun : Finish(w, outcome)
    \/ TransientError(w)
    \/ WorkflowError(w)
    \/ MarkRetryPending(w)
    \/ Republish(w)
    \/ MarkFailed(w)
    \/ MarkCancelled(w)
    \/ Ack(w)

Next ==
    \/ \E c \in Clients : NewRequest(c) \/ RequestStep(c) \/ ApiCrash(c)
    \/ \E w \in Workers : WorkerStep(w) \/ WorkerCrash(w)
    \/ \E m \in unacked : Restore(m) \/ Redeliver(m)

SafetySpec == Init /\ [][Next]_vars

(* A live request and a live worker keep running, and Redis restores what   *)
(* a dead worker held; nobody has to start a request, and no fault is fair. *)
Fairness ==
    /\ \A c \in Clients : WF_vars(RequestStep(c))
    /\ \A w \in Workers : WF_vars(WorkerStep(w))
    /\ WF_vars(\E m \in unacked : Restore(m))

Spec == SafetySpec /\ Fairness
------------------------------------------------------------------------------
(* Properties.                                                              *)

(* At most one job of a monitor is queued or running, although the check    *)
(* before the insert is not atomic with it and a retry makes a job active   *)
(* again (the unique index is what guarantees it).                          *)
OneActiveJob ==
    \A j, k \in Jobs :
        (j # k /\ Active(j) /\ Active(k)) => jobMonitor[j] # jobMonitor[k]

MessageFor(j) == \E m \in queue \cup unacked : m.job = j
RequestFor(j) == \E c \in Clients : cpc[c] \in {"send", "failing"} /\ cjob[c] = j

(* No stranded job: a queued job still has a message in the broker or a     *)
(* request about to send or fail it, and a running job still has a message  *)
(* that will be finished or redelivered.                                    *)
ActiveJobHasDriver ==
    \A j \in Jobs :
        /\ jobStatus[j] = "queued" => MessageFor(j) \/ RequestFor(j)
        /\ jobStatus[j] = "running" => MessageFor(j)

(* The two rows of a run tell the same story while nothing has failed; only *)
(* a job cancelled by a request that raced with its completion may belong   *)
(* to a completed run.                                                      *)
JobAndRunAgree ==
    faults = 0 => \A j \in Jobs :
        /\ jobStatus[j] \in {"queued", "running"} => runStatus[j] = "started"
        /\ jobStatus[j] = "succeeded" => runStatus[j] \in DoneRun
        /\ jobStatus[j] = "failed" => runStatus[j] = "failed"
        /\ jobStatus[j] = "cancelled" => runStatus[j] \in DoneRun \cup {"cancelled"}

Executing(w) == wpc[w] \in {"running", "finishing", "retry", "failing", "cancelling"}

(* While nothing has failed, two workers are never in the workflow of one   *)
(* monitor at the same time unless one of them still executes a job that    *)
(* has been cancelled.                                                      *)
OverlapOnlyWithCancelled ==
    faults = 0 => \A v, w \in Workers :
        (v # w /\ Executing(v) /\ Executing(w)) =>
            \/ jobMonitor[wmsg[v].job] # jobMonitor[wmsg[w].job]
            \/ jobStatus[wmsg[v].job] = "cancelled"
            \/ jobStatus[wmsg[w].job] = "cancelled"

(* A job cancelled while it waits in the queue (for its first execution or  *)
(* for a retry), its own enqueue request being over, stays cancelled,       *)
(* whatever messages for it are still delivered.                            *)
CancelledBeforePickupStays ==
    [][\A j \in Jobs :
          (jobStatus[j] = "cancelled"
             /\ ~ RequestFor(j)
             /\ \A w \in Workers : Executing(w) => wmsg[w].job # j)
          => jobStatus'[j] = "cancelled"]_vars

(* A settled job is never queued or running again, and the other promises   *)
(* of the job table hold as well.                                           *)
PhaseOf(status) == IF status = "none" THEN "absent"
                   ELSE IF status \in FinalStatus THEN "settled" ELSE status

Contract == INSTANCE JobContract WITH
                phase <- [j \in Jobs |-> PhaseOf(jobStatus[j])],
                owner <- jobMonitor

ContractSafety == Contract!SafetySpec
ContractHolds  == Contract!Spec

(* The job of a monitor as the schedule scan sees it: an active one has     *)
(* been sent if the broker has a message of it; a worker trails in a job    *)
(* that is over.                                                            *)
JobOf(m) ==
    LET current == {j \in Jobs : jobMonitor[j] = m /\ Active(j)}
    IN  IF current = {} THEN "none"
        ELSE IF \E j \in current : MessageFor(j) THEN "sent" ELSE "unsent"

TrailsIn(w, m) ==
    /\ Executing(w)
    /\ jobMonitor[wmsg[w].job] = m
    /\ ~ Active(wmsg[w].job)

JobsOfMonitors == [m \in Monitors |-> JobOf(m)]
Trailing       == {m \in Monitors : \E w \in Workers : TrailsIn(w, m)}

Slots == INSTANCE MonitorSlots WITH job <- JobsOfMonitors, trailing <- Trailing

(* What ScheduleScan takes jobs for: one that has been sent keeps a message *)
(* until it is over, through retries, cancellations and worker crashes      *)
(* (send_task, self.retry, task_acks_late), and a worker is in a job that   *)
(* is over only if the job was taken from it.                               *)
SlotsHold == Slots!Spec

(* A worker that writes a final status, and moves the schedule on with it,  *)
(* does so for a job it was sent or one that is over already                *)
(* (_mark_job_final, mark_job_failed, mark_job_cancelled).                  *)
Settles(w) == wpc[w] \in {"finishing", "failing", "cancelling"} /\ wpc'[w] = "ack"

SettlesOwnSlot ==
    [][\A w \in Workers : Settles(w) => Slots!Settle(jobMonitor[wmsg[w].job])]_vars

(* A job reported as cancelled to the user remains cancelled.               *)
CancelledStaysCancelled ==
    [][\A j \in Jobs : jobStatus[j] = "cancelled" => jobStatus'[j] = "cancelled"]_vars
==============================================================================
