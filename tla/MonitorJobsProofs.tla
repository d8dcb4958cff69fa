-------------------------- MODULE MonitorJobsProofs --------------------------
(***************************************************************************)
(* Proofs about MonitorJobs, for any number of monitors, jobs, requests,   *)
(* workers, retries and faults; then what holds until the first fault, and *)
(* what holds with one worker.                                             *)
(***************************************************************************)
EXTENDS MonitorJobs, TLAPS

(* What a request or a worker holds at each of its steps.                   *)
Hands ==
    /\ \A c \in Clients : cpc[c] = "insert" => cmon[c] \in Monitors
    /\ \A c \in Clients : cpc[c] \notin {"idle", "insert"} => cjob[c] \in Jobs
    /\ \A w \in Workers : wpc[w] # "idle" => wmsg[w] \in Messages
    /\ \A w \in Workers :
          wpc[w] \in {"retry", "republish"} => wmsg[w].retries < MaxRetries

TypeInv == TypeOK /\ Hands

LEMMA TypeInvariant == SafetySpec => []TypeInv
<1>1. Init => TypeInv
  BY ConstantsAssumption
  DEF Init, TypeInv, TypeOK, Hands, JobStatus, RunStatus, ClientSteps, WorkerSteps
<1>2. TypeInv /\ [Next]_vars => TypeInv'
  <2> SUFFICES ASSUME TypeInv, [Next]_vars PROVE TypeInv'
    OBVIOUS
  <2> USE ConstantsAssumption
      DEF TypeInv, TypeOK, Hands, JobStatus, RunStatus, ClientSteps, WorkerSteps, FinalStatus, DoneRun,
          Messages,
          dbVars, brokerVars, clientVars, workerVars
  <2>1. ASSUME NEW c \in Clients, NEW m \in Monitors,
                CheckNoActiveJob(c, m)
         PROVE  TypeInv'
    BY <2>1 DEF CheckNoActiveJob
  <2>2. ASSUME NEW c \in Clients, NEW j \in Jobs,
                InsertJob(c, j)
         PROVE  TypeInv'
    BY <2>2 DEF InsertJob
  <2>3. ASSUME NEW c \in Clients,
                InsertConflict(c)
         PROVE  TypeInv'
    BY <2>3 DEF InsertConflict, EndRequest
  <2>4. ASSUME NEW c \in Clients,
                SendTask(c)
         PROVE  TypeInv'
    BY <2>4 DEF SendTask, EndRequest, Publish
  <2>5. ASSUME NEW c \in Clients,
                SendRaises(c)
         PROVE  TypeInv'
    BY <2>5 DEF SendRaises, Publish, Fault
  <2>6. ASSUME NEW c \in Clients,
                MarkEnqueueFailed(c)
         PROVE  TypeInv'
    BY <2>6 DEF MarkEnqueueFailed, EndRequest, Fault
  <2>7. ASSUME NEW c \in Clients, NEW j \in Jobs,
                CancelReadJob(c, j)
         PROVE  TypeInv'
    BY <2>7 DEF CancelReadJob
  <2>8. ASSUME NEW c \in Clients,
                CancelReadRun(c)
         PROVE  TypeInv'
    BY <2>8 DEF CancelReadRun
  <2>9. ASSUME NEW c \in Clients,
                CancelCommit(c)
         PROVE  TypeInv'
    BY <2>9 DEF CancelCommit
  <2>10. ASSUME NEW c \in Clients,
                Revoke(c)
         PROVE  TypeInv'
    BY <2>10 DEF Revoke, EndRequest
  <2>11. ASSUME NEW c \in Clients,
                ApiCrash(c)
         PROVE  TypeInv'
    BY <2>11 DEF ApiCrash, EndRequest, Fault
  <2>12. ASSUME NEW w \in Workers, NEW m \in queue,
                Receive(w, m)
         PROVE  TypeInv'
    BY <2>12 DEF Receive
  <2>13. ASSUME NEW w \in Workers, NEW m \in queue,
                DropRevoked(w, m)
         PROVE  TypeInv'
    BY <2>13 DEF DropRevoked
  <2>14. ASSUME NEW w \in Workers,
                StartWorkflow(w)
         PROVE  TypeInv'
    BY <2>14 DEF StartWorkflow, WorkerGoto, Settled
  <2>15. ASSUME NEW w \in Workers,
                CheckCancelled(w)
         PROVE  TypeInv'
    BY <2>15 DEF CheckCancelled, WorkerGoto
  <2>16. ASSUME NEW w \in Workers, NEW outcome \in DoneRun,
                Finish(w, outcome)
         PROVE  TypeInv'
    BY <2>16 DEF Finish, WorkerGoto
  <2>17. ASSUME NEW w \in Workers,
                TransientError(w)
         PROVE  TypeInv'
    BY <2>17 DEF TransientError, WorkerGoto
  <2>18. ASSUME NEW w \in Workers,
                WorkflowError(w)
         PROVE  TypeInv'
    BY <2>18 DEF WorkflowError, WorkerGoto, Fault
  <2>19. ASSUME NEW w \in Workers,
                MarkRetryPending(w)
         PROVE  TypeInv'
    BY <2>19 DEF MarkRetryPending, WorkerGoto, Fault
  <2>20. ASSUME NEW w \in Workers,
                Republish(w)
         PROVE  TypeInv'
    BY <2>20 DEF Republish, WorkerGoto, Fault, Publish
  <2>21. ASSUME NEW w \in Workers,
                MarkFailed(w)
         PROVE  TypeInv'
    BY <2>21 DEF MarkFailed, MarkEnded, WorkerGoto, Fault
  <2>22. ASSUME NEW w \in Workers,
                MarkCancelled(w)
         PROVE  TypeInv'
    BY <2>22 DEF MarkCancelled, MarkEnded, WorkerGoto, Fault
  <2>23. ASSUME NEW w \in Workers,
                Ack(w)
         PROVE  TypeInv'
    BY <2>23 DEF Ack, LetGo
  <2>24. ASSUME NEW w \in Workers,
                WorkerCrash(w)
         PROVE  TypeInv'
    BY <2>24 DEF WorkerCrash, LetGo, Fault
  <2>25. ASSUME NEW m \in unacked,
                Restore(m)
         PROVE  TypeInv'
    BY <2>25 DEF Restore
  <2>26. ASSUME NEW m \in unacked,
                Redeliver(m)
         PROVE  TypeInv'
    BY <2>26 DEF Redeliver, Fault
  <2>27. CASE UNCHANGED vars
    BY <2>27 DEF vars
  <2> HIDE DEF TypeInv, TypeOK, Hands, JobStatus, RunStatus, ClientSteps, WorkerSteps,
           FinalStatus, DoneRun, Messages, dbVars, brokerVars, clientVars,
           workerVars
  <2> QED
    BY <2>1, <2>2, <2>3, <2>4, <2>5, <2>6, <2>7, <2>8, <2>9, <2>10,
       <2>11, <2>12, <2>13, <2>14, <2>15, <2>16, <2>17, <2>18, <2>19,
       <2>20, <2>21, <2>22, <2>23, <2>24, <2>25, <2>26, <2>27
       DEF Next, NewRequest, RequestStep, WorkerStep
<1> QED
  BY <1>1, <1>2, PTL DEF SafetySpec

(* Every variable keeps the values its column, message or step can take.    *)
THEOREM TypeCorrect == SafetySpec => []TypeOK
  BY TypeInvariant, PTL DEF TypeInv

(* A row of a job exists before anything refers to the job.                 *)
Known ==
    /\ \A j \in Jobs : jobStatus[j] = "none" <=> jobMonitor[j] = NoMonitor
    /\ \A m \in queue \cup unacked : jobStatus[m.job] # "none"
    /\ \A w \in Workers : wpc[w] # "idle" => jobStatus[wmsg[w].job] # "none"
    /\ \A c \in Clients :
          cpc[c] \notin {"idle", "insert"} => jobStatus[cjob[c]] # "none"

LEMMA KnownInvariant == SafetySpec => []Known
<1>1. Init => Known
  BY DEF Init, Known
<1>2. TypeInv /\ Known /\ [Next]_vars => Known'
  <2> SUFFICES ASSUME TypeInv, Known, [Next]_vars PROVE Known'
    OBVIOUS
  <2> USE ConstantsAssumption
      DEF TypeInv, TypeOK, Hands, Known, JobStatus, RunStatus, ClientSteps, WorkerSteps, FinalStatus, DoneRun,
          Messages,
          dbVars, brokerVars, clientVars, workerVars
  <2>1. ASSUME NEW c \in Clients, NEW m \in Monitors,
                CheckNoActiveJob(c, m)
         PROVE  Known'
    BY <2>1 DEF CheckNoActiveJob
  <2>2. ASSUME NEW c \in Clients, NEW j \in Jobs,
                InsertJob(c, j)
         PROVE  Known'
    BY <2>2 DEF InsertJob
  <2>3. ASSUME NEW c \in Clients,
                InsertConflict(c)
         PROVE  Known'
    BY <2>3 DEF InsertConflict, EndRequest
  <2>4. ASSUME NEW c \in Clients,
                SendTask(c)
         PROVE  Known'
    BY <2>4 DEF SendTask, EndRequest, Publish
  <2>5. ASSUME NEW c \in Clients,
                SendRaises(c)
         PROVE  Known'
    BY <2>5 DEF SendRaises, Publish, Fault
  <2>6. ASSUME NEW c \in Clients,
                MarkEnqueueFailed(c)
         PROVE  Known'
    BY <2>6 DEF MarkEnqueueFailed, EndRequest, Fault
  <2>7. ASSUME NEW c \in Clients, NEW j \in Jobs,
                CancelReadJob(c, j)
         PROVE  Known'
    BY <2>7 DEF CancelReadJob
  <2>8. ASSUME NEW c \in Clients,
                CancelReadRun(c)
         PROVE  Known'
    BY <2>8 DEF CancelReadRun
  <2>9. ASSUME NEW c \in Clients,
                CancelCommit(c)
         PROVE  Known'
    BY <2>9 DEF CancelCommit
  <2>10. ASSUME NEW c \in Clients,
                Revoke(c)
         PROVE  Known'
    BY <2>10 DEF Revoke, EndRequest
  <2>11. ASSUME NEW c \in Clients,
                ApiCrash(c)
         PROVE  Known'
    BY <2>11 DEF ApiCrash, EndRequest, Fault
  <2>12. ASSUME NEW w \in Workers, NEW m \in queue,
                Receive(w, m)
         PROVE  Known'
    BY <2>12 DEF Receive
  <2>13. ASSUME NEW w \in Workers, NEW m \in queue,
                DropRevoked(w, m)
         PROVE  Known'
    BY <2>13 DEF DropRevoked
  <2>14. ASSUME NEW w \in Workers,
                StartWorkflow(w)
         PROVE  Known'
    BY <2>14 DEF StartWorkflow, WorkerGoto, Settled
  <2>15. ASSUME NEW w \in Workers,
                CheckCancelled(w)
         PROVE  Known'
    BY <2>15 DEF CheckCancelled, WorkerGoto
  <2>16. ASSUME NEW w \in Workers, NEW outcome \in DoneRun,
                Finish(w, outcome)
         PROVE  Known'
    BY <2>16 DEF Finish, WorkerGoto
  <2>17. ASSUME NEW w \in Workers,
                TransientError(w)
         PROVE  Known'
    BY <2>17 DEF TransientError, WorkerGoto
  <2>18. ASSUME NEW w \in Workers,
                WorkflowError(w)
         PROVE  Known'
    BY <2>18 DEF WorkflowError, WorkerGoto, Fault
  <2>19. ASSUME NEW w \in Workers,
                MarkRetryPending(w)
         PROVE  Known'
    BY <2>19 DEF MarkRetryPending, WorkerGoto, Fault
  <2>20. ASSUME NEW w \in Workers,
                Republish(w)
         PROVE  Known'
    BY <2>20 DEF Republish, WorkerGoto, Fault, Publish
  <2>21. ASSUME NEW w \in Workers,
                MarkFailed(w)
         PROVE  Known'
    BY <2>21 DEF MarkFailed, MarkEnded, WorkerGoto, Fault
  <2>22. ASSUME NEW w \in Workers,
                MarkCancelled(w)
         PROVE  Known'
    BY <2>22 DEF MarkCancelled, MarkEnded, WorkerGoto, Fault
  <2>23. ASSUME NEW w \in Workers,
                Ack(w)
         PROVE  Known'
    BY <2>23 DEF Ack, LetGo
  <2>24. ASSUME NEW w \in Workers,
                WorkerCrash(w)
         PROVE  Known'
    BY <2>24 DEF WorkerCrash, LetGo, Fault
  <2>25. ASSUME NEW m \in unacked,
                Restore(m)
         PROVE  Known'
    BY <2>25 DEF Restore
  <2>26. ASSUME NEW m \in unacked,
                Redeliver(m)
         PROVE  Known'
    BY <2>26 DEF Redeliver, Fault
  <2>27. CASE UNCHANGED vars
    BY <2>27 DEF vars
  <2> HIDE DEF TypeInv, TypeOK, Hands, JobStatus, RunStatus, ClientSteps, WorkerSteps,
           FinalStatus, DoneRun, Messages, dbVars, brokerVars, clientVars,
           workerVars, Known
  <2> QED
    BY <2>1, <2>2, <2>3, <2>4, <2>5, <2>6, <2>7, <2>8, <2>9, <2>10,
       <2>11, <2>12, <2>13, <2>14, <2>15, <2>16, <2>17, <2>18, <2>19,
       <2>20, <2>21, <2>22, <2>23, <2>24, <2>25, <2>26, <2>27
       DEF Next, NewRequest, RequestStep, WorkerStep
<1> QED
  BY <1>1, <1>2, TypeInvariant, PTL DEF SafetySpec

(* The unique index: whatever crashes, is lost or is delivered twice, no    *)
(* monitor ever has two active jobs.                                        *)
THEOREM OneActiveJobAlways == SafetySpec => []OneActiveJob
<1>1. Init => OneActiveJob
  BY DEF Init, OneActiveJob, Active
<1>2. TypeInv /\ Known /\ OneActiveJob /\ [Next]_vars => OneActiveJob'
  <2> SUFFICES ASSUME TypeInv, Known, OneActiveJob, [Next]_vars PROVE OneActiveJob'
    OBVIOUS
  <2> USE ConstantsAssumption
      DEF TypeInv, TypeOK, Hands, Known, OneActiveJob, Active, IndexAllows,
          JobStatus, RunStatus, ClientSteps, WorkerSteps, FinalStatus, DoneRun,
          Messages,
          dbVars, brokerVars, clientVars, workerVars
  <2>1. ASSUME NEW c \in Clients, NEW m \in Monitors,
                CheckNoActiveJob(c, m)
         PROVE  OneActiveJob'
    BY <2>1 DEF CheckNoActiveJob
  <2>2. ASSUME NEW c \in Clients, NEW j \in Jobs,
                InsertJob(c, j)
         PROVE  OneActiveJob'
    BY <2>2 DEF InsertJob
  <2>3. ASSUME NEW c \in Clients,
                InsertConflict(c)
         PROVE  OneActiveJob'
    BY <2>3 DEF InsertConflict, EndRequest
  <2>4. ASSUME NEW c \in Clients,
                SendTask(c)
         PROVE  OneActiveJob'
    BY <2>4 DEF SendTask, EndRequest, Publish
  <2>5. ASSUME NEW c \in Clients,
                SendRaises(c)
         PROVE  OneActiveJob'
    BY <2>5 DEF SendRaises, Publish, Fault
  <2>6. ASSUME NEW c \in Clients,
                MarkEnqueueFailed(c)
         PROVE  OneActiveJob'
    BY <2>6 DEF MarkEnqueueFailed, EndRequest, Fault
  <2>7. ASSUME NEW c \in Clients, NEW j \in Jobs,
                CancelReadJob(c, j)
         PROVE  OneActiveJob'
    BY <2>7 DEF CancelReadJob
  <2>8. ASSUME NEW c \in Clients,
                CancelReadRun(c)
         PROVE  OneActiveJob'
    BY <2>8 DEF CancelReadRun
  <2>9. ASSUME NEW c \in Clients,
                CancelCommit(c)
         PROVE  OneActiveJob'
    BY <2>9 DEF CancelCommit
  <2>10. ASSUME NEW c \in Clients,
                Revoke(c)
         PROVE  OneActiveJob'
    BY <2>10 DEF Revoke, EndRequest
  <2>11. ASSUME NEW c \in Clients,
                ApiCrash(c)
         PROVE  OneActiveJob'
    BY <2>11 DEF ApiCrash, EndRequest, Fault
  <2>12. ASSUME NEW w \in Workers, NEW m \in queue,
                Receive(w, m)
         PROVE  OneActiveJob'
    BY <2>12 DEF Receive
  <2>13. ASSUME NEW w \in Workers, NEW m \in queue,
                DropRevoked(w, m)
         PROVE  OneActiveJob'
    BY <2>13 DEF DropRevoked
  <2>14. ASSUME NEW w \in Workers,
                StartWorkflow(w)
         PROVE  OneActiveJob'
    BY <2>14 DEF StartWorkflow, WorkerGoto, Settled
  <2>15. ASSUME NEW w \in Workers,
                CheckCancelled(w)
         PROVE  OneActiveJob'
    BY <2>15 DEF CheckCancelled, WorkerGoto
  <2>16. ASSUME NEW w \in Workers, NEW outcome \in DoneRun,
                Finish(w, outcome)
         PROVE  OneActiveJob'
    BY <2>16 DEF Finish, WorkerGoto
  <2>17. ASSUME NEW w \in Workers,
                TransientError(w)
         PROVE  OneActiveJob'
    BY <2>17 DEF TransientError, WorkerGoto
  <2>18. ASSUME NEW w \in Workers,
                WorkflowError(w)
         PROVE  OneActiveJob'
    BY <2>18 DEF WorkflowError, WorkerGoto, Fault
  <2>19. ASSUME NEW w \in Workers,
                MarkRetryPending(w)
         PROVE  OneActiveJob'
    BY <2>19 DEF MarkRetryPending, WorkerGoto, Fault
  <2>20. ASSUME NEW w \in Workers,
                Republish(w)
         PROVE  OneActiveJob'
    BY <2>20 DEF Republish, WorkerGoto, Fault, Publish
  <2>21. ASSUME NEW w \in Workers,
                MarkFailed(w)
         PROVE  OneActiveJob'
    BY <2>21 DEF MarkFailed, MarkEnded, WorkerGoto, Fault
  <2>22. ASSUME NEW w \in Workers,
                MarkCancelled(w)
         PROVE  OneActiveJob'
    BY <2>22 DEF MarkCancelled, MarkEnded, WorkerGoto, Fault
  <2>23. ASSUME NEW w \in Workers,
                Ack(w)
         PROVE  OneActiveJob'
    BY <2>23 DEF Ack, LetGo
  <2>24. ASSUME NEW w \in Workers,
                WorkerCrash(w)
         PROVE  OneActiveJob'
    BY <2>24 DEF WorkerCrash, LetGo, Fault
  <2>25. ASSUME NEW m \in unacked,
                Restore(m)
         PROVE  OneActiveJob'
    BY <2>25 DEF Restore
  <2>26. ASSUME NEW m \in unacked,
                Redeliver(m)
         PROVE  OneActiveJob'
    BY <2>26 DEF Redeliver, Fault
  <2>27. CASE UNCHANGED vars
    BY <2>27 DEF vars
  <2> HIDE DEF TypeInv, TypeOK, Hands, JobStatus, RunStatus, ClientSteps, WorkerSteps,
           FinalStatus, DoneRun, Messages, dbVars, brokerVars, clientVars,
           workerVars,
           Known, OneActiveJob, Active, IndexAllows
  <2> QED
    BY <2>1, <2>2, <2>3, <2>4, <2>5, <2>6, <2>7, <2>8, <2>9, <2>10,
       <2>11, <2>12, <2>13, <2>14, <2>15, <2>16, <2>17, <2>18, <2>19,
       <2>20, <2>21, <2>22, <2>23, <2>24, <2>25, <2>26, <2>27
       DEF Next, NewRequest, RequestStep, WorkerStep
<1> QED
  BY <1>1, <1>2, TypeInvariant, KnownInvariant, PTL DEF SafetySpec

(* A cancellation that meets no executing worker is final, whatever         *)
(* messages of the job are still in the broker.                             *)
THEOREM CancelBeforePickup == SafetySpec => CancelledBeforePickupStays
<1>1. ASSUME TypeInv, [Next]_vars, NEW j \in Jobs,
             jobStatus[j] = "cancelled", ~ RequestFor(j),
             \A w \in Workers : Executing(w) => wmsg[w].job # j
      PROVE  jobStatus'[j] = "cancelled"
  <2> USE <1>1 DEF TypeInv, TypeOK, Hands, RequestFor, Executing, JobStatus, RunStatus, ClientSteps, WorkerSteps, FinalStatus, DoneRun,
          Messages,
          dbVars, brokerVars, clientVars, workerVars
  <2>1. ASSUME NEW c \in Clients, NEW m \in Monitors,
                CheckNoActiveJob(c, m)
         PROVE  jobStatus'[j] = "cancelled"
    BY <2>1 DEF CheckNoActiveJob
  <2>2. ASSUME NEW c \in Clients, NEW k \in Jobs,
                InsertJob(c, k)
         PROVE  jobStatus'[j] = "cancelled"
    BY <2>2 DEF InsertJob
  <2>3. ASSUME NEW c \in Clients,
                InsertConflict(c)
         PROVE  jobStatus'[j] = "cancelled"
    BY <2>3 DEF InsertConflict, EndRequest
  <2>4. ASSUME NEW c \in Clients,
                SendTask(c)
         PROVE  jobStatus'[j] = "cancelled"
    BY <2>4 DEF SendTask, EndRequest, Publish
  <2>5. ASSUME NEW c \in Clients,
                SendRaises(c)
         PROVE  jobStatus'[j] = "cancelled"
    BY <2>5 DEF SendRaises, Publish, Fault
  <2>6. ASSUME NEW c \in Clients,
                MarkEnqueueFailed(c)
         PROVE  jobStatus'[j] = "cancelled"
    BY <2>6 DEF MarkEnqueueFailed, EndRequest, Fault
  <2>7. ASSUME NEW c \in Clients, NEW k \in Jobs,
                CancelReadJob(c, k)
         PROVE  jobStatus'[j] = "cancelled"
    BY <2>7 DEF CancelReadJob
  <2>8. ASSUME NEW c \in Clients,
                CancelReadRun(c)
         PROVE  jobStatus'[j] = "cancelled"
    BY <2>8 DEF CancelReadRun
  <2>9. ASSUME NEW c \in Clients,
                CancelCommit(c)
         PROVE  jobStatus'[j] = "cancelled"
    BY <2>9 DEF CancelCommit
  <2>10. ASSUME NEW c \in Clients,
                Revoke(c)
         PROVE  jobStatus'[j] = "cancelled"
    BY <2>10 DEF Revoke, EndRequest
  <2>11. ASSUME NEW c \in Clients,
                ApiCrash(c)
         PROVE  jobStatus'[j] = "cancelled"
    BY <2>11 DEF ApiCrash, EndRequest, Fault
  <2>12. ASSUME NEW w \in Workers, NEW m \in queue,
                Receive(w, m)
         PROVE  jobStatus'[j] = "cancelled"
    BY <2>12 DEF Receive
  <2>13. ASSUME NEW w \in Workers, NEW m \in queue,
                DropRevoked(w, m)
         PROVE  jobStatus'[j] = "cancelled"
    BY <2>13 DEF DropRevoked
  <2>14. ASSUME NEW w \in Workers,
                StartWorkflow(w)
         PROVE  jobStatus'[j] = "cancelled"
    BY <2>14 DEF StartWorkflow, WorkerGoto, Settled
  <2>15. ASSUME NEW w \in Workers,
                CheckCancelled(w)
         PROVE  jobStatus'[j] = "cancelled"
    BY <2>15 DEF CheckCancelled, WorkerGoto
  <2>16. ASSUME NEW w \in Workers, NEW outcome \in DoneRun,
                Finish(w, outcome)
         PROVE  jobStatus'[j] = "cancelled"
    BY <2>16 DEF Finish, WorkerGoto
  <2>17. ASSUME NEW w \in Workers,
                TransientError(w)
         PROVE  jobStatus'[j] = "cancelled"
    BY <2>17 DEF TransientError, WorkerGoto
  <2>18. ASSUME NEW w \in Workers,
                WorkflowError(w)
         PROVE  jobStatus'[j] = "cancelled"
    BY <2>18 DEF WorkflowError, WorkerGoto, Fault
  <2>19. ASSUME NEW w \in Workers,
                MarkRetryPending(w)
         PROVE  jobStatus'[j] = "cancelled"
    BY <2>19 DEF MarkRetryPending, WorkerGoto, Fault
  <2>20. ASSUME NEW w \in Workers,
                Republish(w)
         PROVE  jobStatus'[j] = "cancelled"
    BY <2>20 DEF Republish, WorkerGoto, Fault, Publish
  <2>21. ASSUME NEW w \in Workers,
                MarkFailed(w)
         PROVE  jobStatus'[j] = "cancelled"
    BY <2>21 DEF MarkFailed, MarkEnded, WorkerGoto, Fault
  <2>22. ASSUME NEW w \in Workers,
                MarkCancelled(w)
         PROVE  jobStatus'[j] = "cancelled"
    BY <2>22 DEF MarkCancelled, MarkEnded, WorkerGoto, Fault
  <2>23. ASSUME NEW w \in Workers,
                Ack(w)
         PROVE  jobStatus'[j] = "cancelled"
    BY <2>23 DEF Ack, LetGo
  <2>24. ASSUME NEW w \in Workers,
                WorkerCrash(w)
         PROVE  jobStatus'[j] = "cancelled"
    BY <2>24 DEF WorkerCrash, LetGo, Fault
  <2>25. ASSUME NEW m \in unacked,
                Restore(m)
         PROVE  jobStatus'[j] = "cancelled"
    BY <2>25 DEF Restore
  <2>26. ASSUME NEW m \in unacked,
                Redeliver(m)
         PROVE  jobStatus'[j] = "cancelled"
    BY <2>26 DEF Redeliver, Fault
  <2>27. CASE UNCHANGED vars
    BY <2>27 DEF vars
  <2> HIDE DEF TypeInv, TypeOK, Hands, JobStatus, RunStatus, ClientSteps, WorkerSteps,
           FinalStatus, DoneRun, Messages, dbVars, brokerVars, clientVars,
           workerVars,
           RequestFor, Executing
  <2> QED
    BY <2>1, <2>2, <2>3, <2>4, <2>5, <2>6, <2>7, <2>8, <2>9, <2>10,
       <2>11, <2>12, <2>13, <2>14, <2>15, <2>16, <2>17, <2>18, <2>19,
       <2>20, <2>21, <2>22, <2>23, <2>24, <2>25, <2>26, <2>27
       DEF Next, NewRequest, RequestStep, WorkerStep
<1>2. TypeInv /\ [Next]_vars =>
        [\A j \in Jobs :
           (jobStatus[j] = "cancelled"
              /\ ~ RequestFor(j)
              /\ \A w \in Workers : Executing(w) => wmsg[w].job # j)
           => jobStatus'[j] = "cancelled"]_vars
  BY <1>1
<1> QED
  BY <1>2, TypeInvariant, PTL DEF SafetySpec, CancelledBeforePickupStays

(* Without duplicated deliveries and ambiguous sends a job has one carrier: *)
(* the request that will send it, a waiting message, or a worker that still *)
(* has work to do for it.  A worker at "ack" has handed the job over.       *)
DuplicatingFaults == {"send_ambiguous", "worker_crash", "redeliver"}

Carries(w) == wpc[w] \notin {"idle", "ack"}

Sending(c) == cpc[c] \in {"send", "failing"}

OneCarrier ==
    /\ \A m, n \in queue : m.job = n.job => m = n
    /\ \A m \in queue : \A w \in Workers : Carries(w) => wmsg[w].job # m.job
    /\ \A v, w \in Workers :
          (v # w /\ Carries(v) /\ Carries(w)) => wmsg[v].job # wmsg[w].job
    /\ \A c \in Clients : Sending(c) => \A m \in queue : m.job # cjob[c]
    /\ \A c \in Clients, w \in Workers :
          (Sending(c) /\ Carries(w)) => wmsg[w].job # cjob[c]
    /\ \A c, d \in Clients :
          (c # d /\ Sending(c) /\ Sending(d)) => cjob[c] # cjob[d]
    /\ \A m \in unacked : \E w \in Workers : HeldBy(w, m)

(* Nobody but its worker settles a job that runs, except by cancelling it.  *)
RunningOrCancelled ==
    \A w \in Workers :
        wpc[w] \in {"running", "retry"} =>
            jobStatus[wmsg[w].job] \in {"running", "cancelled"}

LEMMA OneCarrierInvariant ==
    ASSUME Faults \cap DuplicatingFaults = {}
    PROVE  SafetySpec => []OneCarrier
<1>1. Init => OneCarrier
  BY DEF Init, OneCarrier, Carries, Sending
<1>2. TypeInv /\ Known /\ OneCarrier /\ [Next]_vars => OneCarrier'
  <2> SUFFICES ASSUME TypeInv, Known, OneCarrier, [Next]_vars PROVE OneCarrier'
    OBVIOUS
  <2> USE ConstantsAssumption, Faults \cap DuplicatingFaults = {}
      DEF TypeInv, TypeOK, Hands, Known, OneCarrier, Carries, Sending, HeldBy,
          DuplicatingFaults,
          JobStatus, RunStatus, ClientSteps, WorkerSteps, FinalStatus, DoneRun,
          Messages,
          dbVars, brokerVars, clientVars, workerVars
  <2>1. ASSUME NEW c \in Clients, NEW m \in Monitors,
                CheckNoActiveJob(c, m)
         PROVE  OneCarrier'
    BY <2>1 DEF CheckNoActiveJob
  <2>2. ASSUME NEW c \in Clients, NEW j \in Jobs,
                InsertJob(c, j)
         PROVE  OneCarrier'
    BY <2>2 DEF InsertJob
  <2>3. ASSUME NEW c \in Clients,
                InsertConflict(c)
         PROVE  OneCarrier'
    BY <2>3 DEF InsertConflict, EndRequest
  <2>4. ASSUME NEW c \in Clients,
                SendTask(c)
         PROVE  OneCarrier'
    BY <2>4 DEF SendTask, EndRequest, Publish
  <2>5. ASSUME NEW c \in Clients,
                SendRaises(c)
         PROVE  OneCarrier'
    BY <2>5 DEF SendRaises, Publish, Fault
  <2>6. ASSUME NEW c \in Clients,
                MarkEnqueueFailed(c)
         PROVE  OneCarrier'
    BY <2>6 DEF MarkEnqueueFailed, EndRequest, Fault
  <2>7. ASSUME NEW c \in Clients, NEW j \in Jobs,
                CancelReadJob(c, j)
         PROVE  OneCarrier'
    BY <2>7 DEF CancelReadJob
  <2>8. ASSUME NEW c \in Clients,
                CancelReadRun(c)
         PROVE  OneCarrier'
    BY <2>8 DEF CancelReadRun
  <2>9. ASSUME NEW c \in Clients,
                CancelCommit(c)
         PROVE  OneCarrier'
    BY <2>9 DEF CancelCommit
  <2>10. ASSUME NEW c \in Clients,
                Revoke(c)
         PROVE  OneCarrier'
    BY <2>10 DEF Revoke, EndRequest
  <2>11. ASSUME NEW c \in Clients,
                ApiCrash(c)
         PROVE  OneCarrier'
    BY <2>11 DEF ApiCrash, EndRequest, Fault
  <2>12. ASSUME NEW w \in Workers, NEW m \in queue,
                Receive(w, m)
         PROVE  OneCarrier'
    BY <2>12 DEF Receive
  <2>13. ASSUME NEW w \in Workers, NEW m \in queue,
                DropRevoked(w, m)
         PROVE  OneCarrier'
    BY <2>13 DEF DropRevoked
  <2>14. ASSUME NEW w \in Workers,
                StartWorkflow(w)
         PROVE  OneCarrier'
    BY SMTT(20), <2>14 DEF StartWorkflow, WorkerGoto, Settled
  <2>15. ASSUME NEW w \in Workers,
                CheckCancelled(w)
         PROVE  OneCarrier'
    BY <2>15 DEF CheckCancelled, WorkerGoto
  <2>16. ASSUME NEW w \in Workers, NEW outcome \in DoneRun,
                Finish(w, outcome)
         PROVE  OneCarrier'
    BY <2>16 DEF Finish, WorkerGoto
  <2>17. ASSUME NEW w \in Workers,
                TransientError(w)
         PROVE  OneCarrier'
    BY <2>17 DEF TransientError, WorkerGoto
  <2>18. ASSUME NEW w \in Workers,
                WorkflowError(w)
         PROVE  OneCarrier'
    BY <2>18 DEF WorkflowError, WorkerGoto, Fault
  <2>19. ASSUME NEW w \in Workers,
                MarkRetryPending(w)
         PROVE  OneCarrier'
    BY <2>19 DEF MarkRetryPending, WorkerGoto, Fault
  <2>20. ASSUME NEW w \in Workers,
                Republish(w)
         PROVE  OneCarrier'
    BY <2>20 DEF Republish, WorkerGoto, Fault, Publish
  <2>21. ASSUME NEW w \in Workers,
                MarkFailed(w)
         PROVE  OneCarrier'
    BY <2>21 DEF MarkFailed, MarkEnded, WorkerGoto, Fault
  <2>22. ASSUME NEW w \in Workers,
                MarkCancelled(w)
         PROVE  OneCarrier'
    BY <2>22 DEF MarkCancelled, MarkEnded, WorkerGoto, Fault
  <2>23. ASSUME NEW w \in Workers,
                Ack(w)
         PROVE  OneCarrier'
    BY <2>23 DEF Ack, LetGo
  <2>24. ASSUME NEW w \in Workers,
                WorkerCrash(w)
         PROVE  OneCarrier'
    BY <2>24 DEF WorkerCrash, LetGo, Fault
  <2>25. ASSUME NEW m \in unacked,
                Restore(m)
         PROVE  OneCarrier'
    BY <2>25 DEF Restore
  <2>26. ASSUME NEW m \in unacked,
                Redeliver(m)
         PROVE  OneCarrier'
    BY <2>26 DEF Redeliver, Fault
  <2>27. CASE UNCHANGED vars
    BY <2>27 DEF vars
  <2> HIDE DEF TypeInv, TypeOK, Hands, JobStatus, RunStatus, ClientSteps, WorkerSteps,
           FinalStatus, DoneRun, Messages, dbVars, brokerVars, clientVars,
           workerVars,
           Known, OneCarrier, Carries, Sending, HeldBy, DuplicatingFaults
  <2> QED
    BY <2>1, <2>2, <2>3, <2>4, <2>5, <2>6, <2>7, <2>8, <2>9, <2>10,
       <2>11, <2>12, <2>13, <2>14, <2>15, <2>16, <2>17, <2>18, <2>19,
       <2>20, <2>21, <2>22, <2>23, <2>24, <2>25, <2>26, <2>27
       DEF Next, NewRequest, RequestStep, WorkerStep
<1> QED
  BY <1>1, <1>2, TypeInvariant, KnownInvariant, PTL DEF SafetySpec

LEMMA RunningOrCancelledInvariant ==
    ASSUME Faults \cap DuplicatingFaults = {}
    PROVE  SafetySpec => []RunningOrCancelled
<1>1. Init => RunningOrCancelled
  BY DEF Init, RunningOrCancelled
<1>2. TypeInv /\ Known /\ OneCarrier /\ RunningOrCancelled /\ [Next]_vars
      => RunningOrCancelled'
  <2> SUFFICES ASSUME TypeInv, Known, OneCarrier, RunningOrCancelled, [Next]_vars
               PROVE  RunningOrCancelled'
    OBVIOUS
  <2> USE ConstantsAssumption, Faults \cap DuplicatingFaults = {}
      DEF TypeInv, TypeOK, Hands, Known, OneCarrier, Carries, Sending,
          RunningOrCancelled, DuplicatingFaults,
          JobStatus, RunStatus, ClientSteps, WorkerSteps, FinalStatus, DoneRun,
          Messages,
          dbVars, brokerVars, clientVars, workerVars
  <2>1. ASSUME NEW c \in Clients, NEW m \in Monitors,
                CheckNoActiveJob(c, m)
         PROVE  RunningOrCancelled'
    BY <2>1 DEF CheckNoActiveJob
  <2>2. ASSUME NEW c \in Clients, NEW j \in Jobs,
                InsertJob(c, j)
         PROVE  RunningOrCancelled'
    BY <2>2 DEF InsertJob
  <2>3. ASSUME NEW c \in Clients,
                InsertConflict(c)
         PROVE  RunningOrCancelled'
    BY <2>3 DEF InsertConflict, EndRequest
  <2>4. ASSUME NEW c \in Clients,
                SendTask(c)
         PROVE  RunningOrCancelled'
    BY <2>4 DEF SendTask, EndRequest, Publish
  <2>5. ASSUME NEW c \in Clients,
                SendRaises(c)
         PROVE  RunningOrCancelled'
    BY <2>5 DEF SendRaises, Publish, Fault
  <2>6. ASSUME NEW c \in Clients,
                MarkEnqueueFailed(c)
         PROVE  RunningOrCancelled'
    BY <2>6 DEF MarkEnqueueFailed, EndRequest, Fault
  <2>7. ASSUME NEW c \in Clients, NEW j \in Jobs,
                CancelReadJob(c, j)
         PROVE  RunningOrCancelled'
    BY <2>7 DEF CancelReadJob
  <2>8. ASSUME NEW c \in Clients,
                CancelReadRun(c)
         PROVE  RunningOrCancelled'
    BY <2>8 DEF CancelReadRun
  <2>9. ASSUME NEW c \in Clients,
                CancelCommit(c)
         PROVE  RunningOrCancelled'
    BY <2>9 DEF CancelCommit
  <2>10. ASSUME NEW c \in Clients,
                Revoke(c)
         PROVE  RunningOrCancelled'
    BY <2>10 DEF Revoke, EndRequest
  <2>11. ASSUME NEW c \in Clients,
                ApiCrash(c)
         PROVE  RunningOrCancelled'
    BY <2>11 DEF ApiCrash, EndRequest, Fault
  <2>12. ASSUME NEW w \in Workers, NEW m \in queue,
                Receive(w, m)
         PROVE  RunningOrCancelled'
    BY <2>12 DEF Receive
  <2>13. ASSUME NEW w \in Workers, NEW m \in queue,
                DropRevoked(w, m)
         PROVE  RunningOrCancelled'
    BY <2>13 DEF DropRevoked
  <2>14. ASSUME NEW w \in Workers,
                StartWorkflow(w)
         PROVE  RunningOrCancelled'
    BY <2>14 DEF StartWorkflow, WorkerGoto, Settled
  <2>15. ASSUME NEW w \in Workers,
                CheckCancelled(w)
         PROVE  RunningOrCancelled'
    BY <2>15 DEF CheckCancelled, WorkerGoto
  <2>16. ASSUME NEW w \in Workers, NEW outcome \in DoneRun,
                Finish(w, outcome)
         PROVE  RunningOrCancelled'
    BY <2>16 DEF Finish, WorkerGoto
  <2>17. ASSUME NEW w \in Workers,
                TransientError(w)
         PROVE  RunningOrCancelled'
    BY <2>17 DEF TransientError, WorkerGoto
  <2>18. ASSUME NEW w \in Workers,
                WorkflowError(w)
         PROVE  RunningOrCancelled'
    BY <2>18 DEF WorkflowError, WorkerGoto, Fault
  <2>19. ASSUME NEW w \in Workers,
                MarkRetryPending(w)
         PROVE  RunningOrCancelled'
    BY <2>19 DEF MarkRetryPending, WorkerGoto, Fault
  <2>20. ASSUME NEW w \in Workers,
                Republish(w)
         PROVE  RunningOrCancelled'
    BY <2>20 DEF Republish, WorkerGoto, Fault, Publish
  <2>21. ASSUME NEW w \in Workers,
                MarkFailed(w)
         PROVE  RunningOrCancelled'
    BY <2>21 DEF MarkFailed, MarkEnded, WorkerGoto, Fault
  <2>22. ASSUME NEW w \in Workers,
                MarkCancelled(w)
         PROVE  RunningOrCancelled'
    BY <2>22 DEF MarkCancelled, MarkEnded, WorkerGoto, Fault
  <2>23. ASSUME NEW w \in Workers,
                Ack(w)
         PROVE  RunningOrCancelled'
    BY <2>23 DEF Ack, LetGo
  <2>24. ASSUME NEW w \in Workers,
                WorkerCrash(w)
         PROVE  RunningOrCancelled'
    BY <2>24 DEF WorkerCrash, LetGo, Fault
  <2>25. ASSUME NEW m \in unacked,
                Restore(m)
         PROVE  RunningOrCancelled'
    BY <2>25 DEF Restore
  <2>26. ASSUME NEW m \in unacked,
                Redeliver(m)
         PROVE  RunningOrCancelled'
    BY <2>26 DEF Redeliver, Fault
  <2>27. CASE UNCHANGED vars
    BY <2>27 DEF vars
  <2> HIDE DEF TypeInv, TypeOK, Hands, JobStatus, RunStatus, ClientSteps, WorkerSteps,
           FinalStatus, DoneRun, Messages, dbVars, brokerVars, clientVars,
           workerVars,
           Known, OneCarrier, Carries, Sending, RunningOrCancelled,
           DuplicatingFaults
  <2> QED
    BY <2>1, <2>2, <2>3, <2>4, <2>5, <2>6, <2>7, <2>8, <2>9, <2>10,
       <2>11, <2>12, <2>13, <2>14, <2>15, <2>16, <2>17, <2>18, <2>19,
       <2>20, <2>21, <2>22, <2>23, <2>24, <2>25, <2>26, <2>27
       DEF Next, NewRequest, RequestStep, WorkerStep
<1> QED
  BY <1>1, <1>2, TypeInvariant, KnownInvariant, OneCarrierInvariant, PTL
  DEF SafetySpec

(* A write of one status moves one phase, ...                               *)
LEMMA PhaseUpdate ==
    ASSUME TypeOK, NEW j \in Jobs, NEW s \in JobStatus,
           jobStatus' = [jobStatus EXCEPT ![j] = s]
    PROVE  [k \in Jobs |-> PhaseOf(jobStatus'[k])]
             = [[k \in Jobs |-> PhaseOf(jobStatus[k])] EXCEPT ![j] = PhaseOf(s)]
  BY DEF TypeOK

(* ... and a write of a final status settles the job or changes no phase.   *)
LEMMA SettlingStep ==
    ASSUME TypeOK, NEW j \in Jobs, NEW s \in FinalStatus,
           jobStatus[j] # "none",
           jobStatus' = [jobStatus EXCEPT ![j] = s],
           UNCHANGED jobMonitor
    PROVE  [Contract!Next]_(Contract!contractVars)
<1> DEFINE P == [k \in Jobs |-> PhaseOf(jobStatus[k])]
<1>1. P' = [P EXCEPT ![j] = "settled"]
  BY PhaseUpdate DEF JobStatus, FinalStatus, PhaseOf
<1>2. CASE Active(j)
  <2>1. Contract!Settle(j)
    BY <1>1, <1>2 DEF Active, Contract!Settle, Contract!IsActive, PhaseOf, FinalStatus
  <2> QED
    BY <2>1 DEF Contract!Next
<1>3. CASE ~ Active(j)
  <2>1. P[j] = "settled"
    BY <1>3 DEF Active, PhaseOf, TypeOK, JobStatus
  <2>2. P' = P
    BY <1>1, <2>1
  <2> QED
    BY <2>2 DEF Contract!contractVars
<1> QED
  BY <1>2, <1>3

(* Every step keeps the contract where only its worker settles a running    *)
(* job: the rest is the unique index and the look at the status at the      *)
(* start of the workflow.                                                   *)
LEMMA ContractStep ==
    TypeInv /\ Known /\ RunningOrCancelled /\ [Next]_vars
    => [Contract!Next]_(Contract!contractVars)
<1> SUFFICES ASSUME TypeInv, Known, RunningOrCancelled, [Next]_vars
             PROVE  [Contract!Next]_(Contract!contractVars)
  OBVIOUS
<1> DEFINE P == [k \in Jobs |-> PhaseOf(jobStatus[k])]
<1>0. UNCHANGED <<jobStatus, jobMonitor>> => [Contract!Next]_(Contract!contractVars)
  BY DEF Contract!contractVars
<1>1. ASSUME NEW c \in Clients, NEW m \in Monitors,
              CheckNoActiveJob(c, m)
       PROVE  [Contract!Next]_(Contract!contractVars)
  BY <1>0, <1>1 DEF CheckNoActiveJob, dbVars
<1>2. ASSUME NEW c \in Clients, NEW j \in Jobs,
              InsertJob(c, j)
       PROVE  [Contract!Next]_(Contract!contractVars)
  <2>1. cmon[c] \in Monitors
    BY <1>2 DEF InsertJob, TypeInv, Hands
  <2>2. P' = [P EXCEPT ![j] = "queued"]
    BY <1>2, PhaseUpdate DEF InsertJob, TypeInv, JobStatus, PhaseOf, FinalStatus
  <2>3. jobMonitor[j] = NoMonitor
    BY <1>2 DEF InsertJob, Known
  <2>4. \A k \in Jobs : jobMonitor[k] = cmon[c] => ~ Active(k)
    BY <1>2, <2>1, <2>3, ConstantsAssumption DEF InsertJob, IndexAllows
  <2>5. \A k \in Jobs : P[k] \in {"queued", "running"} => Active(k)
    BY DEF PhaseOf, Active
  <2>6. Contract!Submit(j, cmon[c])
    BY <1>2, <2>2, <2>4, <2>5
    DEF InsertJob, Contract!Submit, Contract!Busy, Contract!IsActive, PhaseOf
  <2> QED
    BY <2>1, <2>6 DEF Contract!Next
<1>3. ASSUME NEW c \in Clients,
              InsertConflict(c)
       PROVE  [Contract!Next]_(Contract!contractVars)
  BY <1>0, <1>3 DEF InsertConflict, EndRequest, dbVars
<1>4. ASSUME NEW c \in Clients,
              SendTask(c)
       PROVE  [Contract!Next]_(Contract!contractVars)
  BY <1>0, <1>4 DEF SendTask, EndRequest, Publish, dbVars
<1>5. ASSUME NEW c \in Clients,
              SendRaises(c)
       PROVE  [Contract!Next]_(Contract!contractVars)
  BY <1>0, <1>5 DEF SendRaises, Publish, Fault, dbVars
<1>6. ASSUME NEW c \in Clients,
              MarkEnqueueFailed(c)
       PROVE  [Contract!Next]_(Contract!contractVars)
  <2>1. cjob[c] \in Jobs /\ jobStatus[cjob[c]] # "none"
    BY <1>6 DEF MarkEnqueueFailed, TypeInv, Hands, Known
  <2>2. \/ jobStatus' = [jobStatus EXCEPT ![cjob[c]] = "failed"]
        \/ UNCHANGED jobStatus
    BY <1>6 DEF MarkEnqueueFailed
  <2>3. UNCHANGED jobMonitor
    BY <1>6 DEF MarkEnqueueFailed
  <2> QED
    BY <1>0, <2>1, <2>2, <2>3, SettlingStep DEF TypeInv, FinalStatus
<1>7. ASSUME NEW c \in Clients, NEW j \in Jobs,
              CancelReadJob(c, j)
       PROVE  [Contract!Next]_(Contract!contractVars)
  BY <1>0, <1>7 DEF CancelReadJob, dbVars
<1>8. ASSUME NEW c \in Clients,
              CancelReadRun(c)
       PROVE  [Contract!Next]_(Contract!contractVars)
  BY <1>0, <1>8 DEF CancelReadRun, dbVars
<1>9. ASSUME NEW c \in Clients,
              CancelCommit(c)
       PROVE  [Contract!Next]_(Contract!contractVars)
  <2>1. cjob[c] \in Jobs /\ jobStatus[cjob[c]] # "none"
    BY <1>9 DEF CancelCommit, TypeInv, Hands, Known
  <2>2. \/ jobStatus' = [jobStatus EXCEPT ![cjob[c]] = "cancelled"]
        \/ UNCHANGED jobStatus
    BY <1>9 DEF CancelCommit
  <2>3. UNCHANGED jobMonitor
    BY <1>9 DEF CancelCommit
  <2> QED
    BY <1>0, <2>1, <2>2, <2>3, SettlingStep DEF TypeInv, FinalStatus
<1>10. ASSUME NEW c \in Clients,
              Revoke(c)
       PROVE  [Contract!Next]_(Contract!contractVars)
  BY <1>0, <1>10 DEF Revoke, EndRequest, dbVars
<1>11. ASSUME NEW c \in Clients,
              ApiCrash(c)
       PROVE  [Contract!Next]_(Contract!contractVars)
  BY <1>0, <1>11 DEF ApiCrash, EndRequest, Fault, dbVars
<1>12. ASSUME NEW w \in Workers, NEW m \in queue,
              Receive(w, m)
       PROVE  [Contract!Next]_(Contract!contractVars)
  BY <1>0, <1>12 DEF Receive, dbVars
<1>13. ASSUME NEW w \in Workers, NEW m \in queue,
              DropRevoked(w, m)
       PROVE  [Contract!Next]_(Contract!contractVars)
  BY <1>0, <1>13 DEF DropRevoked, dbVars
<1>14. ASSUME NEW w \in Workers,
              StartWorkflow(w)
       PROVE  [Contract!Next]_(Contract!contractVars)
  <2> DEFINE j == wmsg[w].job
  <2>1. j \in Jobs /\ jobStatus[j] # "none"
    BY <1>14 DEF StartWorkflow, TypeInv, Hands, Known, Messages
  <2>2. CASE UNCHANGED dbVars
    BY <1>0, <2>2 DEF dbVars
  <2>3. CASE ~ Settled(j) /\ jobStatus' = [jobStatus EXCEPT ![j] = "running"]
                          /\ UNCHANGED jobMonitor
    <3>1. P' = [P EXCEPT ![j] = "running"]
      BY <2>1, <2>3, PhaseUpdate DEF TypeInv, JobStatus, PhaseOf, FinalStatus
    <3>2. P[j] \in {"queued", "running"}
      BY <2>1, <2>3 DEF TypeInv, TypeOK, JobStatus, Settled, PhaseOf
    <3>3. CASE P[j] = "queued"
      BY <2>1, <2>3, <3>1, <3>3 DEF Contract!Begin, Contract!Next
    <3>4. CASE P[j] = "running"
      BY <2>1, <2>3, <3>1, <3>4 DEF Contract!contractVars
    <3> QED
      BY <3>2, <3>3, <3>4
  <2> QED
    BY <1>14, <2>2, <2>3 DEF StartWorkflow
<1>15. ASSUME NEW w \in Workers,
              CheckCancelled(w)
       PROVE  [Contract!Next]_(Contract!contractVars)
  BY <1>0, <1>15 DEF CheckCancelled, WorkerGoto, dbVars
<1>16. ASSUME NEW w \in Workers, NEW outcome \in DoneRun,
              Finish(w, outcome)
       PROVE  [Contract!Next]_(Contract!contractVars)
  <2>1. wmsg[w].job \in Jobs /\ jobStatus[wmsg[w].job] # "none"
    BY <1>16 DEF Finish, TypeInv, Hands, Known, Messages
  <2>2. \/ jobStatus' = [jobStatus EXCEPT ![wmsg[w].job] = "succeeded"]
        \/ UNCHANGED jobStatus
    BY <1>16 DEF Finish
  <2>3. UNCHANGED jobMonitor
    BY <1>16 DEF Finish
  <2> QED
    BY <1>0, <2>1, <2>2, <2>3, SettlingStep DEF TypeInv, FinalStatus
<1>17. ASSUME NEW w \in Workers,
              TransientError(w)
       PROVE  [Contract!Next]_(Contract!contractVars)
  BY <1>0, <1>17 DEF TransientError, WorkerGoto, dbVars
<1>18. ASSUME NEW w \in Workers,
              WorkflowError(w)
       PROVE  [Contract!Next]_(Contract!contractVars)
  BY <1>0, <1>18 DEF WorkflowError, WorkerGoto, Fault, dbVars
<1>19. ASSUME NEW w \in Workers,
              MarkRetryPending(w)
       PROVE  [Contract!Next]_(Contract!contractVars)
  <2> DEFINE j == wmsg[w].job
  <2>1. j \in Jobs
    BY <1>19 DEF MarkRetryPending, TypeInv, Hands, Messages
  <2>2. UNCHANGED jobMonitor
    BY <1>19 DEF MarkRetryPending
  <2>3. CASE UNCHANGED jobStatus
    BY <1>0, <2>2, <2>3
  <2>4. CASE /\ jobStatus[j] # "cancelled"
             /\ jobStatus' = [jobStatus EXCEPT ![j] = "queued"]
    <3>1. jobStatus[j] = "running"
      BY <1>19, <2>4 DEF MarkRetryPending, RunningOrCancelled
    <3>2. P' = [P EXCEPT ![j] = "queued"]
      BY <2>1, <2>4, PhaseUpdate DEF TypeInv, JobStatus, PhaseOf, FinalStatus
    <3>3. Contract!Postpone(j)
      BY <2>1, <2>2, <3>1, <3>2 DEF Contract!Postpone, PhaseOf, FinalStatus
    <3> QED
      BY <2>1, <3>3 DEF Contract!Next
  <2> QED
    BY <1>19, <2>3, <2>4 DEF MarkRetryPending
<1>20. ASSUME NEW w \in Workers,
              Republish(w)
       PROVE  [Contract!Next]_(Contract!contractVars)
  BY <1>0, <1>20 DEF Republish, WorkerGoto, Fault, Publish, dbVars
<1>21. ASSUME NEW w \in Workers,
              MarkFailed(w)
       PROVE  [Contract!Next]_(Contract!contractVars)
  <2>1. wmsg[w].job \in Jobs /\ jobStatus[wmsg[w].job] # "none"
    BY <1>21 DEF MarkFailed, MarkEnded, TypeInv, Hands, Known, Messages
  <2>2. \/ jobStatus' = [jobStatus EXCEPT ![wmsg[w].job] = "failed"]
        \/ UNCHANGED jobStatus
    BY <1>21 DEF MarkFailed, MarkEnded
  <2>3. UNCHANGED jobMonitor
    BY <1>21 DEF MarkFailed, MarkEnded
  <2> QED
    BY <1>0, <2>1, <2>2, <2>3, SettlingStep DEF TypeInv, FinalStatus
<1>22. ASSUME NEW w \in Workers,
              MarkCancelled(w)
       PROVE  [Contract!Next]_(Contract!contractVars)
  <2>1. wmsg[w].job \in Jobs /\ jobStatus[wmsg[w].job] # "none"
    BY <1>22 DEF MarkCancelled, MarkEnded, TypeInv, Hands, Known, Messages
  <2>2. \/ jobStatus' = [jobStatus EXCEPT ![wmsg[w].job] = "cancelled"]
        \/ UNCHANGED jobStatus
    BY <1>22 DEF MarkCancelled, MarkEnded
  <2>3. UNCHANGED jobMonitor
    BY <1>22 DEF MarkCancelled, MarkEnded
  <2> QED
    BY <1>0, <2>1, <2>2, <2>3, SettlingStep DEF TypeInv, FinalStatus
<1>23. ASSUME NEW w \in Workers,
              Ack(w)
       PROVE  [Contract!Next]_(Contract!contractVars)
  BY <1>0, <1>23 DEF Ack, LetGo, dbVars
<1>24. ASSUME NEW w \in Workers,
              WorkerCrash(w)
       PROVE  [Contract!Next]_(Contract!contractVars)
  BY <1>0, <1>24 DEF WorkerCrash, LetGo, Fault, dbVars
<1>25. ASSUME NEW m \in unacked,
              Restore(m)
       PROVE  [Contract!Next]_(Contract!contractVars)
  BY <1>0, <1>25 DEF Restore, dbVars
<1>26. ASSUME NEW m \in unacked,
              Redeliver(m)
       PROVE  [Contract!Next]_(Contract!contractVars)
  BY <1>0, <1>26 DEF Redeliver, Fault, dbVars
<1>27. CASE UNCHANGED vars
  BY <1>0, <1>27 DEF vars
<1> QED
  BY <1>1, <1>2, <1>3, <1>4, <1>5, <1>6, <1>7, <1>8, <1>9, <1>10,
     <1>11, <1>12, <1>13, <1>14, <1>15, <1>16, <1>17, <1>18, <1>19,
     <1>20, <1>21, <1>22, <1>23, <1>24, <1>25, <1>26, <1>27
     DEF Next, NewRequest, RequestStep, WorkerStep

LEMMA ContractInit == Init => Contract!Init
  BY DEF Init, Contract!Init, PhaseOf

(* The job table keeps its contract through every interleaving of requests  *)
(* and workers, and through lost publications, API crashes and database     *)
(* errors: as long as nothing duplicates a delivery, a settled job is never *)
(* queued or running again.                                                 *)
THEOREM ContractImplemented ==
    ASSUME Faults \cap DuplicatingFaults = {}
    PROVE  SafetySpec => ContractSafety
  BY ContractInit, ContractStep, TypeInvariant, KnownInvariant, RunningOrCancelledInvariant, PTL
  DEF SafetySpec, ContractSafety, Contract!SafetySpec

-----------------------------------------------------------------------------
(* Messages are numbered: one is in the queue or in work, and in the hands  *)
(* of one worker.                                                           *)
OneHolder ==
    /\ \A m \in queue \cup unacked : m.nth < sent[m.job]
    /\ queue \cap unacked = {}
    /\ \A w \in Workers : wpc[w] # "idle" => wmsg[w] \in unacked
    /\ \A v, w \in Workers :
           (v # w /\ wpc[v] # "idle" /\ wpc[w] # "idle") => wmsg[v] # wmsg[w]

(* What holds while nothing has failed.                                     *)
CleanHolder  == faults = 0 => OneHolder
CleanCarrier == faults = 0 => OneCarrier

(* What a Boolean entry says that is true after an update.                  *)
LEMMA UpdatedTrue ==
    ASSUME NEW S, NEW c \in S, NEW f \in [S -> BOOLEAN], NEW x, NEW D,
           NEW g, g = [f EXCEPT ![c] = x \in D], g[c]
    PROVE  x \in D
<1>1. g[c] = (x \in D)
  OBVIOUS
<1> QED
  BY <1>1, Zenon

(* A cancel request that remembers a completed run has read one.            *)
LEMMA CancelReadSees ==
    ASSUME TypeInv, NEW c \in Clients, CancelReadRun(c), cdone'[c]
    PROVE  runStatus[cjob[c]] \in DoneRun
<1>1. cdone \in [Clients -> BOOLEAN]
  BY DEF TypeInv, TypeOK
<1>2. cdone' = [cdone EXCEPT ![c] = runStatus[cjob[c]] \in DoneRun]
  BY DEF CancelReadRun
<1> QED
  BY <1>1, <1>2, UpdatedTrue

(* Publishing numbers a message, receiving and restoring only move it.       *)
LEMMA HolderKept ==
    TypeInv /\ CleanHolder /\ [Next]_vars
    => CleanHolder'
<1> SUFFICES ASSUME TypeInv, CleanHolder, [Next]_vars
             PROVE  CleanHolder'
  OBVIOUS
<1> USE ConstantsAssumption DEF TypeInv, TypeOK, Hands, Known, JobStatus, RunStatus,
      ClientSteps, WorkerSteps, FinalStatus, DoneRun, Messages, dbVars, brokerVars, clientVars,
      workerVars, CleanHolder, OneHolder
<1>1. ASSUME NEW c \in Clients, NEW m \in Monitors, CheckNoActiveJob(c, m) PROVE CleanHolder'
  BY <1>1 DEF CheckNoActiveJob
<1>2. ASSUME NEW c \in Clients, NEW j \in Jobs, InsertJob(c, j) PROVE CleanHolder'
  BY <1>2 DEF InsertJob
<1>3. ASSUME NEW c \in Clients, InsertConflict(c) PROVE CleanHolder'
  BY <1>3 DEF InsertConflict, EndRequest
<1>4. ASSUME NEW c \in Clients, SendTask(c) PROVE CleanHolder'
  BY <1>4 DEF SendTask, EndRequest, Publish
<1>5. ASSUME NEW c \in Clients, SendRaises(c) PROVE CleanHolder'
  BY <1>5 DEF SendRaises, Publish, Fault
<1>6. ASSUME NEW c \in Clients, MarkEnqueueFailed(c) PROVE CleanHolder'
  BY <1>6 DEF MarkEnqueueFailed, EndRequest, Fault
<1>7. ASSUME NEW c \in Clients, NEW j \in Jobs, CancelReadJob(c, j) PROVE CleanHolder'
  BY <1>7 DEF CancelReadJob
<1>8. ASSUME NEW c \in Clients, CancelReadRun(c) PROVE CleanHolder'
  BY <1>8 DEF CancelReadRun
<1>9. ASSUME NEW c \in Clients, CancelCommit(c) PROVE CleanHolder'
  BY <1>9 DEF CancelCommit
<1>10. ASSUME NEW c \in Clients, Revoke(c) PROVE CleanHolder'
  BY <1>10 DEF Revoke, EndRequest
<1>11. ASSUME NEW c \in Clients, ApiCrash(c) PROVE CleanHolder'
  BY <1>11 DEF ApiCrash, EndRequest, Fault
<1>12. ASSUME NEW w \in Workers, NEW m \in queue, Receive(w, m) PROVE CleanHolder'
  BY <1>12 DEF Receive
<1>13. ASSUME NEW w \in Workers, NEW m \in queue, DropRevoked(w, m) PROVE CleanHolder'
  BY <1>13 DEF DropRevoked
<1>14. ASSUME NEW w \in Workers, StartWorkflow(w) PROVE CleanHolder'
  BY <1>14 DEF StartWorkflow, WorkerGoto
<1>15. ASSUME NEW w \in Workers, CheckCancelled(w) PROVE CleanHolder'
  BY <1>15 DEF CheckCancelled, WorkerGoto
<1>16. ASSUME NEW w \in Workers, NEW outcome \in DoneRun, Finish(w, outcome) PROVE CleanHolder'
  BY <1>16 DEF Finish, WorkerGoto
<1>17. ASSUME NEW w \in Workers, TransientError(w) PROVE CleanHolder'
  BY <1>17 DEF TransientError, WorkerGoto
<1>18. ASSUME NEW w \in Workers, WorkflowError(w) PROVE CleanHolder'
  BY <1>18 DEF WorkflowError, WorkerGoto, Fault
<1>19. ASSUME NEW w \in Workers, MarkRetryPending(w) PROVE CleanHolder'
  BY <1>19 DEF MarkRetryPending, WorkerGoto, Fault
<1>20. ASSUME NEW w \in Workers, Republish(w) PROVE CleanHolder'
  BY <1>20 DEF Republish, WorkerGoto, Fault, Publish
<1>21. ASSUME NEW w \in Workers, MarkFailed(w) PROVE CleanHolder'
  BY <1>21 DEF MarkFailed, MarkEnded, WorkerGoto, Fault
<1>22. ASSUME NEW w \in Workers, MarkCancelled(w) PROVE CleanHolder'
  BY <1>22 DEF MarkCancelled, MarkEnded, WorkerGoto, Fault
<1>23. ASSUME NEW w \in Workers, Ack(w) PROVE CleanHolder'
  BY <1>23 DEF Ack, LetGo
<1>24. ASSUME NEW w \in Workers, WorkerCrash(w) PROVE CleanHolder'
  BY <1>24 DEF WorkerCrash, LetGo, Fault
<1>25. ASSUME NEW m \in unacked, Restore(m) PROVE CleanHolder'
  BY <1>25 DEF Restore, HeldBy
<1>26. ASSUME NEW m \in unacked, Redeliver(m) PROVE CleanHolder'
  BY <1>26 DEF Redeliver, Fault
<1>27. CASE UNCHANGED vars
  BY <1>27 DEF vars
<1> HIDE DEF TypeInv, TypeOK, Hands, Known, JobStatus, RunStatus, ClientSteps, WorkerSteps,
      FinalStatus, DoneRun, Messages, dbVars, brokerVars, clientVars, workerVars, CleanHolder,
      OneHolder
<1> QED
  BY <1>1, <1>2, <1>3, <1>4, <1>5, <1>6, <1>7, <1>8, <1>9, <1>10, <1>11, <1>12, <1>13, <1>14,
     <1>15, <1>16, <1>17, <1>18, <1>19, <1>20, <1>21, <1>22, <1>23, <1>24, <1>25, <1>26, <1>27
     DEF Next, NewRequest, RequestStep, WorkerStep

(* The same carrier argument as OneCarrierInvariant, up to the first fault.  *)
LEMMA CarrierKept ==
    TypeInv /\ Known /\ CleanCarrier /\ [Next]_vars
    => CleanCarrier'
<1> SUFFICES ASSUME TypeInv, Known, CleanCarrier, [Next]_vars
             PROVE  CleanCarrier'
  OBVIOUS
<1> USE ConstantsAssumption DEF TypeInv, TypeOK, Hands, Known, JobStatus, RunStatus,
      ClientSteps, WorkerSteps, FinalStatus, DoneRun, Messages, dbVars, brokerVars, clientVars,
      workerVars, CleanCarrier, OneCarrier, Carries, Sending, HeldBy
<1>1. ASSUME NEW c \in Clients, NEW m \in Monitors, CheckNoActiveJob(c, m) PROVE CleanCarrier'
  BY <1>1 DEF CheckNoActiveJob
<1>2. ASSUME NEW c \in Clients, NEW j \in Jobs, InsertJob(c, j) PROVE CleanCarrier'
  BY <1>2 DEF InsertJob
<1>3. ASSUME NEW c \in Clients, InsertConflict(c) PROVE CleanCarrier'
  BY <1>3 DEF InsertConflict, EndRequest
<1>4. ASSUME NEW c \in Clients, SendTask(c) PROVE CleanCarrier'
  BY <1>4 DEF SendTask, EndRequest, Publish
<1>5. ASSUME NEW c \in Clients, SendRaises(c) PROVE CleanCarrier'
  BY <1>5 DEF SendRaises, Publish, Fault
<1>6. ASSUME NEW c \in Clients, MarkEnqueueFailed(c) PROVE CleanCarrier'
  BY <1>6 DEF MarkEnqueueFailed, EndRequest, Fault
<1>7. ASSUME NEW c \in Clients, NEW j \in Jobs, CancelReadJob(c, j) PROVE CleanCarrier'
  BY <1>7 DEF CancelReadJob
<1>8. ASSUME NEW c \in Clients, CancelReadRun(c) PROVE CleanCarrier'
  BY <1>8 DEF CancelReadRun
<1>9. ASSUME NEW c \in Clients, CancelCommit(c) PROVE CleanCarrier'
  BY <1>9 DEF CancelCommit
<1>10. ASSUME NEW c \in Clients, Revoke(c) PROVE CleanCarrier'
  BY <1>10 DEF Revoke, EndRequest
<1>11. ASSUME NEW c \in Clients, ApiCrash(c) PROVE CleanCarrier'
  BY <1>11 DEF ApiCrash, EndRequest, Fault
<1>12. ASSUME NEW w \in Workers, NEW m \in queue, Receive(w, m) PROVE CleanCarrier'
  BY <1>12 DEF Receive
<1>13. ASSUME NEW w \in Workers, NEW m \in queue, DropRevoked(w, m) PROVE CleanCarrier'
  BY <1>13 DEF DropRevoked
<1>14. ASSUME NEW w \in Workers, StartWorkflow(w) PROVE CleanCarrier'
  BY SMTT(20), <1>14 DEF StartWorkflow, WorkerGoto
<1>15. ASSUME NEW w \in Workers, CheckCancelled(w) PROVE CleanCarrier'
  BY <1>15 DEF CheckCancelled, WorkerGoto
<1>16. ASSUME NEW w \in Workers, NEW outcome \in DoneRun, Finish(w, outcome) PROVE CleanCarrier'
  BY <1>16 DEF Finish, WorkerGoto
<1>17. ASSUME NEW w \in Workers, TransientError(w) PROVE CleanCarrier'
  BY <1>17 DEF TransientError, WorkerGoto
<1>18. ASSUME NEW w \in Workers, WorkflowError(w) PROVE CleanCarrier'
  BY <1>18 DEF WorkflowError, WorkerGoto, Fault
<1>19. ASSUME NEW w \in Workers, MarkRetryPending(w) PROVE CleanCarrier'
  BY SMTT(20), <1>19 DEF MarkRetryPending, WorkerGoto, Fault
<1>20. ASSUME NEW w \in Workers, Republish(w) PROVE CleanCarrier'
  BY <1>20 DEF Republish, WorkerGoto, Fault, Publish
<1>21. ASSUME NEW w \in Workers, MarkFailed(w) PROVE CleanCarrier'
  BY <1>21 DEF MarkFailed, MarkEnded, WorkerGoto, Fault
<1>22. ASSUME NEW w \in Workers, MarkCancelled(w) PROVE CleanCarrier'
  BY <1>22 DEF MarkCancelled, MarkEnded, WorkerGoto, Fault
<1>23. ASSUME NEW w \in Workers, Ack(w) PROVE CleanCarrier'
  BY <1>23 DEF Ack, LetGo
<1>24. ASSUME NEW w \in Workers, WorkerCrash(w) PROVE CleanCarrier'
  BY <1>24 DEF WorkerCrash, LetGo, Fault
<1>25. ASSUME NEW m \in unacked, Restore(m) PROVE CleanCarrier'
  BY <1>25 DEF Restore, HeldBy
<1>26. ASSUME NEW m \in unacked, Redeliver(m) PROVE CleanCarrier'
  BY <1>26 DEF Redeliver, Fault
<1>27. CASE UNCHANGED vars
  BY <1>27 DEF vars
<1> HIDE DEF TypeInv, TypeOK, Hands, Known, JobStatus, RunStatus, ClientSteps, WorkerSteps,
      FinalStatus, DoneRun, Messages, dbVars, brokerVars, clientVars, workerVars, CleanCarrier,
      OneCarrier, Carries, Sending, HeldBy
<1> QED
  BY <1>1, <1>2, <1>3, <1>4, <1>5, <1>6, <1>7, <1>8, <1>9, <1>10, <1>11, <1>12, <1>13, <1>14,
     <1>15, <1>16, <1>17, <1>18, <1>19, <1>20, <1>21, <1>22, <1>23, <1>24, <1>25, <1>26, <1>27
     DEF Next, NewRequest, RequestStep, WorkerStep

(* The jobs somebody will still go on with: the request that is about to    *)
(* send it, a waiting message, a worker.                                    *)
Driven ==
    {j \in Jobs :
        \/ \E c \in Clients : Sending(c) /\ cjob[c] = j
        \/ \E m \in queue : m.job = j
        \/ \E w \in Workers : Carries(w) /\ wmsg[w].job = j}

ExecutedRuns ==
    \A w \in Workers : Executing(w) => jobStatus[wmsg[w].job] \in {"running", "cancelled"}

ActiveDriven == \A j \in Jobs : Active(j) => j \in Driven

SendingNotRunning ==
    \A c \in Clients : Sending(c) => jobStatus[cjob[c]] # "running"

CompletedOver == \A j \in Jobs : runStatus[j] \in DoneRun => j \notin Driven

(* What a cancel request read of a completed run stays true.                *)
CancelReadOver ==
    \A c \in Clients :
        (cpc[c] = "cancel_write" /\ cdone[c]) =>
            /\ cjob[c] \notin Driven
            /\ runStatus[cjob[c]] \in DoneRun \cup {"cancelled"}

RevokedSettled ==
    /\ \A j \in revoked : Settled(j)
    /\ \A c \in Clients : cpc[c] = "revoke" => Settled(cjob[c])

(* A job is active as long as somebody goes on with it, and settled for     *)
(* good afterwards.                                                         *)
Rows == /\ ExecutedRuns
        /\ ActiveDriven
        /\ SendingNotRunning
        /\ CompletedOver
        /\ CancelReadOver
        /\ RevokedSettled

CleanRows == faults = 0 => Rows

(* Each step keeps the rows in line with the work that is left: what it     *)
(* does to Driven comes first, what that means for the rows second.         *)
LEMMA RowsKept ==
    TypeInv /\ Known /\ CleanCarrier /\ JobAndRunAgree /\ CleanRows /\ [Next]_vars
    => CleanRows'
<1> SUFFICES ASSUME TypeInv, Known, CleanCarrier, JobAndRunAgree, CleanRows, [Next]_vars
             PROVE  CleanRows'
  OBVIOUS
<1> USE ConstantsAssumption DEF TypeInv, TypeOK, Hands, Known, JobStatus, RunStatus,
      ClientSteps, WorkerSteps, FinalStatus, DoneRun, Messages, dbVars, brokerVars, clientVars,
      workerVars, CleanCarrier, OneCarrier, Carries, Sending, HeldBy, JobAndRunAgree, CleanRows,
      Rows, ExecutedRuns, ActiveDriven, SendingNotRunning, CompletedOver, CancelReadOver,
      RevokedSettled, Active, Executing, Settled
<1>1. ASSUME NEW c \in Clients, NEW m \in Monitors, CheckNoActiveJob(c, m) PROVE CleanRows'
  <2>1. faults' = 0 => Driven' = Driven
    BY <1>1 DEF CheckNoActiveJob, Driven
  <2> QED
    BY <1>1, <2>1 DEF CheckNoActiveJob
<1>2. ASSUME NEW c \in Clients, NEW j \in Jobs, InsertJob(c, j) PROVE CleanRows'
  <2>1. faults' = 0 => Driven' = Driven \cup {j}
    BY <1>2 DEF InsertJob, Driven
  <2> QED
    BY <1>2, <2>1 DEF InsertJob
<1>3. ASSUME NEW c \in Clients, InsertConflict(c) PROVE CleanRows'
  <2>1. faults' = 0 => Driven' = Driven
    BY <1>3 DEF InsertConflict, EndRequest, Driven
  <2> QED
    BY <1>3, <2>1 DEF InsertConflict, EndRequest
<1>4. ASSUME NEW c \in Clients, SendTask(c) PROVE CleanRows'
  <2>1. ASSUME faults' = 0, NEW k \in Jobs PROVE k \in Driven' <=> k \in Driven
    <3>1. CASE k = cjob[c]
      <4>1. k \in Driven
        BY <1>4, <3>1 DEF SendTask, EndRequest, Publish, Driven
      <4>2. [job |-> cjob[c], retries |-> 0, nth |-> sent[cjob[c]]] \in queue'
        BY <1>4, <2>1 DEF SendTask, EndRequest, Publish
      <4> QED
        BY <3>1, <4>1, <4>2 DEF Driven
    <3>2. CASE k # cjob[c]
      BY <1>4, <3>2 DEF SendTask, EndRequest, Publish, Driven
    <3> QED
      BY <3>1, <3>2
  <2>2. faults' = 0 => Driven' = Driven
    BY <2>1 DEF Driven
  <2> QED
    BY <1>4, <2>2 DEF SendTask, EndRequest, Publish
<1>5. ASSUME NEW c \in Clients, SendRaises(c) PROVE CleanRows'
  <2>1. faults' = 0 => Driven' = Driven
    BY <1>5 DEF SendRaises, Publish, Fault, Driven
  <2> QED
    BY <1>5, <2>1 DEF SendRaises, Publish, Fault
<1>6. ASSUME NEW c \in Clients, MarkEnqueueFailed(c) PROVE CleanRows'
  <2>1. faults' = 0 => Driven' = Driven \ {cjob[c]}
    BY <1>6 DEF MarkEnqueueFailed, EndRequest, Fault, Driven
  <2>2. faults' = 0 => ExecutedRuns'
    BY <1>6, <2>1 DEF MarkEnqueueFailed, EndRequest, Fault
  <2>3. faults' = 0 => ActiveDriven'
    BY <1>6, <2>1 DEF MarkEnqueueFailed, EndRequest, Fault
  <2>4. faults' = 0 => SendingNotRunning'
    BY <1>6, <2>1 DEF MarkEnqueueFailed, EndRequest, Fault
  <2>5. faults' = 0 => CompletedOver'
    BY <1>6, <2>1 DEF MarkEnqueueFailed, EndRequest, Fault
  <2>6. faults' = 0 => CancelReadOver'
    <3> SUFFICES ASSUME faults' = 0, NEW d \in Clients, cpc'[d] = "cancel_write", cdone'[d]
                 PROVE  /\ cjob'[d] \notin Driven'
                        /\ runStatus'[cjob'[d]] \in DoneRun \cup {"cancelled"}
      OBVIOUS
    <3>1. cjob[c] \in Driven
      BY <1>6 DEF MarkEnqueueFailed, EndRequest, Fault, Driven
    <3>2. cpc[d] = "cancel_write" /\ cdone[d] /\ cjob'[d] = cjob[d] /\ faults = 0
      BY <1>6 DEF MarkEnqueueFailed, EndRequest, Fault
    <3>3. cjob[d] # cjob[c] /\ cjob[d] \in Jobs
      BY <3>1, <3>2
    <3> QED
      BY <1>6, <2>1, <3>2, <3>3 DEF MarkEnqueueFailed, EndRequest, Fault
  <2>7. faults' = 0 => RevokedSettled'
    BY <1>6, <2>1 DEF MarkEnqueueFailed, EndRequest, Fault
  <2> QED
    BY <2>2, <2>3, <2>4, <2>5, <2>6, <2>7
<1>7. ASSUME NEW c \in Clients, NEW j \in Jobs, CancelReadJob(c, j) PROVE CleanRows'
  <2>1. faults' = 0 => Driven' = Driven
    BY <1>7 DEF CancelReadJob, Driven
  <2> QED
    BY <1>7, <2>1 DEF CancelReadJob
<1>8. ASSUME NEW c \in Clients, CancelReadRun(c) PROVE CleanRows'
  <2>1. faults' = 0 => Driven' = Driven
    BY <1>8 DEF CancelReadRun, Driven
  <2>2. faults' = 0 => ExecutedRuns'
    BY <1>8, <2>1 DEF CancelReadRun
  <2>3. faults' = 0 => ActiveDriven'
    BY <1>8, <2>1 DEF CancelReadRun
  <2>4. faults' = 0 => SendingNotRunning'
    BY <1>8, <2>1 DEF CancelReadRun
  <2>5. faults' = 0 => CompletedOver'
    BY <1>8, <2>1 DEF CancelReadRun
  <2>6. faults' = 0 => CancelReadOver'
    <3> SUFFICES ASSUME faults' = 0, NEW d \in Clients, cpc'[d] = "cancel_write", cdone'[d]
                 PROVE  /\ cjob'[d] \notin Driven'
                        /\ runStatus'[cjob'[d]] \in DoneRun \cup {"cancelled"}
      OBVIOUS
    <3>1. CASE d = c
      <4>3. runStatus[cjob[c]] \in DoneRun
        BY <1>8, <3>1, CancelReadSees
      <4>4. cjob[c] \in Jobs /\ cjob' = cjob /\ runStatus' = runStatus /\ faults = 0
        BY <1>8 DEF CancelReadRun
      <4> QED
        BY <2>1, <3>1, <4>3, <4>4
    <3>2. CASE d # c
      BY <1>8, <2>1, <3>2 DEF CancelReadRun
    <3> QED
      BY <3>1, <3>2
  <2>7. faults' = 0 => RevokedSettled'
    BY <1>8, <2>1 DEF CancelReadRun
  <2> QED
    BY <2>2, <2>3, <2>4, <2>5, <2>6, <2>7
<1>9. ASSUME NEW c \in Clients, CancelCommit(c) PROVE CleanRows'
  <2>1. faults' = 0 => Driven' = Driven
    BY <1>9 DEF CancelCommit, Driven
  <2> QED
    BY <1>9, <2>1 DEF CancelCommit
<1>10. ASSUME NEW c \in Clients, Revoke(c) PROVE CleanRows'
  <2>1. faults' = 0 => Driven' = Driven
    BY <1>10 DEF Revoke, EndRequest, Driven
  <2> QED
    BY <1>10, <2>1 DEF Revoke, EndRequest
<1>11. ASSUME NEW c \in Clients, ApiCrash(c) PROVE CleanRows'
  BY <1>11 DEF ApiCrash, EndRequest, Fault, Driven
<1>12. ASSUME NEW w \in Workers, NEW m \in queue, Receive(w, m) PROVE CleanRows'
  <2>1. faults' = 0 => Driven' = Driven
    BY <1>12 DEF Receive, Driven
  <2> QED
    BY <1>12, <2>1 DEF Receive
<1>13. ASSUME NEW w \in Workers, NEW m \in queue, DropRevoked(w, m) PROVE CleanRows'
  <2>1. faults' = 0 => Driven' = Driven \ {m.job}
    BY <1>13 DEF DropRevoked, Driven
  <2> QED
    BY <1>13, <2>1 DEF DropRevoked
<1>14. ASSUME NEW w \in Workers, StartWorkflow(w) PROVE CleanRows'
  <2>1. CASE Settled(wmsg[w].job)
    <3>1. faults' = 0 => Driven' = Driven \ {wmsg[w].job}
      BY SMTT(20), <1>14, <2>1 DEF StartWorkflow, WorkerGoto, Driven
    <3> QED
      BY <1>14, <2>1, <3>1 DEF StartWorkflow, WorkerGoto
  <2>2. CASE ~ Settled(wmsg[w].job)
    <3>1. faults' = 0 => Driven' = Driven
      <4> SUFFICES ASSUME NEW k \in Jobs PROVE k \in Driven' <=> k \in Driven
        BY DEF Driven
      <4>1. CASE k = wmsg[w].job
        BY <1>14, <2>2, <4>1 DEF StartWorkflow, WorkerGoto, Driven
      <4>2. CASE k # wmsg[w].job
        BY <1>14, <2>2, <4>2 DEF StartWorkflow, WorkerGoto, Driven
      <4> QED
        BY <4>1, <4>2
    <3> QED
      BY SMTT(20), <1>14, <2>2, <3>1 DEF StartWorkflow, WorkerGoto
  <2> QED
    BY <2>1, <2>2
<1>15. ASSUME NEW w \in Workers, CheckCancelled(w) PROVE CleanRows'
  <2>1. faults' = 0 => Driven' = Driven
    BY <1>15 DEF CheckCancelled, WorkerGoto, Driven
  <2> QED
    BY <1>15, <2>1 DEF CheckCancelled, WorkerGoto
<1>16. ASSUME NEW w \in Workers, NEW outcome \in DoneRun, Finish(w, outcome) PROVE CleanRows'
  <2>1. faults' = 0 => Driven' = Driven \ {wmsg[w].job}
    BY <1>16 DEF Finish, WorkerGoto, Driven
  <2> QED
    BY <1>16, <2>1 DEF Finish, WorkerGoto
<1>17. ASSUME NEW w \in Workers, TransientError(w) PROVE CleanRows'
  <2>1. faults' = 0 => Driven' = Driven
    BY <1>17 DEF TransientError, WorkerGoto, Driven
  <2> QED
    BY <1>17, <2>1 DEF TransientError, WorkerGoto
<1>18. ASSUME NEW w \in Workers, WorkflowError(w) PROVE CleanRows'
  <2>1. faults' = 0 => Driven' = Driven
    BY <1>18 DEF WorkflowError, WorkerGoto, Fault, Driven
  <2> QED
    BY <1>18, <2>1 DEF WorkflowError, WorkerGoto, Fault
<1>19. ASSUME NEW w \in Workers, MarkRetryPending(w) PROVE CleanRows'
  <2>1. faults' = 0 => Driven' = Driven
    BY SMTT(20), <1>19 DEF MarkRetryPending, WorkerGoto, Fault, Driven
  <2>2. faults' = 0 => ExecutedRuns'
    BY SMTT(20), <1>19, <2>1 DEF MarkRetryPending, WorkerGoto, Fault
  <2>3. faults' = 0 => ActiveDriven'
    BY <1>19, <2>1 DEF MarkRetryPending, WorkerGoto, Fault
  <2>4. faults' = 0 => SendingNotRunning'
    BY <1>19, <2>1 DEF MarkRetryPending, WorkerGoto, Fault
  <2>5. faults' = 0 => CompletedOver'
    BY <1>19, <2>1 DEF MarkRetryPending, WorkerGoto, Fault
  <2>6. faults' = 0 => CancelReadOver'
    BY <1>19, <2>1 DEF MarkRetryPending, WorkerGoto, Fault
  <2>7. faults' = 0 => RevokedSettled'
    BY SMTT(20), <1>19, <2>1 DEF MarkRetryPending, WorkerGoto, Fault
  <2> QED
    BY <2>2, <2>3, <2>4, <2>5, <2>6, <2>7
<1>20. ASSUME NEW w \in Workers, Republish(w) PROVE CleanRows'
  <2>1. ASSUME faults' = 0, NEW k \in Jobs PROVE k \in Driven' <=> k \in Driven
    <3>1. CASE k = wmsg[w].job
      <4>1. k \in Driven
        BY <1>20, <3>1 DEF Republish, WorkerGoto, Fault, Publish, Driven
      <4>2. [job |-> wmsg[w].job, retries |-> wmsg[w].retries + 1, nth |-> sent[wmsg[w].job]] \in queue'
        BY <1>20, <2>1 DEF Republish, WorkerGoto, Fault, Publish
      <4> QED
        BY <3>1, <4>1, <4>2 DEF Driven
    <3>2. CASE k # wmsg[w].job
      BY <1>20, <3>2 DEF Republish, WorkerGoto, Fault, Publish, Driven
    <3> QED
      BY <3>1, <3>2
  <2>2. faults' = 0 => Driven' = Driven
    BY <2>1 DEF Driven
  <2> QED
    BY <1>20, <2>2 DEF Republish, WorkerGoto, Fault, Publish
<1>21. ASSUME NEW w \in Workers, MarkFailed(w) PROVE CleanRows'
  <2>1. faults' = 0 => Driven' = Driven \ {wmsg[w].job}
    BY <1>21 DEF MarkFailed, MarkEnded, WorkerGoto, Fault, Driven
  <2>2. faults' = 0 => ExecutedRuns'
    BY <1>21, <2>1 DEF MarkFailed, MarkEnded, WorkerGoto, Fault
  <2>3. faults' = 0 => ActiveDriven'
    BY <1>21, <2>1 DEF MarkFailed, MarkEnded, WorkerGoto, Fault
  <2>4. faults' = 0 => SendingNotRunning'
    BY <1>21, <2>1 DEF MarkFailed, MarkEnded, WorkerGoto, Fault
  <2>5. faults' = 0 => CompletedOver'
    BY <1>21, <2>1 DEF MarkFailed, MarkEnded, WorkerGoto, Fault
  <2>6. faults' = 0 => CancelReadOver'
    <3> SUFFICES ASSUME faults' = 0, NEW d \in Clients, cpc'[d] = "cancel_write", cdone'[d]
                 PROVE  /\ cjob'[d] \notin Driven'
                        /\ runStatus'[cjob'[d]] \in DoneRun \cup {"cancelled"}
      OBVIOUS
    <3>1. wmsg[w].job \in Driven
      BY <1>21 DEF MarkFailed, MarkEnded, WorkerGoto, Fault, Driven
    <3>2. cpc[d] = "cancel_write" /\ cdone[d] /\ cjob'[d] = cjob[d] /\ faults = 0
      BY <1>21 DEF MarkFailed, MarkEnded, WorkerGoto, Fault
    <3>3. cjob[d] # wmsg[w].job /\ cjob[d] \in Jobs
      BY <3>1, <3>2
    <3> QED
      BY <1>21, <2>1, <3>2, <3>3 DEF MarkFailed, MarkEnded, WorkerGoto, Fault
  <2>7. faults' = 0 => RevokedSettled'
    BY <1>21, <2>1 DEF MarkFailed, MarkEnded, WorkerGoto, Fault
  <2> QED
    BY <2>2, <2>3, <2>4, <2>5, <2>6, <2>7
<1>22. ASSUME NEW w \in Workers, MarkCancelled(w) PROVE CleanRows'
  <2>1. faults' = 0 => Driven' = Driven \ {wmsg[w].job}
    BY <1>22 DEF MarkCancelled, MarkEnded, WorkerGoto, Fault, Driven
  <2>2. faults' = 0 => ExecutedRuns'
    BY <1>22, <2>1 DEF MarkCancelled, MarkEnded, WorkerGoto, Fault
  <2>3. faults' = 0 => ActiveDriven'
    BY <1>22, <2>1 DEF MarkCancelled, MarkEnded, WorkerGoto, Fault
  <2>4. faults' = 0 => SendingNotRunning'
    BY <1>22, <2>1 DEF MarkCancelled, MarkEnded, WorkerGoto, Fault
  <2>5. faults' = 0 => CompletedOver'
    BY <1>22, <2>1 DEF MarkCancelled, MarkEnded, WorkerGoto, Fault
  <2>6. faults' = 0 => CancelReadOver'
    <3> SUFFICES ASSUME faults' = 0, NEW d \in Clients, cpc'[d] = "cancel_write", cdone'[d]
                 PROVE  /\ cjob'[d] \notin Driven'
                        /\ runStatus'[cjob'[d]] \in DoneRun \cup {"cancelled"}
      OBVIOUS
    <3>1. wmsg[w].job \in Driven
      BY <1>22 DEF MarkCancelled, MarkEnded, WorkerGoto, Fault, Driven
    <3>2. cpc[d] = "cancel_write" /\ cdone[d] /\ cjob'[d] = cjob[d] /\ faults = 0
      BY <1>22 DEF MarkCancelled, MarkEnded, WorkerGoto, Fault
    <3>3. cjob[d] # wmsg[w].job /\ cjob[d] \in Jobs
      BY <3>1, <3>2
    <3> QED
      BY <1>22, <2>1, <3>2, <3>3 DEF MarkCancelled, MarkEnded, WorkerGoto, Fault
  <2>7. faults' = 0 => RevokedSettled'
    BY SMTT(20), <1>22, <2>1 DEF MarkCancelled, MarkEnded, WorkerGoto, Fault
  <2> QED
    BY <2>2, <2>3, <2>4, <2>5, <2>6, <2>7
<1>23. ASSUME NEW w \in Workers, Ack(w) PROVE CleanRows'
  <2>1. faults' = 0 => Driven' = Driven
    BY <1>23 DEF Ack, LetGo, Driven
  <2> QED
    BY <1>23, <2>1 DEF Ack, LetGo
<1>24. ASSUME NEW w \in Workers, WorkerCrash(w) PROVE CleanRows'
  BY <1>24 DEF WorkerCrash, LetGo, Fault, Driven
<1>25. ASSUME NEW m \in unacked, Restore(m) PROVE CleanRows'
  BY <1>25 DEF Restore, HeldBy, Driven
<1>26. ASSUME NEW m \in unacked, Redeliver(m) PROVE CleanRows'
  BY <1>26 DEF Redeliver, Fault, Driven
<1>27. CASE UNCHANGED vars
  BY <1>27 DEF vars, Driven
<1> HIDE DEF TypeInv, TypeOK, Hands, Known, JobStatus, RunStatus, ClientSteps, WorkerSteps,
      FinalStatus, DoneRun, Messages, dbVars, brokerVars, clientVars, workerVars, CleanCarrier,
      OneCarrier, Carries, Sending, HeldBy, JobAndRunAgree, CleanRows, Rows, ExecutedRuns,
      ActiveDriven, SendingNotRunning, CompletedOver, CancelReadOver, RevokedSettled, Active,
      Executing, Settled
<1> QED
  BY <1>1, <1>2, <1>3, <1>4, <1>5, <1>6, <1>7, <1>8, <1>9, <1>10, <1>11, <1>12, <1>13, <1>14,
     <1>15, <1>16, <1>17, <1>18, <1>19, <1>20, <1>21, <1>22, <1>23, <1>24, <1>25, <1>26, <1>27
     DEF Next, NewRequest, RequestStep, WorkerStep

(* Only the carrier of a job and a cancel request write its two rows.       *)
LEMMA AgreeKept ==
    TypeInv /\ Known /\ CleanCarrier /\ CleanRows /\ JobAndRunAgree /\ [Next]_vars
    => JobAndRunAgree'
<1> SUFFICES ASSUME TypeInv, Known, CleanCarrier, CleanRows, JobAndRunAgree, [Next]_vars
             PROVE  JobAndRunAgree'
  OBVIOUS
<1> USE ConstantsAssumption DEF TypeInv, TypeOK, Hands, Known, JobStatus, RunStatus,
      ClientSteps, WorkerSteps, FinalStatus, DoneRun, Messages, dbVars, brokerVars, clientVars,
      workerVars, CleanCarrier, OneCarrier, Carries, Sending, HeldBy, JobAndRunAgree, CleanRows,
      Rows, ExecutedRuns, ActiveDriven, SendingNotRunning, CompletedOver, CancelReadOver,
      RevokedSettled, Active, Executing, Settled
<1>1. ASSUME NEW c \in Clients, NEW m \in Monitors, CheckNoActiveJob(c, m) PROVE JobAndRunAgree'
  BY <1>1 DEF CheckNoActiveJob
<1>2. ASSUME NEW c \in Clients, NEW j \in Jobs, InsertJob(c, j) PROVE JobAndRunAgree'
  BY <1>2 DEF InsertJob
<1>3. ASSUME NEW c \in Clients, InsertConflict(c) PROVE JobAndRunAgree'
  BY <1>3 DEF InsertConflict, EndRequest
<1>4. ASSUME NEW c \in Clients, SendTask(c) PROVE JobAndRunAgree'
  BY <1>4 DEF SendTask, EndRequest, Publish
<1>5. ASSUME NEW c \in Clients, SendRaises(c) PROVE JobAndRunAgree'
  BY <1>5 DEF SendRaises, Publish, Fault
<1>6. ASSUME NEW c \in Clients, MarkEnqueueFailed(c) PROVE JobAndRunAgree'
  BY <1>6 DEF MarkEnqueueFailed, EndRequest, Fault
<1>7. ASSUME NEW c \in Clients, NEW j \in Jobs, CancelReadJob(c, j) PROVE JobAndRunAgree'
  BY <1>7 DEF CancelReadJob
<1>8. ASSUME NEW c \in Clients, CancelReadRun(c) PROVE JobAndRunAgree'
  BY <1>8 DEF CancelReadRun
<1>9. ASSUME NEW c \in Clients, CancelCommit(c) PROVE JobAndRunAgree'
  BY <1>9 DEF CancelCommit
<1>10. ASSUME NEW c \in Clients, Revoke(c) PROVE JobAndRunAgree'
  BY <1>10 DEF Revoke, EndRequest
<1>11. ASSUME NEW c \in Clients, ApiCrash(c) PROVE JobAndRunAgree'
  BY <1>11 DEF ApiCrash, EndRequest, Fault
<1>12. ASSUME NEW w \in Workers, NEW m \in queue, Receive(w, m) PROVE JobAndRunAgree'
  BY <1>12 DEF Receive
<1>13. ASSUME NEW w \in Workers, NEW m \in queue, DropRevoked(w, m) PROVE JobAndRunAgree'
  BY <1>13 DEF DropRevoked
<1>14. ASSUME NEW w \in Workers, StartWorkflow(w) PROVE JobAndRunAgree'
  BY <1>14 DEF StartWorkflow, WorkerGoto
<1>15. ASSUME NEW w \in Workers, CheckCancelled(w) PROVE JobAndRunAgree'
  BY <1>15 DEF CheckCancelled, WorkerGoto
<1>16. ASSUME NEW w \in Workers, NEW outcome \in DoneRun, Finish(w, outcome) PROVE JobAndRunAgree'
  BY <1>16 DEF Finish, WorkerGoto
<1>17. ASSUME NEW w \in Workers, TransientError(w) PROVE JobAndRunAgree'
  BY <1>17 DEF TransientError, WorkerGoto
<1>18. ASSUME NEW w \in Workers, WorkflowError(w) PROVE JobAndRunAgree'
  BY <1>18 DEF WorkflowError, WorkerGoto, Fault
<1>19. ASSUME NEW w \in Workers, MarkRetryPending(w) PROVE JobAndRunAgree'
  BY <1>19 DEF MarkRetryPending, WorkerGoto, Fault
<1>20. ASSUME NEW w \in Workers, Republish(w) PROVE JobAndRunAgree'
  BY <1>20 DEF Republish, WorkerGoto, Fault, Publish
<1>21. ASSUME NEW w \in Workers, MarkFailed(w) PROVE JobAndRunAgree'
  BY <1>21 DEF MarkFailed, MarkEnded, WorkerGoto, Fault
<1>22. ASSUME NEW w \in Workers, MarkCancelled(w) PROVE JobAndRunAgree'
  BY <1>22 DEF MarkCancelled, MarkEnded, WorkerGoto, Fault
<1>23. ASSUME NEW w \in Workers, Ack(w) PROVE JobAndRunAgree'
  BY <1>23 DEF Ack, LetGo
<1>24. ASSUME NEW w \in Workers, WorkerCrash(w) PROVE JobAndRunAgree'
  BY <1>24 DEF WorkerCrash, LetGo, Fault
<1>25. ASSUME NEW m \in unacked, Restore(m) PROVE JobAndRunAgree'
  BY <1>25 DEF Restore, HeldBy
<1>26. ASSUME NEW m \in unacked, Redeliver(m) PROVE JobAndRunAgree'
  BY <1>26 DEF Redeliver, Fault
<1>27. CASE UNCHANGED vars
  BY <1>27 DEF vars
<1> HIDE DEF TypeInv, TypeOK, Hands, Known, JobStatus, RunStatus, ClientSteps, WorkerSteps,
      FinalStatus, DoneRun, Messages, dbVars, brokerVars, clientVars, workerVars, CleanCarrier,
      OneCarrier, Carries, Sending, HeldBy, JobAndRunAgree, CleanRows, Rows, ExecutedRuns,
      ActiveDriven, SendingNotRunning, CompletedOver, CancelReadOver, RevokedSettled, Active,
      Executing, Settled
<1> QED
  BY <1>1, <1>2, <1>3, <1>4, <1>5, <1>6, <1>7, <1>8, <1>9, <1>10, <1>11, <1>12, <1>13, <1>14,
     <1>15, <1>16, <1>17, <1>18, <1>19, <1>20, <1>21, <1>22, <1>23, <1>24, <1>25, <1>26, <1>27
     DEF Next, NewRequest, RequestStep, WorkerStep

(* All of it holds in every state no fault precedes.                        *)
LEMMA FaultFreeInvariant ==
    SafetySpec => [](CleanHolder /\ CleanCarrier /\ CleanRows /\ JobAndRunAgree)
<1>1. Init => CleanHolder /\ CleanCarrier
  BY DEF Init, CleanHolder, OneHolder, CleanCarrier, OneCarrier, Carries, Sending
<1>2. Init => CleanRows
  BY DEF Init, CleanRows, Rows, ExecutedRuns, ActiveDriven, SendingNotRunning,
         CompletedOver, CancelReadOver, RevokedSettled, Driven, Active, Executing,
         Carries, Sending, DoneRun
<1>3. Init => JobAndRunAgree
  BY DEF Init, JobAndRunAgree
<1> QED
  BY <1>1, <1>2, <1>3, HolderKept, CarrierKept, RowsKept, AgreeKept,
     TypeInvariant, KnownInvariant, PTL DEF SafetySpec

(* The rows of job and run tell the same story as long as no fault happens, *)
(* whatever cancels race with the worker: _mark_job_final, mark_job_failed  *)
(* and mark_job_cancelled write both without looking, and cancel_job writes *)
(* the run it read before.                                                  *)
THEOREM JobAndRunAgreeAlways == SafetySpec => []JobAndRunAgree
  BY FaultFreeInvariant, PTL

(* Without faults no active job is stranded: whatever is queued or running  *)
(* has a request, a waiting message or a worker that goes on with it, so    *)
(* nothing but a fault can leave a job for the cancel endpoint to clean up. *)
THEOREM ActiveJobHasDriverWhileFaultFree ==
    SafetySpec => [](faults = 0 => ActiveJobHasDriver)
<1>1. ASSUME TypeInv, CleanHolder, CleanRows, faults = 0
      PROVE  ActiveJobHasDriver
  <2> SUFFICES ASSUME NEW j \in Jobs, Active(j)
               PROVE  /\ jobStatus[j] = "queued" => MessageFor(j) \/ RequestFor(j)
                      /\ jobStatus[j] = "running" => MessageFor(j)
    BY DEF ActiveJobHasDriver, Active
  <2>1. j \in Driven
    BY <1>1 DEF CleanRows, Rows, ActiveDriven
  <2>2. CASE \E c \in Clients : Sending(c) /\ cjob[c] = j
    BY <1>1, <2>2 DEF CleanRows, Rows, SendingNotRunning, RequestFor, Sending
  <2>3. CASE \E m \in queue : m.job = j
    BY <2>3 DEF MessageFor
  <2>4. CASE \E w \in Workers : Carries(w) /\ wmsg[w].job = j
    BY <1>1, <2>4 DEF CleanHolder, OneHolder, Carries, MessageFor
  <2> QED
    BY <2>1, <2>2, <2>3, <2>4 DEF Driven
<1> QED
  BY <1>1, FaultFreeInvariant, TypeInvariant, PTL

(* Without faults two workers are in the workflow of one monitor only if    *)
(* the job of one of them has been cancelled: the unique index keeps a      *)
(* second job from starting, and the broker a second worker from this job.  *)
THEOREM OverlapOnlyWithCancelledAlways == SafetySpec => []OverlapOnlyWithCancelled
<1>1. ASSUME TypeInv, CleanCarrier, CleanRows, OneActiveJob
      PROVE  OverlapOnlyWithCancelled
  <2> SUFFICES ASSUME faults = 0, NEW v \in Workers, NEW w \in Workers,
                      v # w, Executing(v), Executing(w),
                      jobStatus[wmsg[v].job] # "cancelled",
                      jobStatus[wmsg[w].job] # "cancelled"
               PROVE  jobMonitor[wmsg[v].job] # jobMonitor[wmsg[w].job]
    BY DEF OverlapOnlyWithCancelled
  <2>1. Active(wmsg[v].job) /\ Active(wmsg[w].job)
    BY <1>1 DEF CleanRows, Rows, ExecutedRuns, Active
  <2>2. wmsg[v].job # wmsg[w].job
    BY <1>1 DEF CleanCarrier, OneCarrier, Carries, Executing
  <2>3. wmsg[v].job \in Jobs /\ wmsg[w].job \in Jobs
    BY <1>1 DEF TypeInv, Hands, Executing, Messages
  <2> QED
    BY <1>1, <2>1, <2>2, <2>3 DEF OneActiveJob
<1> QED
  BY <1>1, FaultFreeInvariant, TypeInvariant, OneActiveJobAlways, PTL

-----------------------------------------------------------------------------
(* With one worker (the configuration of the repository: pool solo, one     *)
(* process) two messages of a job are worked on one after the other, so     *)
(* that crashes and deliveries in excess cost work but harm no row.         *)
OneWorker == \A v, w \in Workers : v = w

(* A request about to send a job is the only one, before any message of it. *)
SentOnce ==
    /\ \A c \in Clients : Sending(c) => \A m \in queue \cup unacked : m.job # cjob[c]
    /\ \A c, d \in Clients : (c # d /\ Sending(c) /\ Sending(d)) => cjob[c] # cjob[d]

(* The worker holds an unacknowledged message, whatever fails.             *)
LEMMA HolderOfOneWorker ==
    ASSUME OneWorker
    PROVE  TypeInv /\ Known /\ OneHolder /\ [Next]_vars => OneHolder'
<1> SUFFICES ASSUME TypeInv, Known, OneHolder, [Next]_vars
             PROVE  OneHolder'
  OBVIOUS
<1> USE ConstantsAssumption, OneWorker DEF TypeInv, TypeOK, Hands, Known, JobStatus, RunStatus,
      ClientSteps, WorkerSteps, FinalStatus, DoneRun, Messages, dbVars, brokerVars, clientVars,
      workerVars, OneHolder, OneWorker
<1>1. ASSUME NEW c \in Clients, NEW m \in Monitors, CheckNoActiveJob(c, m) PROVE OneHolder'
  BY <1>1 DEF CheckNoActiveJob
<1>2. ASSUME NEW c \in Clients, NEW j \in Jobs, InsertJob(c, j) PROVE OneHolder'
  BY <1>2 DEF InsertJob
<1>3. ASSUME NEW c \in Clients, InsertConflict(c) PROVE OneHolder'
  BY <1>3 DEF InsertConflict, EndRequest
<1>4. ASSUME NEW c \in Clients, SendTask(c) PROVE OneHolder'
  BY <1>4 DEF SendTask, EndRequest, Publish
<1>5. ASSUME NEW c \in Clients, SendRaises(c) PROVE OneHolder'
  BY <1>5 DEF SendRaises, Publish, Fault
<1>6. ASSUME NEW c \in Clients, MarkEnqueueFailed(c) PROVE OneHolder'
  BY <1>6 DEF MarkEnqueueFailed, EndRequest, Fault
<1>7. ASSUME NEW c \in Clients, NEW j \in Jobs, CancelReadJob(c, j) PROVE OneHolder'
  BY <1>7 DEF CancelReadJob
<1>8. ASSUME NEW c \in Clients, CancelReadRun(c) PROVE OneHolder'
  BY <1>8 DEF CancelReadRun
<1>9. ASSUME NEW c \in Clients, CancelCommit(c) PROVE OneHolder'
  BY <1>9 DEF CancelCommit
<1>10. ASSUME NEW c \in Clients, Revoke(c) PROVE OneHolder'
  BY <1>10 DEF Revoke, EndRequest
<1>11. ASSUME NEW c \in Clients, ApiCrash(c) PROVE OneHolder'
  BY <1>11 DEF ApiCrash, EndRequest, Fault
<1>12. ASSUME NEW w \in Workers, NEW m \in queue, Receive(w, m) PROVE OneHolder'
  BY <1>12 DEF Receive
<1>13. ASSUME NEW w \in Workers, NEW m \in queue, DropRevoked(w, m) PROVE OneHolder'
  BY <1>13 DEF DropRevoked
<1>14. ASSUME NEW w \in Workers, StartWorkflow(w) PROVE OneHolder'
  BY <1>14 DEF StartWorkflow, WorkerGoto
<1>15. ASSUME NEW w \in Workers, CheckCancelled(w) PROVE OneHolder'
  BY <1>15 DEF CheckCancelled, WorkerGoto
<1>16. ASSUME NEW w \in Workers, NEW outcome \in DoneRun, Finish(w, outcome) PROVE OneHolder'
  BY <1>16 DEF Finish, WorkerGoto
<1>17. ASSUME NEW w \in Workers, TransientError(w) PROVE OneHolder'
  BY <1>17 DEF TransientError, WorkerGoto
<1>18. ASSUME NEW w \in Workers, WorkflowError(w) PROVE OneHolder'
  BY <1>18 DEF WorkflowError, WorkerGoto, Fault
<1>19. ASSUME NEW w \in Workers, MarkRetryPending(w) PROVE OneHolder'
  BY <1>19 DEF MarkRetryPending, WorkerGoto, Fault
<1>20. ASSUME NEW w \in Workers, Republish(w) PROVE OneHolder'
  BY <1>20 DEF Republish, WorkerGoto, Fault, Publish
<1>21. ASSUME NEW w \in Workers, MarkFailed(w) PROVE OneHolder'
  BY <1>21 DEF MarkFailed, MarkEnded, WorkerGoto, Fault
<1>22. ASSUME NEW w \in Workers, MarkCancelled(w) PROVE OneHolder'
  BY <1>22 DEF MarkCancelled, MarkEnded, WorkerGoto, Fault
<1>23. ASSUME NEW w \in Workers, Ack(w) PROVE OneHolder'
  BY <1>23 DEF Ack, LetGo
<1>24. ASSUME NEW w \in Workers, WorkerCrash(w) PROVE OneHolder'
  BY <1>24 DEF WorkerCrash, LetGo, Fault
<1>25. ASSUME NEW m \in unacked, Restore(m) PROVE OneHolder'
  BY <1>25 DEF Restore, HeldBy
<1>26. ASSUME NEW m \in unacked, Redeliver(m) PROVE OneHolder'
  BY <1>26 DEF Redeliver, HeldBy, Fault
<1>27. CASE UNCHANGED vars
  BY <1>27 DEF vars
<1> HIDE DEF TypeInv, TypeOK, Hands, Known, JobStatus, RunStatus, ClientSteps, WorkerSteps,
      FinalStatus, DoneRun, Messages, dbVars, brokerVars, clientVars, workerVars, OneHolder,
      OneWorker
<1> QED
  BY <1>1, <1>2, <1>3, <1>4, <1>5, <1>6, <1>7, <1>8, <1>9, <1>10, <1>11, <1>12, <1>13, <1>14,
     <1>15, <1>16, <1>17, <1>18, <1>19, <1>20, <1>21, <1>22, <1>23, <1>24, <1>25, <1>26, <1>27
     DEF Next, NewRequest, RequestStep, WorkerStep

(* Only an ambiguous send leaves a request behind its message.             *)
LEMMA SentOnceKept ==
    ASSUME "send_ambiguous" \notin Faults
    PROVE  TypeInv /\ Known /\ OneHolder /\ SentOnce /\ [Next]_vars => SentOnce'
<1> SUFFICES ASSUME TypeInv, Known, OneHolder, SentOnce, [Next]_vars
             PROVE  SentOnce'
  OBVIOUS
<1> USE ConstantsAssumption, "send_ambiguous" \notin Faults DEF TypeInv, TypeOK,
      Hands, Known, JobStatus, RunStatus, ClientSteps, WorkerSteps, FinalStatus, DoneRun,
      Messages, dbVars, brokerVars, clientVars, workerVars, OneHolder, SentOnce,
      Sending
<1>1. ASSUME NEW c \in Clients, NEW m \in Monitors, CheckNoActiveJob(c, m) PROVE SentOnce'
  BY <1>1 DEF CheckNoActiveJob
<1>2. ASSUME NEW c \in Clients, NEW j \in Jobs, InsertJob(c, j) PROVE SentOnce'
  BY <1>2 DEF InsertJob
<1>3. ASSUME NEW c \in Clients, InsertConflict(c) PROVE SentOnce'
  BY <1>3 DEF InsertConflict, EndRequest
<1>4. ASSUME NEW c \in Clients, SendTask(c) PROVE SentOnce'
  BY <1>4 DEF SendTask, EndRequest, Publish
<1>5. ASSUME NEW c \in Clients, SendRaises(c) PROVE SentOnce'
  BY <1>5 DEF SendRaises, Publish, Fault
<1>6. ASSUME NEW c \in Clients, MarkEnqueueFailed(c) PROVE SentOnce'
  BY <1>6 DEF MarkEnqueueFailed, EndRequest, Fault
<1>7. ASSUME NEW c \in Clients, NEW j \in Jobs, CancelReadJob(c, j) PROVE SentOnce'
  BY <1>7 DEF CancelReadJob
<1>8. ASSUME NEW c \in Clients, CancelReadRun(c) PROVE SentOnce'
  BY <1>8 DEF CancelReadRun
<1>9. ASSUME NEW c \in Clients, CancelCommit(c) PROVE SentOnce'
  BY <1>9 DEF CancelCommit
<1>10. ASSUME NEW c \in Clients, Revoke(c) PROVE SentOnce'
  BY <1>10 DEF Revoke, EndRequest
<1>11. ASSUME NEW c \in Clients, ApiCrash(c) PROVE SentOnce'
  BY <1>11 DEF ApiCrash, EndRequest, Fault
<1>12. ASSUME NEW w \in Workers, NEW m \in queue, Receive(w, m) PROVE SentOnce'
  BY <1>12 DEF Receive
<1>13. ASSUME NEW w \in Workers, NEW m \in queue, DropRevoked(w, m) PROVE SentOnce'
  BY <1>13 DEF DropRevoked
<1>14. ASSUME NEW w \in Workers, StartWorkflow(w) PROVE SentOnce'
  BY <1>14 DEF StartWorkflow, WorkerGoto
<1>15. ASSUME NEW w \in Workers, CheckCancelled(w) PROVE SentOnce'
  BY <1>15 DEF CheckCancelled, WorkerGoto
<1>16. ASSUME NEW w \in Workers, NEW outcome \in DoneRun, Finish(w, outcome) PROVE SentOnce'
  BY <1>16 DEF Finish, WorkerGoto
<1>17. ASSUME NEW w \in Workers, TransientError(w) PROVE SentOnce'
  BY <1>17 DEF TransientError, WorkerGoto
<1>18. ASSUME NEW w \in Workers, WorkflowError(w) PROVE SentOnce'
  BY <1>18 DEF WorkflowError, WorkerGoto, Fault
<1>19. ASSUME NEW w \in Workers, MarkRetryPending(w) PROVE SentOnce'
  BY <1>19 DEF MarkRetryPending, WorkerGoto, Fault
<1>20. ASSUME NEW w \in Workers, Republish(w) PROVE SentOnce'
  BY <1>20 DEF Republish, WorkerGoto, Fault, Publish
<1>21. ASSUME NEW w \in Workers, MarkFailed(w) PROVE SentOnce'
  BY <1>21 DEF MarkFailed, MarkEnded, WorkerGoto, Fault
<1>22. ASSUME NEW w \in Workers, MarkCancelled(w) PROVE SentOnce'
  BY <1>22 DEF MarkCancelled, MarkEnded, WorkerGoto, Fault
<1>23. ASSUME NEW w \in Workers, Ack(w) PROVE SentOnce'
  BY <1>23 DEF Ack, LetGo
<1>24. ASSUME NEW w \in Workers, WorkerCrash(w) PROVE SentOnce'
  BY <1>24 DEF WorkerCrash, LetGo, Fault
<1>25. ASSUME NEW m \in unacked, Restore(m) PROVE SentOnce'
  BY <1>25 DEF Restore, HeldBy
<1>26. ASSUME NEW m \in unacked, Redeliver(m) PROVE SentOnce'
  BY <1>26 DEF Redeliver, HeldBy, Fault
<1>27. CASE UNCHANGED vars
  BY <1>27 DEF vars
<1> HIDE DEF TypeInv, TypeOK, Hands, Known, JobStatus, RunStatus, ClientSteps, WorkerSteps,
      FinalStatus, DoneRun, Messages, dbVars, brokerVars, clientVars, workerVars, OneHolder,
      SentOnce, Sending
<1> QED
  BY <1>1, <1>2, <1>3, <1>4, <1>5, <1>6, <1>7, <1>8, <1>9, <1>10, <1>11, <1>12, <1>13, <1>14,
     <1>15, <1>16, <1>17, <1>18, <1>19, <1>20, <1>21, <1>22, <1>23, <1>24, <1>25, <1>26, <1>27
     DEF Next, NewRequest, RequestStep, WorkerStep

(* Nobody settles the job the worker is at but itself and cancellations.   *)
LEMMA RunsOfOneWorker ==
    ASSUME OneWorker, "send_ambiguous" \notin Faults
    PROVE  TypeInv /\ Known /\ OneHolder /\ SentOnce
            /\ RunningOrCancelled /\ [Next]_vars => RunningOrCancelled'
<1> SUFFICES ASSUME TypeInv, Known, OneHolder, SentOnce,
                    RunningOrCancelled, [Next]_vars
             PROVE  RunningOrCancelled'
  OBVIOUS
<1> USE ConstantsAssumption, OneWorker, "send_ambiguous" \notin Faults DEF TypeInv, TypeOK,
      Hands, Known, JobStatus, RunStatus, ClientSteps, WorkerSteps, FinalStatus, DoneRun,
      Messages, dbVars, brokerVars, clientVars, workerVars, OneHolder, OneWorker, SentOnce,
      Sending, RunningOrCancelled, Settled
<1>1. ASSUME NEW c \in Clients, NEW m \in Monitors, CheckNoActiveJob(c, m) PROVE RunningOrCancelled'
  BY <1>1 DEF CheckNoActiveJob
<1>2. ASSUME NEW c \in Clients, NEW j \in Jobs, InsertJob(c, j) PROVE RunningOrCancelled'
  BY <1>2 DEF InsertJob
<1>3. ASSUME NEW c \in Clients, InsertConflict(c) PROVE RunningOrCancelled'
  BY <1>3 DEF InsertConflict, EndRequest
<1>4. ASSUME NEW c \in Clients, SendTask(c) PROVE RunningOrCancelled'
  BY <1>4 DEF SendTask, EndRequest, Publish
<1>5. ASSUME NEW c \in Clients, SendRaises(c) PROVE RunningOrCancelled'
  BY <1>5 DEF SendRaises, Publish, Fault
<1>6. ASSUME NEW c \in Clients, MarkEnqueueFailed(c) PROVE RunningOrCancelled'
  BY <1>6 DEF MarkEnqueueFailed, EndRequest, Fault
<1>7. ASSUME NEW c \in Clients, NEW j \in Jobs, CancelReadJob(c, j) PROVE RunningOrCancelled'
  BY <1>7 DEF CancelReadJob
<1>8. ASSUME NEW c \in Clients, CancelReadRun(c) PROVE RunningOrCancelled'
  BY <1>8 DEF CancelReadRun
<1>9. ASSUME NEW c \in Clients, CancelCommit(c) PROVE RunningOrCancelled'
  BY <1>9 DEF CancelCommit
<1>10. ASSUME NEW c \in Clients, Revoke(c) PROVE RunningOrCancelled'
  BY <1>10 DEF Revoke, EndRequest
<1>11. ASSUME NEW c \in Clients, ApiCrash(c) PROVE RunningOrCancelled'
  BY <1>11 DEF ApiCrash, EndRequest, Fault
<1>12. ASSUME NEW w \in Workers, NEW m \in queue, Receive(w, m) PROVE RunningOrCancelled'
  BY <1>12 DEF Receive
<1>13. ASSUME NEW w \in Workers, NEW m \in queue, DropRevoked(w, m) PROVE RunningOrCancelled'
  BY <1>13 DEF DropRevoked
<1>14. ASSUME NEW w \in Workers, StartWorkflow(w) PROVE RunningOrCancelled'
  BY <1>14 DEF StartWorkflow, WorkerGoto
<1>15. ASSUME NEW w \in Workers, CheckCancelled(w) PROVE RunningOrCancelled'
  BY <1>15 DEF CheckCancelled, WorkerGoto
<1>16. ASSUME NEW w \in Workers, NEW outcome \in DoneRun, Finish(w, outcome) PROVE RunningOrCancelled'
  BY <1>16 DEF Finish, WorkerGoto
<1>17. ASSUME NEW w \in Workers, TransientError(w) PROVE RunningOrCancelled'
  BY <1>17 DEF TransientError, WorkerGoto
<1>18. ASSUME NEW w \in Workers, WorkflowError(w) PROVE RunningOrCancelled'
  BY <1>18 DEF WorkflowError, WorkerGoto, Fault
<1>19. ASSUME NEW w \in Workers, MarkRetryPending(w) PROVE RunningOrCancelled'
  BY <1>19 DEF MarkRetryPending, WorkerGoto, Fault
<1>20. ASSUME NEW w \in Workers, Republish(w) PROVE RunningOrCancelled'
  BY <1>20 DEF Republish, WorkerGoto, Fault, Publish
<1>21. ASSUME NEW w \in Workers, MarkFailed(w) PROVE RunningOrCancelled'
  BY <1>21 DEF MarkFailed, MarkEnded, WorkerGoto, Fault
<1>22. ASSUME NEW w \in Workers, MarkCancelled(w) PROVE RunningOrCancelled'
  BY <1>22 DEF MarkCancelled, MarkEnded, WorkerGoto, Fault
<1>23. ASSUME NEW w \in Workers, Ack(w) PROVE RunningOrCancelled'
  BY <1>23 DEF Ack, LetGo
<1>24. ASSUME NEW w \in Workers, WorkerCrash(w) PROVE RunningOrCancelled'
  BY <1>24 DEF WorkerCrash, LetGo, Fault
<1>25. ASSUME NEW m \in unacked, Restore(m) PROVE RunningOrCancelled'
  BY <1>25 DEF Restore, HeldBy
<1>26. ASSUME NEW m \in unacked, Redeliver(m) PROVE RunningOrCancelled'
  BY <1>26 DEF Redeliver, HeldBy, Fault
<1>27. CASE UNCHANGED vars
  BY <1>27 DEF vars
<1> HIDE DEF TypeInv, TypeOK, Hands, Known, JobStatus, RunStatus, ClientSteps, WorkerSteps,
      FinalStatus, DoneRun, Messages, dbVars, brokerVars, clientVars, workerVars, OneHolder,
      OneWorker, SentOnce, Sending, RunningOrCancelled, Settled
<1> QED
  BY <1>1, <1>2, <1>3, <1>4, <1>5, <1>6, <1>7, <1>8, <1>9, <1>10, <1>11, <1>12, <1>13, <1>14,
     <1>15, <1>16, <1>17, <1>18, <1>19, <1>20, <1>21, <1>22, <1>23, <1>24, <1>25, <1>26, <1>27
     DEF Next, NewRequest, RequestStep, WorkerStep

LEMMA OneWorkerInvariant ==
    ASSUME OneWorker, "send_ambiguous" \notin Faults
    PROVE  SafetySpec => [](OneHolder /\ SentOnce /\ RunningOrCancelled)
<1>1. Init => OneHolder /\ SentOnce /\ RunningOrCancelled
  BY DEF Init, OneHolder, SentOnce, Sending, RunningOrCancelled
<1>2. /\ TypeInv /\ Known /\ OneHolder /\ [Next]_vars => OneHolder'
      /\ TypeInv /\ Known /\ OneHolder /\ SentOnce /\ [Next]_vars => SentOnce'
      /\ TypeInv /\ Known /\ OneHolder /\ SentOnce /\ RunningOrCancelled /\ [Next]_vars
         => RunningOrCancelled'
  BY HolderOfOneWorker, SentOnceKept, RunsOfOneWorker
<1> QED
  BY <1>1, <1>2, TypeInvariant, KnownInvariant, PTL DEF SafetySpec

(* One worker keeps the contract of the job table through crashes in the    *)
(* middle of a task, repeated deliveries, lost publications and database    *)
(* errors; only a send that fails after it has been stored breaks it.       *)
THEOREM ContractImplementedByOneWorker ==
    ASSUME OneWorker, "send_ambiguous" \notin Faults
    PROVE  SafetySpec => ContractSafety
  BY ContractInit, ContractStep, TypeInvariant, KnownInvariant, OneWorkerInvariant, PTL
  DEF SafetySpec, ContractSafety, Contract!SafetySpec

(* What a worker is about to acknowledge is settled or has a new message.   *)
HandedOn ==
    \A w \in Workers : wpc[w] = "ack" =>
        \/ Settled(wmsg[w].job)
        \/ \E m \in (queue \cup unacked) \ {wmsg[w]} : m.job = wmsg[w].job

NothingDropped == RevokedSettled /\ HandedOn

(* A message goes only after its job is settled or has another: a job that  *)
(* was revoked is settled for good.                                         *)
LEMMA NothingDroppedKept ==
    ASSUME OneWorker, Faults \subseteq {"api_crash", "worker_crash", "redeliver"}
    PROVE  TypeInv /\ Known /\ OneHolder /\ SentOnce
            /\ RunningOrCancelled /\ NothingDropped /\ [Next]_vars => NothingDropped'
<1> SUFFICES ASSUME TypeInv, Known, OneHolder, SentOnce,
                    RunningOrCancelled, NothingDropped, [Next]_vars
             PROVE  NothingDropped'
  OBVIOUS
<1> USE ConstantsAssumption, OneWorker,
      Faults \subseteq {"api_crash", "worker_crash", "redeliver"}
      DEF TypeInv, TypeOK, Hands, Known, JobStatus, RunStatus, ClientSteps, WorkerSteps,
      FinalStatus, DoneRun, Messages, dbVars, brokerVars, clientVars, workerVars, OneHolder,
      OneWorker, SentOnce, Sending, RunningOrCancelled, NothingDropped,
      RevokedSettled, HandedOn, MessageFor, Settled
<1>1. ASSUME NEW c \in Clients, NEW m \in Monitors, CheckNoActiveJob(c, m) PROVE NothingDropped'
  BY <1>1 DEF CheckNoActiveJob
<1>2. ASSUME NEW c \in Clients, NEW j \in Jobs, InsertJob(c, j) PROVE NothingDropped'
  BY <1>2 DEF InsertJob
<1>3. ASSUME NEW c \in Clients, InsertConflict(c) PROVE NothingDropped'
  BY <1>3 DEF InsertConflict, EndRequest
<1>4. ASSUME NEW c \in Clients, SendTask(c) PROVE NothingDropped'
  BY <1>4 DEF SendTask, EndRequest, Publish
<1>5. ASSUME NEW c \in Clients, SendRaises(c) PROVE NothingDropped'
  BY <1>5 DEF SendRaises, Publish, Fault
<1>6. ASSUME NEW c \in Clients, MarkEnqueueFailed(c) PROVE NothingDropped'
  BY <1>6 DEF MarkEnqueueFailed, EndRequest, Fault
<1>7. ASSUME NEW c \in Clients, NEW j \in Jobs, CancelReadJob(c, j) PROVE NothingDropped'
  BY <1>7 DEF CancelReadJob
<1>8. ASSUME NEW c \in Clients, CancelReadRun(c) PROVE NothingDropped'
  BY <1>8 DEF CancelReadRun
<1>9. ASSUME NEW c \in Clients, CancelCommit(c) PROVE NothingDropped'
  BY <1>9 DEF CancelCommit
<1>10. ASSUME NEW c \in Clients, Revoke(c) PROVE NothingDropped'
  BY <1>10 DEF Revoke, EndRequest
<1>11. ASSUME NEW c \in Clients, ApiCrash(c) PROVE NothingDropped'
  BY <1>11 DEF ApiCrash, EndRequest, Fault
<1>12. ASSUME NEW w \in Workers, NEW m \in queue, Receive(w, m) PROVE NothingDropped'
  BY <1>12 DEF Receive
<1>13. ASSUME NEW w \in Workers, NEW m \in queue, DropRevoked(w, m) PROVE NothingDropped'
  BY <1>13 DEF DropRevoked
<1>14. ASSUME NEW w \in Workers, StartWorkflow(w) PROVE NothingDropped'
  BY <1>14 DEF StartWorkflow, WorkerGoto
<1>15. ASSUME NEW w \in Workers, CheckCancelled(w) PROVE NothingDropped'
  BY <1>15 DEF CheckCancelled, WorkerGoto
<1>16. ASSUME NEW w \in Workers, NEW outcome \in DoneRun, Finish(w, outcome) PROVE NothingDropped'
  BY <1>16 DEF Finish, WorkerGoto
<1>17. ASSUME NEW w \in Workers, TransientError(w) PROVE NothingDropped'
  BY <1>17 DEF TransientError, WorkerGoto
<1>18. ASSUME NEW w \in Workers, WorkflowError(w) PROVE NothingDropped'
  BY <1>18 DEF WorkflowError, WorkerGoto, Fault
<1>19. ASSUME NEW w \in Workers, MarkRetryPending(w) PROVE NothingDropped'
  BY <1>19 DEF MarkRetryPending, WorkerGoto, Fault
<1>20. ASSUME NEW w \in Workers, Republish(w) PROVE NothingDropped'
  <2> DEFINE k == wmsg[w].job
  <2> DEFINE n == [job |-> k, retries |-> wmsg[w].retries + 1, nth |-> sent[k]]
  <2>1. /\ n.job = k /\ n.nth = sent[k]
        /\ queue' = queue \cup {n} /\ unacked' = unacked
        /\ jobStatus' = jobStatus /\ revoked' = revoked /\ wmsg' = wmsg
        /\ wpc' = [wpc EXCEPT ![w] = "ack"] /\ cpc' = cpc /\ cjob' = cjob
        /\ wpc[w] = "republish"
    BY <1>20 DEF Republish, WorkerGoto, Fault, Publish
  <2> HIDE DEF n
  <2>2. n # wmsg[w]
    BY <2>1
  <2>3. RevokedSettled'
    BY <2>1
  <2>4. HandedOn'
    BY <2>1, <2>2
  <2> QED
    BY <2>3, <2>4
<1>21. ASSUME NEW w \in Workers, MarkFailed(w) PROVE NothingDropped'
  BY <1>21 DEF MarkFailed, MarkEnded, WorkerGoto, Fault
<1>22. ASSUME NEW w \in Workers, MarkCancelled(w) PROVE NothingDropped'
  BY <1>22 DEF MarkCancelled, MarkEnded, WorkerGoto, Fault
<1>23. ASSUME NEW w \in Workers, Ack(w) PROVE NothingDropped'
  BY <1>23 DEF Ack, LetGo
<1>24. ASSUME NEW w \in Workers, WorkerCrash(w) PROVE NothingDropped'
  BY <1>24 DEF WorkerCrash, LetGo, Fault
<1>25. ASSUME NEW m \in unacked, Restore(m) PROVE NothingDropped'
  BY <1>25 DEF Restore, HeldBy
<1>26. ASSUME NEW m \in unacked, Redeliver(m) PROVE NothingDropped'
  BY <1>26 DEF Redeliver, HeldBy, Fault
<1>27. CASE UNCHANGED vars
  BY <1>27 DEF vars
<1> HIDE DEF TypeInv, TypeOK, Hands, Known, JobStatus, RunStatus, ClientSteps, WorkerSteps,
      FinalStatus, DoneRun, Messages, dbVars, brokerVars, clientVars, workerVars, OneHolder,
      OneWorker, SentOnce, Sending, RunningOrCancelled, NothingDropped,
      RevokedSettled, HandedOn, MessageFor, Settled
<1> QED
  BY <1>1, <1>2, <1>3, <1>4, <1>5, <1>6, <1>7, <1>8, <1>9, <1>10, <1>11, <1>12, <1>13, <1>14,
     <1>15, <1>16, <1>17, <1>18, <1>19, <1>20, <1>21, <1>22, <1>23, <1>24, <1>25, <1>26, <1>27
     DEF Next, NewRequest, RequestStep, WorkerStep

LEMMA NothingDroppedInvariant ==
    ASSUME OneWorker, Faults \subseteq {"api_crash", "worker_crash", "redeliver"}
    PROVE  SafetySpec => []NothingDropped
<1>1. Init => NothingDropped
  BY DEF Init, NothingDropped, RevokedSettled, HandedOn
<1>2. "send_ambiguous" \notin Faults
  OBVIOUS
<1> QED
  BY <1>1, <1>2, NothingDroppedKept, OneWorkerInvariant, TypeInvariant, KnownInvariant, PTL
  DEF SafetySpec

(* So an active job keeps its request or a message.                         *)
LEMMA DriversKept ==
    ASSUME OneWorker, Faults \subseteq {"worker_crash", "redeliver"}
    PROVE  TypeInv /\ Known /\ OneHolder /\ SentOnce
            /\ RunningOrCancelled /\ OneActiveJob /\ NothingDropped /\ ActiveJobHasDriver
            /\ [Next]_vars => ActiveJobHasDriver'
<1> SUFFICES ASSUME TypeInv, Known, OneHolder, SentOnce,
                    RunningOrCancelled, OneActiveJob, NothingDropped,
                    ActiveJobHasDriver, [Next]_vars
             PROVE  ActiveJobHasDriver'
  OBVIOUS
<1> USE ConstantsAssumption, OneWorker, Faults \subseteq {"worker_crash", "redeliver"} DEF
      TypeInv, TypeOK, Hands, Known, JobStatus, RunStatus, ClientSteps, WorkerSteps,
      FinalStatus, DoneRun, Messages, dbVars, brokerVars, clientVars, workerVars, OneHolder,
      OneWorker, SentOnce, Sending, RunningOrCancelled, NothingDropped,
      ActiveJobHasDriver, RevokedSettled, HandedOn, MessageFor, RequestFor, Settled
<1>1. ASSUME NEW c \in Clients, NEW m \in Monitors, CheckNoActiveJob(c, m) PROVE ActiveJobHasDriver'
  BY <1>1 DEF CheckNoActiveJob
<1>2. ASSUME NEW c \in Clients, NEW j \in Jobs, InsertJob(c, j) PROVE ActiveJobHasDriver'
  BY <1>2 DEF InsertJob
<1>3. ASSUME NEW c \in Clients, InsertConflict(c) PROVE ActiveJobHasDriver'
  BY <1>3 DEF InsertConflict, EndRequest
<1>4. ASSUME NEW c \in Clients, SendTask(c) PROVE ActiveJobHasDriver'
  <2> DEFINE n == [job |-> cjob[c], retries |-> 0, nth |-> sent[cjob[c]]]
  <2>1. /\ n.job = cjob[c]
        /\ queue' = queue \cup {n} /\ unacked' = unacked
        /\ jobStatus' = jobStatus /\ revoked' = revoked /\ wpc' = wpc /\ wmsg' = wmsg
        /\ cpc' = [cpc EXCEPT ![c] = "idle"] /\ cjob' = [cjob EXCEPT ![c] = NoJob]
        /\ cpc[c] = "send"
    BY <1>4 DEF SendTask, EndRequest, Publish
  <2> HIDE DEF n
  <2>2. \E m \in queue' \cup unacked' : m.job = cjob[c]
    BY <2>1
  <2>3. \A j \in Jobs : /\ MessageFor(j) => MessageFor(j)'
                     /\ j # cjob[c] /\ RequestFor(j) => RequestFor(j)'
    BY <2>1
  <2> QED
    BY <2>1, <2>2, <2>3
<1>5. ASSUME NEW c \in Clients, SendRaises(c) PROVE ActiveJobHasDriver'
  BY <1>5 DEF SendRaises, Publish, Fault
<1>6. ASSUME NEW c \in Clients, MarkEnqueueFailed(c) PROVE ActiveJobHasDriver'
  BY <1>6 DEF MarkEnqueueFailed, EndRequest, Fault
<1>7. ASSUME NEW c \in Clients, NEW j \in Jobs, CancelReadJob(c, j) PROVE ActiveJobHasDriver'
  BY <1>7 DEF CancelReadJob
<1>8. ASSUME NEW c \in Clients, CancelReadRun(c) PROVE ActiveJobHasDriver'
  BY <1>8 DEF CancelReadRun
<1>9. ASSUME NEW c \in Clients, CancelCommit(c) PROVE ActiveJobHasDriver'
  BY <1>9 DEF CancelCommit
<1>10. ASSUME NEW c \in Clients, Revoke(c) PROVE ActiveJobHasDriver'
  BY <1>10 DEF Revoke, EndRequest
<1>11. ASSUME NEW c \in Clients, ApiCrash(c) PROVE ActiveJobHasDriver'
  BY <1>11 DEF ApiCrash, EndRequest, Fault
<1>12. ASSUME NEW w \in Workers, NEW m \in queue, Receive(w, m) PROVE ActiveJobHasDriver'
  BY <1>12 DEF Receive
<1>13. ASSUME NEW w \in Workers, NEW m \in queue, DropRevoked(w, m) PROVE ActiveJobHasDriver'
  BY <1>13 DEF DropRevoked
<1>14. ASSUME NEW w \in Workers, StartWorkflow(w) PROVE ActiveJobHasDriver'
  BY <1>14 DEF StartWorkflow, WorkerGoto
<1>15. ASSUME NEW w \in Workers, CheckCancelled(w) PROVE ActiveJobHasDriver'
  BY <1>15 DEF CheckCancelled, WorkerGoto
<1>16. ASSUME NEW w \in Workers, NEW outcome \in DoneRun, Finish(w, outcome) PROVE ActiveJobHasDriver'
  BY <1>16 DEF Finish, WorkerGoto
<1>17. ASSUME NEW w \in Workers, TransientError(w) PROVE ActiveJobHasDriver'
  BY <1>17 DEF TransientError, WorkerGoto
<1>18. ASSUME NEW w \in Workers, WorkflowError(w) PROVE ActiveJobHasDriver'
  BY <1>18 DEF WorkflowError, WorkerGoto, Fault
<1>19. ASSUME NEW w \in Workers, MarkRetryPending(w) PROVE ActiveJobHasDriver'
  BY <1>19 DEF MarkRetryPending, WorkerGoto, Fault
<1>20. ASSUME NEW w \in Workers, Republish(w) PROVE ActiveJobHasDriver'
  <2> DEFINE k == wmsg[w].job
  <2> DEFINE n == [job |-> k, retries |-> wmsg[w].retries + 1, nth |-> sent[k]]
  <2>1. /\ n.job = k /\ n.nth = sent[k]
        /\ queue' = queue \cup {n} /\ unacked' = unacked
        /\ jobStatus' = jobStatus /\ revoked' = revoked /\ wmsg' = wmsg
        /\ wpc' = [wpc EXCEPT ![w] = "ack"] /\ cpc' = cpc /\ cjob' = cjob
        /\ wpc[w] = "republish"
    BY <1>20 DEF Republish, WorkerGoto, Fault, Publish
  <2> HIDE DEF n
  <2>2. \A j \in Jobs : /\ MessageFor(j) => MessageFor(j)'
                     /\ RequestFor(j) => RequestFor(j)'
    BY <2>1
  <2> QED
    BY <2>1, <2>2
<1>21. ASSUME NEW w \in Workers, MarkFailed(w) PROVE ActiveJobHasDriver'
  BY <1>21 DEF MarkFailed, MarkEnded, WorkerGoto, Fault
<1>22. ASSUME NEW w \in Workers, MarkCancelled(w) PROVE ActiveJobHasDriver'
  BY <1>22 DEF MarkCancelled, MarkEnded, WorkerGoto, Fault
<1>23. ASSUME NEW w \in Workers, Ack(w) PROVE ActiveJobHasDriver'
  BY <1>23 DEF Ack, LetGo
<1>24. ASSUME NEW w \in Workers, WorkerCrash(w) PROVE ActiveJobHasDriver'
  BY <1>24 DEF WorkerCrash, LetGo, Fault
<1>25. ASSUME NEW m \in unacked, Restore(m) PROVE ActiveJobHasDriver'
  BY <1>25 DEF Restore, HeldBy
<1>26. ASSUME NEW m \in unacked, Redeliver(m) PROVE ActiveJobHasDriver'
  BY <1>26 DEF Redeliver, HeldBy, Fault
<1>27. CASE UNCHANGED vars
  BY <1>27 DEF vars
<1> HIDE DEF TypeInv, TypeOK, Hands, Known, JobStatus, RunStatus, ClientSteps, WorkerSteps,
      FinalStatus, DoneRun, Messages, dbVars, brokerVars, clientVars, workerVars, OneHolder,
      OneWorker, SentOnce, Sending, RunningOrCancelled, NothingDropped,
      ActiveJobHasDriver, RevokedSettled, HandedOn, MessageFor, RequestFor, Settled
<1> QED
  BY <1>1, <1>2, <1>3, <1>4, <1>5, <1>6, <1>7, <1>8, <1>9, <1>10, <1>11, <1>12, <1>13, <1>14,
     <1>15, <1>16, <1>17, <1>18, <1>19, <1>20, <1>21, <1>22, <1>23, <1>24, <1>25, <1>26, <1>27
     DEF Next, NewRequest, RequestStep, WorkerStep

(* With one worker that may die at any point of a task no active job is     *)
(* stranded: late acknowledgement keeps a message until the job is settled  *)
(* or has been published again.                                             *)
THEOREM ActiveJobHasDriverOfOneWorker ==
    ASSUME OneWorker, Faults \subseteq {"worker_crash", "redeliver"}
    PROVE  SafetySpec => []ActiveJobHasDriver
<1>1. Init => ActiveJobHasDriver
  BY DEF Init, ActiveJobHasDriver
<1>2. /\ "send_ambiguous" \notin Faults
      /\ Faults \subseteq {"api_crash", "worker_crash", "redeliver"}
  OBVIOUS
<1> QED
  BY <1>1, <1>2, DriversKept, NothingDroppedInvariant, OneWorkerInvariant, TypeInvariant,
     KnownInvariant, OneActiveJobAlways, PTL DEF SafetySpec
-----------------------------------------------------------------------------
(* A monitor without an active job has none; with one it is told by its     *)
(* message; and the index allows no second.                                 *)
LEMMA JobOfActive ==
    ASSUME OneActiveJob, NEW j \in Jobs, Active(j)
    PROVE  JobOf(jobMonitor[j]) = IF MessageFor(j) THEN "sent" ELSE "unsent"
<1> DEFINE current == {k \in Jobs : jobMonitor[k] = jobMonitor[j] /\ Active(k)}
<1>1. current = {j}
  BY DEF OneActiveJob
<1>2. JobOf(jobMonitor[j]) = IF current = {} THEN "none"
          ELSE IF \E k \in current : MessageFor(k) THEN "sent" ELSE "unsent"
  BY DEF JobOf
<1> HIDE DEF current
<1> QED
  BY <1>1, <1>2

LEMMA JobOfActiveNext ==
    ASSUME OneActiveJob', NEW j \in Jobs, Active(j)', NEW m, jobMonitor'[j] = m
    PROVE  JobOf(m)' = IF MessageFor(j)' THEN "sent" ELSE "unsent"
<1> DEFINE current == {k \in Jobs : jobMonitor'[k] = m /\ Active(k)'}
<1>1. current = {j}
  BY DEF OneActiveJob
<1>2. JobOf(m)' = IF current = {} THEN "none"
          ELSE IF \E k \in current : MessageFor(k)' THEN "sent" ELSE "unsent"
  BY DEF JobOf
<1> HIDE DEF current
<1> QED
  BY <1>1, <1>2

LEMMA JobOfNone ==
    ASSUME NEW m, \A j \in Jobs : jobMonitor[j] = m => ~ Active(j)
    PROVE  JobOf(m) = "none"
  BY DEF JobOf

LEMMA JobOfNoneNext ==
    ASSUME NEW m, \A j \in Jobs : jobMonitor'[j] = m => ~ Active(j)'
    PROVE  JobOf(m)' = "none"
<1> DEFINE current == {k \in Jobs : jobMonitor'[k] = m /\ Active(k)'}
<1>1. current = {}
  OBVIOUS
<1>2. JobOf(m)' = IF current = {} THEN "none"
          ELSE IF \E k \in current : MessageFor(k)' THEN "sent" ELSE "unsent"
  BY DEF JobOf
<1> HIDE DEF current
<1> QED
  BY <1>1, <1>2

(* A monitor none of whose jobs changes looks the same.                     *)
LEMMA JobOfSame ==
    ASSUME NEW m,
           \A j \in Jobs : /\ jobMonitor'[j] = m /\ Active(j)' <=> jobMonitor[j] = m /\ Active(j)
                           /\ jobMonitor[j] = m /\ Active(j) => (MessageFor(j)' <=> MessageFor(j))
    PROVE  JobOf(m)' = JobOf(m)
<1> DEFINE current == {k \in Jobs : jobMonitor[k] = m /\ Active(k)}
           later   == {k \in Jobs : jobMonitor'[k] = m /\ Active(k)'}
<1>1. later = current
  OBVIOUS
<1>2. JobOf(m) = IF current = {} THEN "none"
          ELSE IF \E k \in current : MessageFor(k) THEN "sent" ELSE "unsent"
  BY DEF JobOf
<1>3. JobOf(m)' = IF later = {} THEN "none"
          ELSE IF \E k \in later : MessageFor(k)' THEN "sent" ELSE "unsent"
  BY DEF JobOf
<1>4. \A k \in current : MessageFor(k)' <=> MessageFor(k)
  OBVIOUS
<1> HIDE DEF current, later
<1> QED
  BY <1>1, <1>2, <1>3, <1>4

(* What others than job j of monitor m look like does not change.           *)
JobsBut(j) ==
    \A k \in Jobs \ {j} : /\ jobMonitor'[k] = jobMonitor[k]
                          /\ Active(k)' <=> Active(k)
                          /\ Active(k) => (MessageFor(k)' <=> MessageFor(k))

LEMMA OneJobChanges ==
    ASSUME NEW j \in Jobs, NEW m \in Monitors, JobsBut(j), NEW v,
           Active(j) => jobMonitor[j] = m, Active(j)' => jobMonitor'[j] = m,
           JobOf(m)' = v
    PROVE  JobsOfMonitors' = [JobsOfMonitors EXCEPT ![m] = v]
<1>1. \A n \in Monitors \ {m} : JobOf(n)' = JobOf(n)
  BY JobOfSame DEF JobsBut
<1> QED
  BY <1>1 DEF JobsOfMonitors

LEMMA NoJobChanges ==
    ASSUME UNCHANGED jobMonitor,
           \A j \in Jobs : /\ Active(j)' <=> Active(j)
                           /\ Active(j) => (MessageFor(j)' <=> MessageFor(j))
    PROVE  JobsOfMonitors' = JobsOfMonitors
<1>1. \A n \in Monitors : JobOf(n)' = JobOf(n)
  BY JobOfSame
<1> QED
  BY <1>1 DEF JobsOfMonitors

(* Who trails.                                                              *)
LEMMA TrailingSame ==
    ASSUME \A w \in Workers, m \in Monitors : TrailsIn(w, m)' <=> TrailsIn(w, m)
    PROVE  Trailing' = Trailing
  BY DEF Trailing

LEMMA TrailingLeft ==
    ASSUME NEW v \in Workers, NEW n \in Monitors,
           \A w \in Workers \ {v}, m \in Monitors : TrailsIn(w, m)' <=> TrailsIn(w, m),
           \A m \in Monitors : ~ TrailsIn(v, m)',
           \A m \in Monitors : TrailsIn(v, m) => m = n
    PROVE  Trailing' \in {Trailing, Trailing \ {n}}
<1>1. \A m \in Monitors \ {n} : m \in Trailing' <=> m \in Trailing
  BY DEF Trailing
<1>2. Trailing \subseteq Monitors /\ Trailing' \subseteq Monitors
  BY DEF Trailing
<1>3. n \in Trailing' => n \in Trailing
  BY DEF Trailing
<1> QED
  BY <1>1, <1>2, <1>3

LEMMA TrailingGrows ==
    ASSUME NEW n \in Monitors,
           \A w \in Workers, m \in Monitors : TrailsIn(w, m) => TrailsIn(w, m)',
           \A w \in Workers, m \in Monitors : TrailsIn(w, m)' => TrailsIn(w, m) \/ m = n
    PROVE  Trailing' \in {Trailing, Trailing \cup {n}}
<1>1. \A m \in Monitors \ {n} : m \in Trailing' <=> m \in Trailing
  BY DEF Trailing
<1>2. Trailing \subseteq Monitors /\ Trailing' \subseteq Monitors
  BY DEF Trailing
<1>3. n \in Trailing => n \in Trailing'
  BY DEF Trailing
<1> QED
  BY <1>1, <1>2, <1>3

(* What the slots rest on: whoever works holds a message, nobody else       *)
(* works on its job or is about to send it, and no message goes before its  *)
(* job is over or has another.                                              *)
Apart ==
    /\ \A v, w \in Workers :
          (v # w /\ Executing(v) /\ Executing(w)) => wmsg[v].job # wmsg[w].job
    /\ \A c \in Clients, w \in Workers :
          (Sending(c) /\ Executing(w)) => cjob[c] # wmsg[w].job

Held == \A w \in Workers : wpc[w] # "idle" => wmsg[w] \in unacked

SlotInv == Held /\ Apart /\ RunningOrCancelled /\ RevokedSettled /\ HandedOn

(* What the types say of a step by worker w.                                *)
LEMMA JobInHand ==
    ASSUME TypeInv, Known, Held, NEW w \in Workers, wpc[w] # "idle"
    PROVE  /\ wmsg[w] \in Messages
           /\ wmsg[w].job \in Jobs
           /\ jobStatus[wmsg[w].job] # "none"
           /\ jobMonitor[wmsg[w].job] \in Monitors
           /\ MessageFor(wmsg[w].job)
  BY DEF TypeInv, TypeOK, Hands, Known, Held, Messages, MessageFor

LEMMA ActiveOrOver ==
    ASSUME TypeInv, NEW j \in Jobs
    PROVE  /\ Settled(j) => ~ Active(j)
           /\ ~ Settled(j) => jobStatus[j] = "none" \/ Active(j)
  BY DEF TypeInv, TypeOK, JobStatus, FinalStatus, Settled, Active

(* A step of worker w that keeps its message and changes no row keeps the   *)
(* slots if w executes before and after, or not.                            *)
LEMMA QuietStep ==
    ASSUME UNCHANGED <<jobStatus, jobMonitor, wmsg>>,
           \A j \in Jobs : Active(j) => (MessageFor(j)' <=> MessageFor(j)),
           \A w \in Workers : Executing(w)' <=> Executing(w)
    PROVE  UNCHANGED Slots!slotVars
<1>1. \A j \in Jobs : Active(j)' <=> Active(j)
  BY DEF Active
<1>2. \A w \in Workers, m \in Monitors : TrailsIn(w, m)' <=> TrailsIn(w, m)
  BY DEF TrailsIn, Active
<1>3. JobsOfMonitors' = JobsOfMonitors
  BY <1>1, NoJobChanges
<1>4. Trailing' = Trailing
  BY <1>2, TrailingSame
<1> QED
  BY <1>3, <1>4 DEF Slots!slotVars

LEMMA InsertTakes ==
    ASSUME TypeInv, Known, OneActiveJob', Held, NEW c \in Clients, NEW j \in Jobs, InsertJob(c, j)
    PROVE  Slots!Take(cmon[c])
<1> USE DEF InsertJob, brokerVars, workerVars
<1> DEFINE m == cmon[c]
<1>1. m \in Monitors /\ jobStatus \in [Jobs -> JobStatus]
      /\ jobMonitor \in [Jobs -> Monitors \cup {NoMonitor}]
  BY DEF TypeInv, TypeOK, Hands
<1>2. \A k \in Jobs : MessageFor(k)' <=> MessageFor(k)
  BY DEF MessageFor
<1>3. JobsBut(j)
  BY <1>1, <1>2 DEF JobsBut, Active
<1>4. ~ MessageFor(j)
  BY DEF Known, MessageFor
<1>5. ~ Active(j) /\ Active(j)' /\ jobMonitor'[j] = m
  BY <1>1 DEF Active
<1>6. JobOf(m)' = "unsent"
  BY <1>2, <1>4, <1>5, JobOfActiveNext
<1>7. JobOf(m) = "none"
  <2>1. \A k \in Jobs : jobMonitor[k] = m => ~ Active(k)
    BY <1>5 DEF IndexAllows
  <2> QED
    BY <2>1, JobOfNone
<1>8. JobsOfMonitors' = [JobsOfMonitors EXCEPT ![m] = "unsent"]
  BY <1>1, <1>3, <1>5, <1>6, OneJobChanges
<1>9. Trailing' = Trailing
  <2>1. \A w \in Workers : Executing(w) => wmsg[w].job \in Jobs \ {j}
    BY JobInHand DEF Executing
  <2>2. \A w \in Workers, n \in Monitors : TrailsIn(w, n)' <=> TrailsIn(w, n)
    BY <1>1, <2>1 DEF TrailsIn, Executing, Active
  <2> QED
    BY <2>2, TrailingSame
<1> QED
  BY <1>1, <1>7, <1>8, <1>9 DEF Slots!Take, JobsOfMonitors

(* A publication takes an unsent job to sent and leaves every other.        *)
LEMMA SendSends ==
    ASSUME TypeInv, Known, OneActiveJob, OneActiveJob', NEW j \in Jobs,
           jobStatus[j] # "none", UNCHANGED <<dbVars, unacked>>,
           NEW n, n.job = j, queue' = queue \cup {n},
           Trailing' = Trailing
    PROVE  \/ UNCHANGED Slots!slotVars
           \/ Slots!Send(jobMonitor[j])
<1> DEFINE m == jobMonitor[j]
<1>1. m \in Monitors
  BY DEF TypeInv, TypeOK, Known
<1>2. MessageFor(j)' /\ \A k \in Jobs \ {j} : MessageFor(k)' <=> MessageFor(k)
  BY DEF MessageFor
<1>3. UNCHANGED <<jobStatus, jobMonitor>> /\ \A k \in Jobs : Active(k)' <=> Active(k)
  BY DEF dbVars, Active
<1>4. JobsBut(j)
  BY <1>2, <1>3 DEF JobsBut
<1>5. CASE ~ Active(j) \/ MessageFor(j)
  <2>1. JobsOfMonitors' = JobsOfMonitors
    BY <1>2, <1>3, <1>5, NoJobChanges
  <2> QED
    BY <2>1 DEF Slots!slotVars
<1>6. CASE Active(j) /\ ~ MessageFor(j)
  <2>1. JobOf(m) = "unsent"
    BY <1>6, JobOfActive
  <2>2. JobOf(m)' = "sent"
    BY <1>2, <1>3, <1>6, JobOfActiveNext
  <2>3. JobsOfMonitors' = [JobsOfMonitors EXCEPT ![m] = "sent"]
    BY <1>1, <1>3, <1>4, <2>2, OneJobChanges
  <2> QED
    BY <1>1, <2>1, <2>3 DEF Slots!Send, JobsOfMonitors
<1> QED
  BY <1>5, <1>6

(* A request ends a job: somebody who executes it trails.                   *)
LEMMA RequestCancels ==
    ASSUME TypeInv, Known, OneActiveJob, Held, Apart, NEW j \in Jobs, jobStatus[j] # "none",
           NEW final \in FinalStatus, jobStatus' = [jobStatus EXCEPT ![j] = final],
           UNCHANGED <<jobMonitor, queue, unacked, workerVars>>
    PROVE  \/ UNCHANGED Slots!slotVars
           \/ Slots!Cancel(jobMonitor[j])
<1> DEFINE m == jobMonitor[j]
<1>1. m \in Monitors /\ jobStatus \in [Jobs -> JobStatus]
  BY DEF TypeInv, TypeOK, Known
<1>2. \A k \in Jobs : MessageFor(k)' <=> MessageFor(k)
  BY DEF MessageFor
<1>3. ~ Active(j)' /\ \A k \in Jobs \ {j} : Active(k)' <=> Active(k)
  BY <1>1 DEF Active, FinalStatus
<1>4. JobsBut(j)
  BY <1>2, <1>3 DEF JobsBut
<1>5. \A w \in Workers : Executing(w)' <=> Executing(w)
  BY DEF Executing, workerVars
<1>6. \A w \in Workers : Executing(w) => wmsg[w].job \in Jobs
  BY JobInHand DEF Executing
<1>7. CASE ~ Active(j)
  <2>1. JobsOfMonitors' = JobsOfMonitors
    BY <1>2, <1>3, <1>7, NoJobChanges
  <2>2. \A w \in Workers, n \in Monitors : TrailsIn(w, n)' <=> TrailsIn(w, n)
    BY <1>3, <1>5, <1>6, <1>7 DEF TrailsIn, workerVars
  <2> QED
    BY <2>1, <2>2, TrailingSame DEF Slots!slotVars
<1>8. CASE Active(j)
  <2>1. JobOf(m) = IF MessageFor(j) THEN "sent" ELSE "unsent"
    BY <1>8, JobOfActive
  <2>2. JobOf(m)' = "none"
    <3>1. \A k \in Jobs : jobMonitor'[k] = m => ~ Active(k)'
      BY <1>3, <1>8 DEF OneActiveJob
    <3> QED
      BY <3>1, JobOfNoneNext
  <2>3. JobsOfMonitors' = [JobsOfMonitors EXCEPT ![m] = "none"]
    BY <1>1, <1>3, <1>4, <2>2, OneJobChanges
  <2>4. \A w \in Workers, n \in Monitors : TrailsIn(w, n) => TrailsIn(w, n)'
    BY <1>3, <1>5, <1>6, <1>8 DEF TrailsIn, workerVars
  <2>5. \A w \in Workers, n \in Monitors : TrailsIn(w, n)' => TrailsIn(w, n) \/ n = m
    BY <1>3, <1>5, <1>6 DEF TrailsIn, workerVars
  <2>6. Trailing' \in {Trailing, Trailing \cup {m}}
    BY <1>1, <2>4, <2>5, TrailingGrows
  <2>7. CASE ~ MessageFor(j)
    <3>1. \A w \in Workers : Executing(w) => wmsg[w].job # j
      BY <2>7, JobInHand DEF Executing
    <3>2. \A w \in Workers, n \in Monitors : TrailsIn(w, n)' <=> TrailsIn(w, n)
      BY <1>3, <1>5, <1>6, <3>1 DEF TrailsIn, workerVars
    <3> QED
      BY <1>1, <2>1, <2>3, <2>7, <3>2, TrailingSame DEF Slots!Cancel, JobsOfMonitors
  <2>8. CASE MessageFor(j)
    BY <1>1, <2>1, <2>3, <2>6, <2>8 DEF Slots!Cancel, JobsOfMonitors
  <2> QED
    BY <2>7, <2>8
<1> QED
  BY <1>7, <1>8

(* A worker ends its job, or ends one again that is over.                   *)
LEMMA WorkerSettles ==
    ASSUME TypeInv, Known, OneActiveJob, Held, Apart, NEW w \in Workers, Executing(w),
           NEW j, j = wmsg[w].job, NEW m, m = jobMonitor[j],
           NEW final \in FinalStatus, jobStatus' = [jobStatus EXCEPT ![j] = final],
           UNCHANGED <<jobMonitor, queue, unacked>>, WorkerGoto(w, "ack")
    PROVE  Slots!Settle(m)
<1>1. j \in Jobs /\ m \in Monitors /\ MessageFor(j) /\ jobStatus \in [Jobs -> JobStatus]
  BY JobInHand DEF TypeInv, TypeOK, Executing
<1>2. \A k \in Jobs : MessageFor(k)' <=> MessageFor(k)
  BY DEF MessageFor
<1>3. ~ Active(j)' /\ \A k \in Jobs \ {j} : Active(k)' <=> Active(k)
  BY <1>1 DEF Active, FinalStatus
<1>4. JobsBut(j)
  BY <1>2, <1>3 DEF JobsBut
<1>5. /\ ~ Executing(w)' /\ wmsg' = wmsg
      /\ \A v \in Workers \ {w} : Executing(v)' <=> Executing(v)
  BY DEF Executing, WorkerGoto, TypeInv, TypeOK
<1>6. \A v \in Workers \ {w} : Executing(v) => wmsg[v].job \in Jobs \ {j}
  BY JobInHand DEF Executing, Apart
<1>7. \A v \in Workers \ {w}, n \in Monitors : TrailsIn(v, n)' <=> TrailsIn(v, n)
  BY <1>3, <1>5, <1>6 DEF TrailsIn
<1>8. \A n \in Monitors : ~ TrailsIn(w, n)' /\ (TrailsIn(w, n) => n = m)
  BY <1>5 DEF TrailsIn
<1>9. CASE ~ Active(j)
  <2>1. JobsOfMonitors' = JobsOfMonitors
    BY <1>2, <1>3, <1>9, NoJobChanges
  <2>2. Trailing' \in {Trailing, Trailing \ {m}}
    BY <1>1, <1>7, <1>8, TrailingLeft
  <2>3. m \in Trailing
    BY <1>1, <1>9 DEF Trailing, TrailsIn
  <2> QED
    BY <2>1, <2>2, <2>3 DEF Slots!Settle
<1>10. CASE Active(j)
  <2>1. JobOf(m) = "sent"
    BY <1>1, <1>10, JobOfActive
  <2>2. JobOf(m)' = "none"
    <3>1. \A k \in Jobs : jobMonitor'[k] = m => ~ Active(k)'
      BY <1>1, <1>3, <1>10 DEF OneActiveJob
    <3> QED
      BY <3>1, JobOfNoneNext
  <2>3. JobsOfMonitors' = [JobsOfMonitors EXCEPT ![m] = "none"]
    BY <1>1, <1>3, <1>4, <2>2, OneJobChanges
  <2>4. \A v \in Workers, n \in Monitors : TrailsIn(v, n)' <=> TrailsIn(v, n)
    BY <1>7, <1>8, <1>10 DEF TrailsIn
  <2> QED
    BY <1>1, <2>1, <2>3, <2>4, TrailingSame DEF Slots!Settle, JobsOfMonitors
<1> QED
  BY <1>9, <1>10

(* A worker lets go of its job without settling it.                         *)
LEMMA WorkerLeaves ==
    ASSUME TypeInv, Known, Held, NEW w \in Workers, wpc[w] # "idle",
           UNCHANGED <<jobMonitor>>,
           \A j \in Jobs : /\ Active(j)' <=> Active(j)
                           /\ Active(j) => (MessageFor(j)' <=> MessageFor(j)),
           \A v \in Workers \ {w} : /\ Executing(v)' <=> Executing(v)
                                    /\ wmsg'[v] = wmsg[v],
           ~ Executing(w)'
    PROVE  UNCHANGED Slots!slotVars \/ Slots!Leave(jobMonitor[wmsg[w].job])
<1> DEFINE m == jobMonitor[wmsg[w].job]
<1>1. m \in Monitors
  BY JobInHand
<1>2. \A v \in Workers \ {w}, n \in Monitors : TrailsIn(v, n)' <=> TrailsIn(v, n)
  <2>1. \A v \in Workers : Executing(v) => wmsg[v].job \in Jobs
    BY JobInHand DEF Executing
  <2> QED
    BY <2>1 DEF TrailsIn
<1>3. \A n \in Monitors : ~ TrailsIn(w, n)' /\ (TrailsIn(w, n) => n = m)
  BY DEF TrailsIn
<1>4. Trailing' \in {Trailing, Trailing \ {m}}
  BY <1>1, <1>2, <1>3, TrailingLeft
<1>5. JobsOfMonitors' = JobsOfMonitors
  BY NoJobChanges
<1> QED
  BY <1>4, <1>5 DEF Slots!slotVars, Slots!Leave

(* Writing a final status settles the slot of the worker's job.             *)
LEMMA FinalWrites ==
    ASSUME TypeInv, Known, OneActiveJob, SlotInv, "db_error" \notin Faults, NEW w \in Workers,
           (\E outcome \in DoneRun : Finish(w, outcome)) \/ MarkFailed(w) \/ MarkCancelled(w)
    PROVE  Slots!Settle(jobMonitor[wmsg[w].job])
<1> DEFINE To(final) == jobStatus' = [jobStatus EXCEPT ![wmsg[w].job] = final]
<1>1. /\ Executing(w) /\ WorkerGoto(w, "ack")
      /\ UNCHANGED <<jobMonitor, queue, unacked>>
      /\ To("succeeded") \/ To("failed") \/ To("cancelled")
  BY DEF Finish, MarkFailed, MarkCancelled, MarkEnded, Fault, Executing, brokerVars
<1>2. PICK final \in FinalStatus : To(final)
  BY <1>1 DEF FinalStatus
<1> QED
  BY <1>1, <1>2, WorkerSettles DEF SlotInv

LEMMA WhoSettles ==
    ASSUME TypeInv, [Next]_vars, NEW w \in Workers, Settles(w)
    PROVE  (\E outcome \in DoneRun : Finish(w, outcome)) \/ MarkFailed(w) \/ MarkCancelled(w)
<1> USE DEF Settles, TypeInv, TypeOK, WorkerGoto, LetGo, workerVars
<1>1. ASSUME NEW c \in Clients, NewRequest(c) \/ RequestStep(c) \/ ApiCrash(c) PROVE FALSE
  BY <1>1 DEF NewRequest, RequestStep, ApiCrash, CheckNoActiveJob, CancelReadJob, InsertJob,
     InsertConflict, SendTask, SendRaises, MarkEnqueueFailed, CancelReadRun, CancelCommit, Revoke
<1>2. ASSUME NEW m \in unacked, Restore(m) \/ Redeliver(m) PROVE FALSE
  BY <1>2 DEF Restore, Redeliver
<1>3. CASE UNCHANGED vars
  BY <1>3 DEF vars
<1>4. ASSUME NEW v \in Workers, WorkerStep(v) \/ WorkerCrash(v),
             ~ (\E outcome \in DoneRun : Finish(v, outcome)), ~ MarkFailed(v), ~ MarkCancelled(v)
      PROVE  FALSE
  BY <1>4 DEF WorkerStep, WorkerCrash, Receive, DropRevoked, StartWorkflow, CheckCancelled,
     TransientError, WorkflowError, MarkRetryPending, Republish, Ack
<1>5. ASSUME NEW v \in Workers,
             (\E outcome \in DoneRun : Finish(v, outcome)) \/ MarkFailed(v) \/ MarkCancelled(v)
      PROVE  v = w
  BY <1>5 DEF Finish, MarkFailed, MarkCancelled, MarkEnded
<1> QED
  BY <1>1, <1>2, <1>3, <1>4, <1>5 DEF Next

(* Every step is one of the slots or leaves them.                           *)
LEMMA SlotStep ==
    ASSUME Faults \subseteq {"api_crash", "worker_crash", "redeliver"},
           TypeInv, Known, OneActiveJob, OneActiveJob', SlotInv, [Next]_vars
    PROVE  [Slots!Next]_(Slots!slotVars)
<1> DEFINE Kept == [Slots!Next]_(Slots!slotVars)
<1> USE Faults \subseteq {"api_crash", "worker_crash", "redeliver"}
<1>t. /\ jobStatus \in [Jobs -> JobStatus] /\ wpc \in [Workers -> WorkerSteps]
      /\ \A c \in Clients : cpc[c] \notin {"idle", "insert"} =>
             /\ cjob[c] \in Jobs
             /\ jobStatus[cjob[c]] # "none"
             /\ jobMonitor[cjob[c]] \in Monitors
  BY DEF TypeInv, TypeOK, Hands, Known
<1>q. ASSUME UNCHANGED <<jobStatus, jobMonitor, queue, unacked, wpc, wmsg>> PROVE Kept
  <2>1. \A j \in Jobs : MessageFor(j)' <=> MessageFor(j)
    BY <1>q DEF MessageFor
  <2>2. \A w \in Workers : Executing(w)' <=> Executing(w)
    BY <1>q DEF Executing
  <2> QED
    BY <1>q, <2>1, <2>2, QuietStep
<1>1. ASSUME NEW c \in Clients, NEW m \in Monitors, CheckNoActiveJob(c, m) PROVE Kept
  BY <1>1, <1>q DEF CheckNoActiveJob, dbVars, brokerVars, workerVars
<1>2. ASSUME NEW c \in Clients, NEW j \in Jobs, InsertJob(c, j) PROVE Kept
  <2>1. Slots!Take(cmon[c]) /\ cmon[c] \in Monitors
    BY <1>2, InsertTakes DEF SlotInv, InsertJob, TypeInv, Hands
  <2> QED
    BY <2>1 DEF Slots!Next
<1>3. ASSUME NEW c \in Clients, InsertConflict(c) PROVE Kept
  BY <1>3, <1>q DEF InsertConflict, dbVars, brokerVars, workerVars
<1>4. ASSUME NEW c \in Clients, SendTask(c) PROVE Kept
  <2> DEFINE n == [job |-> cjob[c], retries |-> 0, nth |-> sent[cjob[c]]]
  <2>1. /\ queue' = queue \cup {n} /\ n.job = cjob[c] /\ cpc[c] = "send"
        /\ UNCHANGED <<dbVars, unacked, workerVars>>
    BY <1>4 DEF SendTask, Publish
  <2>2. Trailing' = Trailing
    BY <2>1 DEF Trailing, TrailsIn, Executing, Active, dbVars, workerVars
  <2> HIDE DEF n
  <2>3. UNCHANGED Slots!slotVars \/ Slots!Send(jobMonitor[cjob[c]])
    BY <1>t, <2>1, <2>2, SendSends
  <2> QED
    BY <1>t, <2>1, <2>3 DEF Slots!Next
<1>5. ASSUME NEW c \in Clients, SendRaises(c) PROVE Kept
  BY <1>5, <1>q DEF SendRaises, Fault, dbVars, workerVars
<1>6. ASSUME NEW c \in Clients, MarkEnqueueFailed(c) PROVE Kept
  <2>1. /\ jobStatus' = [jobStatus EXCEPT ![cjob[c]] = "failed"] /\ cpc[c] = "failing"
        /\ UNCHANGED <<jobMonitor, queue, unacked, workerVars>>
    BY <1>6 DEF MarkEnqueueFailed, Fault, brokerVars
  <2>2. UNCHANGED Slots!slotVars \/ Slots!Cancel(jobMonitor[cjob[c]])
    BY <1>t, <2>1, RequestCancels DEF SlotInv, FinalStatus
  <2> QED
    BY <1>t, <2>1, <2>2 DEF Slots!Next
<1>7. ASSUME NEW c \in Clients, NEW j \in Jobs, CancelReadJob(c, j) PROVE Kept
  BY <1>7, <1>q DEF CancelReadJob, dbVars, brokerVars, workerVars
<1>8. ASSUME NEW c \in Clients, CancelReadRun(c) PROVE Kept
  BY <1>8, <1>q DEF CancelReadRun, dbVars, brokerVars, workerVars
<1>9. ASSUME NEW c \in Clients, CancelCommit(c) PROVE Kept
  <2>1. /\ jobStatus' = [jobStatus EXCEPT ![cjob[c]] = "cancelled"] /\ cpc[c] = "cancel_write"
        /\ UNCHANGED <<jobMonitor, queue, unacked, workerVars>>
    BY <1>9 DEF CancelCommit, brokerVars
  <2>2. UNCHANGED Slots!slotVars \/ Slots!Cancel(jobMonitor[cjob[c]])
    BY <1>t, <2>1, RequestCancels DEF SlotInv, FinalStatus
  <2> QED
    BY <1>t, <2>1, <2>2 DEF Slots!Next
<1>10. ASSUME NEW c \in Clients, Revoke(c) PROVE Kept
  BY <1>10, <1>q DEF Revoke, dbVars, workerVars
<1>11. ASSUME NEW c \in Clients, ApiCrash(c) PROVE Kept
  BY <1>11, <1>q DEF ApiCrash, dbVars, brokerVars, workerVars
<1>12. ASSUME NEW w \in Workers, NEW m \in queue, Receive(w, m) PROVE Kept
  <2>1. UNCHANGED <<jobStatus, jobMonitor>> /\ queue' \cup unacked' = queue \cup unacked
    BY <1>12 DEF Receive, dbVars
  <2>2. JobsOfMonitors' = JobsOfMonitors
    BY <2>1, NoJobChanges DEF MessageFor, Active
  <2>3. \A v \in Workers : /\ Executing(v)' <=> Executing(v)
                           /\ Executing(v) => wmsg'[v] = wmsg[v]
    BY <1>12, <1>t DEF Receive, Executing, TypeInv, TypeOK
  <2>4. Trailing' = Trailing
    BY <2>1, <2>3, TrailingSame DEF TrailsIn, Active
  <2> QED
    BY <2>2, <2>4 DEF Slots!slotVars
<1>13. ASSUME NEW w \in Workers, NEW m \in queue, DropRevoked(w, m) PROVE Kept
  <2>1. Settled(m.job) /\ m.job \in Jobs
    BY <1>13 DEF DropRevoked, SlotInv, RevokedSettled, TypeInv, TypeOK
  <2>2. UNCHANGED <<jobStatus, jobMonitor, wpc, wmsg, unacked>> /\ queue' = queue \ {m}
    BY <1>13 DEF DropRevoked, dbVars, workerVars
  <2>3. \A j \in Jobs : Active(j) => (MessageFor(j)' <=> MessageFor(j))
    BY <2>1, <2>2, ActiveOrOver DEF MessageFor
  <2>4. \A v \in Workers : Executing(v)' <=> Executing(v)
    BY <2>2 DEF Executing
  <2> QED
    BY <2>2, <2>3, <2>4, QuietStep
<1>14. ASSUME NEW w \in Workers, StartWorkflow(w) PROVE Kept
  <2> DEFINE j == wmsg[w].job
  <2>1. j \in Jobs /\ jobStatus[j] # "none"
    BY <1>14, JobInHand DEF StartWorkflow, SlotInv
  <2>2. UNCHANGED <<jobMonitor, queue, unacked, wmsg>>
    BY <1>14 DEF StartWorkflow, dbVars, brokerVars, WorkerGoto
  <2>3. \A k \in Jobs : Active(k)' <=> Active(k)
    <3>1. CASE Settled(j)
      BY <1>14, <3>1 DEF StartWorkflow, dbVars, Active
    <3>2. CASE ~ Settled(j)
      <4>1. jobStatus' = [jobStatus EXCEPT ![j] = "running"] /\ Active(j)
        BY <1>14, <2>1, <3>2, ActiveOrOver DEF StartWorkflow
      <4> QED
        BY <1>t, <2>1, <4>1 DEF Active
    <3> QED
      BY <3>1, <3>2
  <2>4. \A k \in Jobs : MessageFor(k)' <=> MessageFor(k)
    BY <2>2 DEF MessageFor
  <2>5. JobsOfMonitors' = JobsOfMonitors
    BY <2>2, <2>3, <2>4, NoJobChanges
  <2>6. \A v \in Workers \ {w} : Executing(v)' <=> Executing(v)
    BY <1>14, <1>t DEF StartWorkflow, WorkerGoto, Executing
  <2>7. ~ Executing(w) /\ (Executing(w)' => Active(j))
    BY <1>14, <1>t, <2>1, ActiveOrOver DEF StartWorkflow, WorkerGoto, Executing
  <2>8. \A v \in Workers : Executing(v) => wmsg[v].job \in Jobs
    BY JobInHand DEF Executing, SlotInv
  <2>9. \A v \in Workers, n \in Monitors : TrailsIn(v, n)' <=> TrailsIn(v, n)
    <3>1. \A v \in Workers \ {w}, n \in Monitors : TrailsIn(v, n)' <=> TrailsIn(v, n)
      BY <2>2, <2>3, <2>6, <2>8 DEF TrailsIn
    <3>2. \A n \in Monitors : ~ TrailsIn(w, n)' /\ ~ TrailsIn(w, n)
      BY <2>1, <2>2, <2>3, <2>7 DEF TrailsIn
    <3> QED
      BY <3>1, <3>2
  <2> QED
    BY <2>5, <2>9, TrailingSame DEF Slots!slotVars
<1>w. ASSUME UNCHANGED <<jobStatus, jobMonitor, queue, unacked, wmsg>>,
             \A w \in Workers : Executing(w)' <=> Executing(w)
      PROVE  Kept
  BY <1>w, QuietStep DEF MessageFor
<1>15. ASSUME NEW w \in Workers, CheckCancelled(w) PROVE Kept
  BY <1>15, <1>t, <1>w DEF CheckCancelled, WorkerGoto, dbVars, brokerVars, Executing
<1>16. ASSUME NEW w \in Workers, Settles(w) PROVE Kept
  <2>1. Slots!Settle(jobMonitor[wmsg[w].job])
    BY <1>16, WhoSettles, FinalWrites
  <2>2. jobMonitor[wmsg[w].job] \in Monitors
    BY <1>16, JobInHand DEF Settles, SlotInv
  <2> QED
    BY <2>1, <2>2 DEF Slots!Next
<1>17. ASSUME NEW w \in Workers, TransientError(w) PROVE Kept
  BY <1>17, <1>t, <1>w DEF TransientError, WorkerGoto, dbVars, brokerVars, Executing
<1>18. ASSUME NEW w \in Workers, WorkflowError(w) PROVE Kept
  BY <1>18, <1>t, <1>w DEF WorkflowError, WorkerGoto, Fault, dbVars, brokerVars, Executing
<1>19. ASSUME NEW w \in Workers, MarkRetryPending(w) PROVE Kept
  <2> DEFINE j == wmsg[w].job
  <2>1. j \in Jobs /\ jobStatus[j] \in {"running", "cancelled"} /\ wpc[w] = "retry"
    BY <1>19, JobInHand DEF MarkRetryPending, SlotInv, RunningOrCancelled
  <2>2. UNCHANGED <<jobMonitor, queue, unacked, wmsg>>
    BY <1>19 DEF MarkRetryPending, Fault, brokerVars, WorkerGoto
  <2>3. \A k \in Jobs : Active(k)' <=> Active(k)
    <3>1. CASE jobStatus' = jobStatus
      BY <3>1 DEF Active
    <3>2. CASE jobStatus' # jobStatus
      <4>1. jobStatus' = [jobStatus EXCEPT ![j] = "queued"] /\ Active(j)
        BY <1>19, <2>1, <3>2 DEF MarkRetryPending, Active
      <4> QED
        BY <1>t, <2>1, <4>1 DEF Active
    <3> QED
      BY <3>1, <3>2
  <2>4. \A k \in Jobs : MessageFor(k)' <=> MessageFor(k)
    BY <2>2 DEF MessageFor
  <2>5. /\ ~ Executing(w)'
        /\ \A v \in Workers \ {w} : Executing(v)' <=> Executing(v)
    BY <1>19, <1>t DEF MarkRetryPending, WorkerGoto, Fault, Executing
  <2>6. UNCHANGED Slots!slotVars \/ Slots!Leave(jobMonitor[j])
    BY <2>1, <2>2, <2>3, <2>4, <2>5, WorkerLeaves DEF SlotInv
  <2> QED
    BY <2>1, <2>6, JobInHand DEF Slots!Next, SlotInv
<1>20. ASSUME NEW w \in Workers, Republish(w) PROVE Kept
  <2> DEFINE n == [job |-> wmsg[w].job, retries |-> wmsg[w].retries + 1, nth |-> sent[wmsg[w].job]]
  <2>1. /\ queue' = queue \cup {n} /\ n.job = wmsg[w].job /\ wpc[w] = "republish"
        /\ UNCHANGED <<jobStatus, jobMonitor, unacked, wmsg>>
        /\ wpc' = [wpc EXCEPT ![w] = "ack"]
    BY <1>20 DEF Republish, Publish, Fault, WorkerGoto, dbVars
  <2> HIDE DEF n
  <2>2. wmsg[w].job \in Jobs /\ MessageFor(wmsg[w].job)
    BY <2>1, JobInHand DEF SlotInv
  <2>3. \A j \in Jobs : MessageFor(j)' <=> MessageFor(j)
    BY <2>1, <2>2 DEF MessageFor
  <2>4. \A v \in Workers : Executing(v)' <=> Executing(v)
    BY <1>t, <2>1 DEF Executing
  <2> QED
    BY <2>1, <2>3, <2>4, QuietStep
<1>23. ASSUME NEW w \in Workers, Ack(w) PROVE Kept
  <2>1. /\ UNCHANGED <<jobStatus, jobMonitor, queue>> /\ unacked' = unacked \ {wmsg[w]}
        /\ wpc[w] = "ack" /\ wpc' = [wpc EXCEPT ![w] = "idle"]
        /\ wmsg' = [wmsg EXCEPT ![w] = NoMsg]
    BY <1>23 DEF Ack, LetGo, dbVars
  <2>2. \A j \in Jobs : Active(j) => (MessageFor(j)' <=> MessageFor(j))
    <3> SUFFICES ASSUME NEW j \in Jobs, Active(j), MessageFor(j) PROVE MessageFor(j)'
      BY <2>1 DEF MessageFor
    <3>1. CASE j # wmsg[w].job
      BY <2>1, <3>1 DEF MessageFor
    <3>2. CASE j = wmsg[w].job
      <4>1. ~ Settled(j)
        BY ActiveOrOver
      <4>2. PICK m \in (queue \cup unacked) \ {wmsg[w]} : m.job = j
        BY <2>1, <3>2, <4>1 DEF SlotInv, HandedOn
      <4> QED
        BY <2>1, <4>2 DEF MessageFor
    <3> QED
      BY <3>1, <3>2
  <2>3. /\ ~ Executing(w)'
        /\ \A v \in Workers \ {w} : (Executing(v)' <=> Executing(v)) /\ wmsg'[v] = wmsg[v]
    BY <2>1, <1>t DEF Executing, TypeInv, TypeOK
  <2>4. \A j \in Jobs : Active(j)' <=> Active(j)
    BY <2>1 DEF Active
  <2>5. UNCHANGED Slots!slotVars \/ Slots!Leave(jobMonitor[wmsg[w].job])
    BY <2>1, <2>2, <2>3, <2>4, WorkerLeaves DEF SlotInv
  <2> QED
    BY <2>1, <2>5, JobInHand DEF Slots!Next, SlotInv
<1>24. ASSUME NEW w \in Workers, WorkerCrash(w) PROVE Kept
  <2>1. /\ UNCHANGED <<jobStatus, jobMonitor, queue, unacked>> /\ wpc[w] # "idle"
        /\ wpc' = [wpc EXCEPT ![w] = "idle"] /\ wmsg' = [wmsg EXCEPT ![w] = NoMsg]
    BY <1>24 DEF WorkerCrash, LetGo, dbVars, brokerVars
  <2>2. /\ ~ Executing(w)'
        /\ \A v \in Workers \ {w} : (Executing(v)' <=> Executing(v)) /\ wmsg'[v] = wmsg[v]
    BY <2>1, <1>t DEF Executing, TypeInv, TypeOK
  <2>3. \A j \in Jobs : (Active(j)' <=> Active(j)) /\ (MessageFor(j)' <=> MessageFor(j))
    BY <2>1 DEF Active, MessageFor
  <2>4. UNCHANGED Slots!slotVars \/ Slots!Leave(jobMonitor[wmsg[w].job])
    BY <2>1, <2>2, <2>3, WorkerLeaves DEF SlotInv
  <2> QED
    BY <2>1, <2>4, JobInHand DEF Slots!Next, SlotInv
<1>25. ASSUME NEW m \in unacked, Restore(m) \/ Redeliver(m) PROVE Kept
  <2>1. /\ UNCHANGED <<jobStatus, jobMonitor, wpc, wmsg>>
        /\ queue' \cup unacked' = queue \cup unacked
    BY <1>25 DEF Restore, Redeliver, dbVars, workerVars
  <2>2. \A j \in Jobs : MessageFor(j)' <=> MessageFor(j)
    BY <2>1 DEF MessageFor
  <2>3. \A w \in Workers : Executing(w)' <=> Executing(w)
    BY <2>1 DEF Executing
  <2> QED
    BY <2>1, <2>2, <2>3, QuietStep
<1>27. CASE UNCHANGED vars
  BY <1>27, <1>q DEF vars
<1>28. ASSUME NEW w \in Workers,
              (\E outcome \in DoneRun : Finish(w, outcome)) \/ MarkFailed(w) \/ MarkCancelled(w)
       PROVE  Settles(w)
  BY <1>28, <1>t DEF Finish, MarkFailed, MarkCancelled, MarkEnded, WorkerGoto, Settles
<1> HIDE DEF Kept
<1> QED
  BY <1>1, <1>2, <1>3, <1>4, <1>5, <1>6, <1>7, <1>8, <1>9, <1>10, <1>11, <1>12, <1>13, <1>14,
     <1>15, <1>16, <1>17, <1>18, <1>19, <1>20, <1>23, <1>24, <1>25, <1>27, <1>28
     DEF Next, NewRequest, RequestStep, WorkerStep, Kept

(* With one worker a job that was sent has a message until it is over,      *)
(* through deaths of the API and of the worker.                             *)
LEMMA SlotsOfOneWorker ==
    ASSUME OneWorker
    PROVE  OneHolder /\ SentOnce /\ RunningOrCancelled /\ NothingDropped => SlotInv
<1>1. OneHolder => Held
  BY DEF OneHolder, Held
<1>2. OneHolder /\ SentOnce => Apart
  BY DEF OneHolder, SentOnce, Apart, OneWorker, Executing
<1> QED
  BY <1>1, <1>2 DEF SlotInv, NothingDropped

(* Without faults that holds for any number of workers.                     *)
LEMMA NoFaultHappens ==
    ASSUME Faults = {}
    PROVE  SafetySpec => [](faults = 0)
<1>1. Init => faults = 0
  BY DEF Init
<1>2. faults = 0 /\ [Next]_vars => (faults = 0)'
  <2> SUFFICES ASSUME faults = 0, [Next]_vars PROVE faults' = faults
    OBVIOUS
  <2>1. ASSUME NEW c \in Clients, NewRequest(c) \/ RequestStep(c) \/ ApiCrash(c)
        PROVE  faults' = faults
    BY <2>1 DEF NewRequest, RequestStep, ApiCrash, CheckNoActiveJob, CancelReadJob, InsertJob,
       InsertConflict, SendTask, SendRaises, MarkEnqueueFailed, CancelReadRun, CancelCommit,
       Revoke, Fault
  <2>2. ASSUME NEW w \in Workers, WorkerStep(w) \/ WorkerCrash(w)
        PROVE  faults' = faults
    BY <2>2 DEF WorkerStep, WorkerCrash, Receive, DropRevoked, StartWorkflow, CheckCancelled,
       Finish, TransientError, WorkflowError, MarkRetryPending, Republish, MarkFailed,
       MarkCancelled, MarkEnded, Ack, Fault
  <2>3. ASSUME NEW m \in unacked, Restore(m) \/ Redeliver(m) PROVE faults' = faults
    BY <2>3 DEF Restore, Redeliver, Fault
  <2>4. CASE UNCHANGED vars
    BY <2>4 DEF vars
  <2> QED
    BY <2>1, <2>2, <2>3, <2>4 DEF Next
<1> QED
  BY <1>1, <1>2, PTL DEF SafetySpec

LEMMA SlotsWithoutFaults ==
    faults = 0 /\ TypeInv /\ Known /\ CleanHolder /\ CleanCarrier /\ CleanRows /\ SentOnce => SlotInv
<1> SUFFICES ASSUME faults = 0, TypeInv, Known, CleanHolder, CleanCarrier, CleanRows, SentOnce
             PROVE  SlotInv
  OBVIOUS
<1>1. OneHolder /\ OneCarrier /\ Rows
  BY DEF CleanHolder, CleanCarrier, CleanRows
<1>2. Held
  BY <1>1 DEF OneHolder, Held
<1>3. Apart
  BY <1>1 DEF OneCarrier, Apart, Executing, Carries
<1>4. RunningOrCancelled /\ RevokedSettled
  BY <1>1 DEF Rows, ExecutedRuns, RunningOrCancelled, Executing
<1>5. HandedOn
  <2> SUFFICES ASSUME NEW w \in Workers, wpc[w] = "ack", ~ Settled(wmsg[w].job)
               PROVE  \E m \in (queue \cup unacked) \ {wmsg[w]} : m.job = wmsg[w].job
    BY DEF HandedOn
  <2>1. wmsg[w].job \in Jobs /\ Active(wmsg[w].job) /\ wmsg[w] \in unacked
    BY <1>2, JobInHand, ActiveOrOver DEF Held
  <2>2. wmsg[w].job \in Driven
    BY <1>1, <2>1 DEF Rows, ActiveDriven
  <2>3. \A c \in Clients : ~ (Sending(c) /\ cjob[c] = wmsg[w].job)
    BY <2>1 DEF SentOnce
  <2>4. CASE \E m \in queue : m.job = wmsg[w].job
    BY <1>1, <2>1, <2>4 DEF OneHolder
  <2>5. CASE \E v \in Workers : Carries(v) /\ wmsg[v].job = wmsg[w].job
    <3>1. PICK v \in Workers : Carries(v) /\ wmsg[v].job = wmsg[w].job
      BY <2>5
    <3>2. v # w /\ wpc[v] # "idle"
      BY <3>1 DEF Carries
    <3>3. wmsg[v] \in unacked /\ wmsg[v] # wmsg[w]
      BY <1>1, <3>2 DEF OneHolder
    <3> QED
      BY <3>1, <3>3
  <2> QED
    BY <2>2, <2>3, <2>4, <2>5 DEF Driven
<1> QED
  BY <1>2, <1>3, <1>4, <1>5 DEF SlotInv

LEMMA SlotsInitially == Init => Slots!Init
<1> SUFFICES ASSUME Init PROVE Slots!Init
  OBVIOUS
<1>1. \A m \in Monitors : JobOf(m) = "none"
  BY JobOfNone DEF Init, Active
<1>2. Trailing = {}
  BY DEF Init, Trailing, TrailsIn, Executing
<1> QED
  BY <1>1, <1>2 DEF Slots!Init, JobsOfMonitors

LEMMA SettlesSlotStep ==
    ASSUME Faults \subseteq {"api_crash", "worker_crash", "redeliver"}
    PROVE  TypeInv /\ Known /\ OneActiveJob /\ SlotInv /\ [Next]_vars
           => \A w \in Workers : Settles(w) => Slots!Settle(jobMonitor[wmsg[w].job])
<1>1. "db_error" \notin Faults
  OBVIOUS
<1> QED
  BY <1>1, WhoSettles, FinalWrites

(* The job table is what the schedule scan takes it for, with one worker    *)
(* and processes that die: a job once sent keeps a message until it is      *)
(* over, and whatever settles a job, and moves the schedule on, was sent    *)
(* it.                                                                      *)
THEOREM SlotsHoldOfOneWorker ==
    ASSUME OneWorker, Faults \subseteq {"api_crash", "worker_crash", "redeliver"}
    PROVE  SafetySpec => SlotsHold /\ SettlesOwnSlot
<1>1. "send_ambiguous" \notin Faults
  OBVIOUS
<1>2. TypeInv /\ Known /\ OneActiveJob /\ OneActiveJob' /\ SlotInv /\ [Next]_vars
      => [Slots!Next]_(Slots!slotVars)
  BY SlotStep
<1>3. SafetySpec => [](TypeInv /\ Known /\ OneActiveJob /\ SlotInv)
  BY <1>1, OneWorkerInvariant, NothingDroppedInvariant, SlotsOfOneWorker, TypeInvariant,
     KnownInvariant, OneActiveJobAlways, PTL
<1> QED
  BY <1>2, <1>3, SlotsInitially, SettlesSlotStep, PTL
  DEF SafetySpec, SlotsHold, Slots!Spec, SettlesOwnSlot

(* Any number of workers does, as long as nothing fails.                    *)
THEOREM SlotsHoldWithoutFaults ==
    ASSUME Faults = {}
    PROVE  SafetySpec => SlotsHold /\ SettlesOwnSlot
<1>1. /\ "send_ambiguous" \notin Faults
      /\ Faults \subseteq {"api_crash", "worker_crash", "redeliver"}
  OBVIOUS
<1>2. TypeInv /\ Known /\ OneActiveJob /\ OneActiveJob' /\ SlotInv /\ [Next]_vars
      => [Slots!Next]_(Slots!slotVars)
  BY <1>1, SlotStep
<1>3. Init => SentOnce
  BY DEF Init, SentOnce, Sending
<1>4. SafetySpec => []SentOnce
  <2>1. TypeInv /\ Known /\ faults = 0 /\ CleanHolder /\ SentOnce /\ [Next]_vars => SentOnce'
    BY <1>1, SentOnceKept DEF CleanHolder
  <2> QED
    BY <1>3, <2>1, NoFaultHappens, FaultFreeInvariant, TypeInvariant, KnownInvariant, PTL
    DEF SafetySpec
<1>5. SafetySpec => [](TypeInv /\ Known /\ OneActiveJob /\ SlotInv)
  BY <1>4, NoFaultHappens, FaultFreeInvariant, SlotsWithoutFaults, TypeInvariant,
     KnownInvariant, OneActiveJobAlways, PTL
<1> QED
  BY <1>1, <1>2, <1>5, SlotsInitially, SettlesSlotStep, PTL
  DEF SafetySpec, SlotsHold, Slots!Spec, SettlesOwnSlot
==============================================================================
