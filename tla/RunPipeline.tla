----------------------------- MODULE RunPipeline -----------------------------
(***************************************************************************)
(* What one monitor's runs do between being taken by the worker and being   *)
(* settled (execute_monitor_run_workflow), with the product tables they     *)
(* share with the API routes that prepare scenes, compare them and          *)
(* vectorise the result.  Jobs, queue and several workers are the subject   *)
(* of MonitorJobs; here one worker executes one run at a time, again after  *)
(* a transient error or a crash.                                            *)
(*                                                                          *)
(* Products: a prepared scene and a change analysis each are a row and      *)
(* files on disk; "damaged" is a READY row whose files are missing.         *)
(***************************************************************************)
EXTENDS SceneSelection

CONSTANTS Worker,        \* the Celery worker process
          Callers,       \* concurrent API requests on the products
          Requests,      \* run parameters that may be asked for
          Limit,         \* search_limit
          ChangedPairs,  \* pairs whose change mask yields events
          LastDay,       \* bound on the calendar
          Midnight,      \* may a day end while a run is unfinished?
          MaxRetries,    \* settings.job_max_retries
          Faults,        \* subset of {"crash", "files_lost"}
          MaxFaults      \* bound on them

Procs == Callers \cup {Worker}

ASSUME PipelineAssumption ==
    /\ Worker \notin Callers
    /\ Requests # {}
    /\ Limit \in Nat \ {0}
    /\ LastDay \in Nat
    /\ Midnight \in BOOLEAN
    /\ MaxRetries \in Nat
    /\ MaxFaults \in Nat
    /\ ChangedPairs \subseteq Pairs
    /\ \A r \in Requests :
           /\ r.explicit \in BOOLEAN /\ r.force \in BOOLEAN /\ r.refresh \in BOOLEAN
           /\ {r.from, r.to, r.cloud} \subseteq Nat
           /\ r.lookback \in Nat \ {0}

VARIABLES
    today, published, stored,           \* calendar, provider catalogue, scene rows
    prepared, analyses, rows, summary,  \* the product tables
    job, outcome, request, attempt, runPair, latestAfter,  \* jobs and runs
    stage, step, pair, force, seen,     \* what each process is doing, with what
    doomed,                             \* whose events its DELETE has seen
    found, previous, warned,            \* the worker's local variables
    analysed, summarised, lateWork,     \* history, read by properties only
    moved, skipped,                     \* history of the searches, likewise
    faults

world    == <<today, published>>
products == <<stored, prepared, analyses, rows, summary>>
runRow   == <<outcome, request, attempt, runPair, latestAfter>>
procs    == <<stage, step, pair, force, seen, doomed>>
local    == <<found, previous, warned>>
searches == <<moved, skipped>>
history  == <<analysed, summarised, lateWork, searches>>
vars == <<world, products, job, runRow, procs, local, history, faults>>

PrepareStages == {"prepare_before", "prepare_after"}
EnrichStages  == {"semantics", "impacts", "exposures"}
(* Stages entered through _update_progress and _ensure_not_cancelled.       *)
GatedStages   == {"refresh", "search", "prepare_before", "analyse", "generate"}
                     \cup EnrichStages
Stages == {"none", "waiting", "select", "finish", "retry", "failing", "cancelling"}
              \cup PrepareStages \cup GatedStages
Steps  == {"gate", "read", "begin", "compute", "store", "summarise"}
ProductStatus == {"none", "processing", "failed", "ready", "damaged"}
Final == {"succeeded", "failed", "cancelled"}

TypeOK ==
    /\ today \in 0 .. LastDay
    /\ published \subseteq Scenes /\ stored \subseteq Scenes
    /\ prepared \in [Scenes -> ProductStatus]
    /\ analyses \in [Pairs -> ProductStatus]
    /\ rows \in [Pairs -> [Procs -> Nat]] /\ summary \in [Pairs -> BOOLEAN]
    /\ job \in {"none", "queued", "running"} \cup Final
    /\ outcome \in {"none", "started", "no_new_imagery", "partial"} \cup Final
    /\ request \in Requests /\ attempt \in 0 .. MaxRetries
    /\ runPair \in Pairs \cup {NoPair}
    /\ latestAfter \in Scenes \cup {NoScene}
    /\ stage \in [Procs -> Stages] /\ step \in [Procs -> Steps]
    /\ pair \in [Procs -> (Scenes \cup {NoScene}) \X (Scenes \cup {NoScene})]
    /\ force \in [Procs -> BOOLEAN] /\ seen \in [Procs -> BOOLEAN]
    /\ doomed \in [Procs -> SUBSET Procs]
    /\ found \subseteq Scenes /\ previous \in Scenes \cup {NoScene}
    /\ warned \in BOOLEAN
    /\ analysed \subseteq Pairs /\ summarised \subseteq Pairs
    /\ lateWork \in Nat /\ moved \in BOOLEAN /\ skipped \subseteq Scenes
    /\ faults \in 0 .. MaxFaults

Init ==
    /\ today = 0 /\ published = {} /\ stored = {}
    /\ prepared = [s \in Scenes |-> "none"]
    /\ analyses = [p \in Pairs |-> "none"]
    /\ rows = [p \in Pairs |-> [q \in Procs |-> 0]] /\ summary = [p \in Pairs |-> FALSE]
    /\ job = "none" /\ outcome = "none" /\ request \in Requests /\ attempt = 0
    /\ runPair = NoPair /\ latestAfter = NoScene
    /\ stage = [p \in Procs |-> "none"] /\ step = [p \in Procs |-> "read"]
    /\ pair = [p \in Procs |-> NoPair]
    /\ force = [p \in Procs |-> FALSE] /\ seen = [p \in Procs |-> FALSE]
    /\ doomed = [p \in Procs |-> {}]
    /\ found = {} /\ previous = NoScene /\ warned = FALSE
    /\ analysed = {} /\ summarised = {} /\ lateWork = 0
    /\ moved = FALSE /\ skipped = {} /\ faults = 0
------------------------------------------------------------------------------
(* Control.                                                                 *)
Enter(p, s) ==
    /\ stage' = [stage EXCEPT ![p] = s]
    /\ step' = [step EXCEPT ![p] = IF s \in GatedStages /\ p = Worker
                                   THEN "gate" ELSE "read"]

Goto(p, st) == step' = [step EXCEPT ![p] = st] /\ UNCHANGED stage

(* Order of the workflow; without events there is nothing to enrich.        *)
Following(s, p) ==
    CASE s = "refresh"        -> "search"
      [] s = "search"         -> "select"
      [] s = "select"         -> "prepare_before"
      [] s = "prepare_before" -> "prepare_after"
      [] s = "prepare_after"  -> "analyse"
      [] s = "analyse"        -> "generate"
      [] s = "generate"       -> IF p \in ChangedPairs THEN "semantics" ELSE "finish"
      [] s = "semantics"      -> "impacts"
      [] s = "impacts"        -> "exposures"
      [] s = "exposures"      -> "finish"

(* An operation has succeeded: the workflow goes on, an API call is over.   *)
Advance(p) == Enter(p, IF p = Worker THEN Following(stage[p], pair[p]) ELSE "none")

(* An operation raised: the task handles it, an API call is over.           *)
Raise(p) == Enter(p, IF p = Worker THEN "failing" ELSE "none")

(* Mutant: one retry too many.                                              *)
RaiseTransientOffByOne(p) ==
    Enter(p, IF p # Worker THEN "none"
             ELSE IF attempt <= MaxRetries THEN "retry" ELSE "failing")

RaiseTransient(p) ==
    Enter(p, IF p # Worker THEN "none"
             ELSE IF attempt < MaxRetries THEN "retry" ELSE "failing")

(* The process forgets its local variables.                                 *)
Reset(p) ==
    /\ pair' = [pair EXCEPT ![p] = NoPair]
    /\ force' = [force EXCEPT ![p] = FALSE]
    /\ seen' = [seen EXCEPT ![p] = FALSE]
    /\ doomed' = [doomed EXCEPT ![p] = {}]
    /\ IF p = Worker THEN found' = {} /\ previous' = NoScene /\ warned' = FALSE
                     ELSE UNCHANGED local

At(p, s, st) == stage[p] = s /\ step[p] = st

(* Work the worker starts although its job is cancelled by now.             *)
NoteWork(p) ==
    lateWork' = IF p = Worker /\ job = "cancelled" THEN lateWork + 1 ELSE lateWork
------------------------------------------------------------------------------
(* Users and environment.                                                   *)
EnqueueRun(r) ==
    /\ stage[Worker] = "none"
    /\ Enter(Worker, "waiting")
    /\ job' = "queued" /\ outcome' = "started" /\ request' = r
    /\ attempt' = 0 /\ runPair' = NoPair /\ lateWork' = 0 /\ moved' = FALSE
    /\ UNCHANGED <<world, products, latestAfter, pair, force, seen, doomed, local,
                   analysed, summarised, skipped, faults>>

CancelJob ==
    /\ job \in {"queued", "running"}
    /\ job' = "cancelled" /\ outcome' = "cancelled"
    /\ UNCHANGED <<world, products, request, attempt, runPair, latestAfter,
                   procs, local, history, faults>>

(* A route is called: prepare a stored scene, compare two prepared ones     *)
(* (explicitly or by auto selection), or vectorise an analysis.             *)
StartCall(c) ==
    /\ stage[c] = "none"
    /\ \/ \E s \in stored, forced \in BOOLEAN :
             /\ Enter(c, "prepare_after")
             /\ pair' = [pair EXCEPT ![c] = <<NoScene, s>>]
             /\ force' = [force EXCEPT ![c] = forced]
       \/ \E p \in Pairs :
             /\ prepared[p[1]] # "none" /\ prepared[p[2]] # "none"
             /\ Enter(c, "analyse")
             /\ pair' = [pair EXCEPT ![c] = p]
             /\ UNCHANGED force
       \/ \E p \in Pairs :
             /\ analyses[p] # "none"
             /\ Enter(c, "generate")
             /\ pair' = [pair EXCEPT ![c] = p]
             /\ UNCHANGED force
    /\ UNCHANGED <<world, products, job, runRow, seen, doomed, local, history, faults>>

Publish(s) ==
    /\ DayOf(s) <= today
    /\ published' = published \cup {s}
    /\ UNCHANGED <<today, products, job, runRow, procs, local, history, faults>>

NextDay ==
    /\ today < LastDay
    /\ Midnight \/ stage[Worker] = "none"
    /\ today' = today + 1
    /\ moved' = (moved \/ stage[Worker] # "none")
    /\ UNCHANGED <<published, products, job, runRow, procs, local, analysed,
                   summarised, lateWork, skipped, faults>>

Fault(f) == f \in Faults /\ faults < MaxFaults /\ faults' = faults + 1

(* A process dies.  The message of the run is delivered again.              *)
Crash(p) ==
    /\ stage[p] \notin {"none", "waiting"}
    /\ Fault("crash")
    /\ Enter(p, IF p = Worker THEN "waiting" ELSE "none")
    /\ Reset(p)
    /\ UNCHANGED <<world, products, job, runRow, history>>

FilesLost ==
    /\ Fault("files_lost")
    /\ \/ \E s \in Scenes :
             /\ prepared[s] = "ready"
             /\ prepared' = [prepared EXCEPT ![s] = "damaged"]
             /\ UNCHANGED analyses
       \/ \E p \in Pairs :
             /\ analyses[p] = "ready"
             /\ analyses' = [analyses EXCEPT ![p] = "damaged"]
             /\ UNCHANGED prepared
    /\ UNCHANGED <<world, stored, rows, summary, job, runRow, procs, local, history>>
------------------------------------------------------------------------------
(* The workflow up to the choice of scenes.                                 *)

(* A job that is final is skipped; otherwise the workflow begins anew.      *)
StartRun ==
    /\ stage[Worker] = "waiting"
    /\ IF job \in Final
       THEN /\ Enter(Worker, "none")
            /\ UNCHANGED <<job, outcome, force, doomed>>
       ELSE /\ Enter(Worker, IF request.refresh THEN "refresh" ELSE "search")
            /\ job' = "running" /\ outcome' = "started"
            /\ force' = [force EXCEPT ![Worker] = request.force]
    /\ UNCHANGED <<world, products, request, attempt, runPair, latestAfter,
                   pair, seen, doomed, local, history, faults>>

(* Mutant: the cancellation is looked at before the search only.            *)
GateOfSearchOnly ==
    /\ step[Worker] = "gate"
    /\ IF job = "cancelled" /\ stage[Worker] = "search"
       THEN Enter(Worker, "cancelling") ELSE Goto(Worker, "read")
    /\ UNCHANGED <<world, products, job, runRow, pair, force, seen, doomed, local, history,
                   faults>>

(* _update_progress, then _ensure_not_cancelled with a fresh read.          *)
Gate ==
    /\ step[Worker] = "gate"
    /\ IF job = "cancelled" THEN Enter(Worker, "cancelling") ELSE Goto(Worker, "read")
    /\ UNCHANGED <<world, products, job, runRow, pair, force, seen, doomed, local, history,
                   faults>>

(* Context refreshes and enrichment: the errors they name become warnings,  *)
(* any other ends the execution.                                            *)
Enrich ==
    /\ stage[Worker] \in EnrichStages \cup {"refresh"}
    /\ step[Worker] = "read"
    /\ \/ warned' \in {warned, TRUE} /\ Advance(Worker)
       \/ Raise(Worker) /\ UNCHANGED warned
    /\ NoteWork(Worker)
    /\ UNCHANGED <<world, products, job, runRow, pair, force, seen, doomed, found, previous,
                   analysed, summarised, searches, faults>>

(* The provider is asked; its outage is transient, an error of the query    *)
(* or of the insertion is not.                                              *)
SearchScenes ==
    /\ At(Worker, "search", "read")
    /\ previous' = latestAfter
    /\ \/ LET window  == SearchWindow(request, latestAfter, today)
              matches == Matches(published, request, window)
          IN  /\ found' \in SearchResults(matches, Limit)
              /\ stored' = stored \cup found'
              /\ moved' = (moved \/ Cardinality(matches) > Limit)
              /\ Advance(Worker)
       \/ /\ RaiseTransient(Worker) \/ Raise(Worker)
          /\ UNCHANGED <<stored, found, moved>>
    /\ NoteWork(Worker)
    /\ UNCHANGED <<world, prepared, analyses, rows, summary, job, runRow, pair, force,
                   seen, doomed, warned, analysed, summarised, skipped, faults>>

(* _mark_job_final.  The run ended successfully becomes the one that the    *)
(* next run looks back to, if its row names an after scene.                 *)
Complete(status) ==
    /\ job' = "succeeded" /\ outcome' = status
    /\ latestAfter' = IF runPair = NoPair THEN latestAfter ELSE runPair[2]
    /\ Enter(Worker, "none")
    /\ Reset(Worker)
    /\ UNCHANGED <<request, attempt>>

(* No pair, or nothing newer than the previous run ended at: the run is     *)
(* over, and the row keeps the pair an earlier execution recorded in it.    *)
(* Otherwise the pair is recorded in the run and prepared.                  *)
SelectScenes ==
    /\ stage[Worker] = "select"
    /\ LET chosen == ChooseScenePair(found, previous)
       IN  \/ /\ chosen = NoPair \/ chosen[2] = previous
              /\ Complete("no_new_imagery")
              /\ skipped' = skipped \cup
                               (IF moved /\ runPair # NoPair THEN {runPair[2]} ELSE {})
              /\ UNCHANGED runPair
           \/ /\ chosen # NoPair /\ chosen[2] # previous
              /\ runPair' = chosen
              /\ pair' = [pair EXCEPT ![Worker] = chosen]
              /\ Advance(Worker)
              /\ UNCHANGED <<job, outcome, request, attempt, latestAfter, force, seen, doomed,
                             local, skipped>>
    /\ UNCHANGED <<world, products, analysed, summarised, lateWork, moved, faults>>
------------------------------------------------------------------------------
(* prepare_observation, by the workflow or by a route.                      *)
SceneOf(p) == IF stage[p] = "prepare_before" THEN pair[p][1] ELSE pair[p][2]

(* Mutant: a row that exists is returned as it is, forced or not.           *)
ReadPreparedUnforced(p) ==
    /\ stage[p] \in PrepareStages /\ step[p] = "read"
    /\ IF prepared[SceneOf(p)] \in {"none", "damaged"}
       THEN /\ Goto(p, "begin")
            /\ seen' = [seen EXCEPT ![p] = prepared[SceneOf(p)] # "none"]
       ELSE Advance(p) /\ UNCHANGED seen
    /\ UNCHANGED <<world, products, job, runRow, pair, force, doomed, local, history, faults>>

(* A row that exists is returned as it is, unless the caller forces the     *)
(* preparation or it is READY with damaged files.                           *)
ReadPrepared(p) ==
    /\ stage[p] \in PrepareStages /\ step[p] = "read"
    /\ IF prepared[SceneOf(p)] \in {"none", "damaged"} \/ force[p]
       THEN /\ Goto(p, "begin")
            /\ seen' = [seen EXCEPT ![p] = prepared[SceneOf(p)] # "none"]
       ELSE Advance(p) /\ UNCHANGED seen
    /\ UNCHANGED <<world, products, job, runRow, pair, force, doomed, local, history, faults>>

(* The row is committed as PROCESSING, unless the commit is refused: a      *)
(* second insert of it violates the unique constraint.                      *)
BeginPreparing(p) ==
    /\ stage[p] \in PrepareStages /\ step[p] = "begin"
    /\ \/ /\ seen[p] \/ prepared[SceneOf(p)] = "none"
          /\ prepared' = [prepared EXCEPT ![SceneOf(p)] = "processing"]
          /\ Goto(p, "compute")
          /\ NoteWork(p)
       \/ Raise(p) /\ UNCHANGED <<prepared, lateWork>>
    /\ UNCHANGED <<world, stored, analyses, rows, summary, job, runRow, pair, force,
                   seen, doomed, local, analysed, summarised, searches, faults>>

(* The raster is written in place and the row becomes READY, or FAILED when *)
(* the assets cannot be fetched (transient) or processed.  An exception of  *)
(* another kind, or a refused commit of the READY row, leaves the row as it *)
(* is: PROCESSING, with nobody at work on it.                               *)
FinishPreparing(p) ==
    /\ stage[p] \in PrepareStages /\ step[p] = "compute"
    /\ \/ /\ prepared' = [prepared EXCEPT ![SceneOf(p)] = "ready"]
          /\ Advance(p)
       \/ /\ prepared' = [prepared EXCEPT ![SceneOf(p)] = "failed"]
          /\ RaiseTransient(p) \/ Raise(p)
       \/ Raise(p) /\ UNCHANGED prepared
    /\ UNCHANGED <<world, stored, analyses, rows, summary, job, runRow, pair, force,
                   seen, doomed, local, history, faults>>
------------------------------------------------------------------------------
(* create_change_analysis.  Both products must be READY and whole; a READY  *)
(* and whole analysis of the pair is reused, any other is computed (again). *)
ReadAnalysis(p) ==
    /\ At(p, "analyse", "read")
    /\ IF \E i \in {1, 2} : prepared[pair[p][i]] # "ready"
       THEN Raise(p) /\ UNCHANGED seen
       ELSE IF analyses[pair[p]] = "ready"
       THEN Advance(p) /\ UNCHANGED seen
       ELSE /\ Goto(p, "begin")
            /\ seen' = [seen EXCEPT ![p] = analyses[pair[p]] # "none"]
    /\ UNCHANGED <<world, products, job, runRow, pair, force, doomed, local, history, faults>>

(* New statistics replace the old ones, the event summary among them.       *)
BeginAnalysis(p) ==
    /\ At(p, "analyse", "begin")
    /\ \/ /\ seen[p] \/ analyses[pair[p]] = "none"
          /\ analyses' = [analyses EXCEPT ![pair[p]] = "processing"]
          /\ summary' = [summary EXCEPT ![pair[p]] = FALSE]
          /\ Goto(p, "compute")
          /\ NoteWork(p)
       \/ Raise(p) /\ UNCHANGED <<analyses, summary, lateWork>>
    /\ UNCHANGED <<world, stored, prepared, rows, job, runRow, pair, force, seen, doomed,
                   local, analysed, summarised, searches, faults>>

(* READY with its result, or FAILED when the comparison raises.  A refused  *)
(* commit of the result leaves the row as it is, PROCESSING as a rule.      *)
FinishAnalysis(p) ==
    /\ At(p, "analyse", "compute")
    /\ \/ /\ analyses' = [analyses EXCEPT ![pair[p]] = "ready"]
          /\ summary' = [summary EXCEPT ![pair[p]] = FALSE]
          /\ analysed' = analysed \cup {pair[p]}
          /\ Advance(p)
       \/ /\ analyses' = [analyses EXCEPT ![pair[p]] = "failed"]
          /\ summary' = [summary EXCEPT ![pair[p]] = FALSE]
          /\ Raise(p) /\ UNCHANGED analysed
       \/ Raise(p) /\ UNCHANGED <<analyses, summary, analysed>>
    /\ UNCHANGED <<world, stored, prepared, rows, job, runRow, pair, force, seen, doomed,
                   local, summarised, lateWork, searches, faults>>
------------------------------------------------------------------------------
(* generate_change_events.  rows[q][p] counts the generations of events of  *)
(* the pair q that process p has stored and nobody has deleted; the mask of *)
(* a pair that has not changed yields no event.                             *)
Count(q) == IF q \in ChangedPairs THEN 1 ELSE 0

Storers(q) == {p \in Procs : rows[q][p] > 0}

(* Mutant: as many stored events as the mask yields are enough.             *)
ReusableUnsummarised(q) ==
    IF Count(q) = 0 THEN Storers(q) = {}
                    ELSE \E p \in Procs : Storers(q) = {p} /\ rows[q][p] = 1

(* _generation_reusable: completed, and as many events as it says.          *)
Reusable(q) ==
    /\ summary[q]
    /\ IF Count(q) = 0 THEN Storers(q) = {}
                       ELSE \E p \in Procs : Storers(q) = {p} /\ rows[q][p] = 1

ReadEvents(p) ==
    /\ At(p, "generate", "read")
    /\ IF analyses[pair[p]] # "ready"
       THEN Raise(p) /\ UNCHANGED seen
       ELSE IF Reusable(pair[p])
       THEN Advance(p) /\ UNCHANGED seen
       ELSE /\ Goto(p, "compute")
            /\ seen' = [seen EXCEPT ![p] = Storers(pair[p]) # {}]
    /\ UNCHANGED <<world, products, job, runRow, pair, force, doomed, local, history,
                   faults>>

(* Mutant: the events that the earlier query returned stay.                 *)
DeleteEventsNot(p) ==
    /\ At(p, "generate", "compute")
    /\ Goto(p, "store") \/ Raise(p)
    /\ NoteWork(p)
    /\ UNCHANGED <<world, products, job, runRow, pair, force, seen, doomed, local,
                   analysed, summarised, searches, faults>>

(* The mask is vectorised.  Only if the earlier query has returned events a *)
(* DELETE is issued; it sees the events that are committed by now, and if   *)
(* others are deleting them it waits for their commit but sees no more.     *)
DeleteEvents(p) ==
    /\ At(p, "generate", "compute")
    /\ \/ /\ doomed' = [doomed EXCEPT ![p] = IF seen[p] THEN Storers(pair[p]) ELSE {}]
          /\ Goto(p, "store")
       \/ Raise(p) /\ UNCHANGED doomed
    /\ NoteWork(p)
    /\ UNCHANGED <<world, products, job, runRow, pair, force, seen, local,
                   analysed, summarised, searches, faults>>

(* Deletion and insertion are committed together.  What p has just stored   *)
(* is not among what the DELETE of any other has seen.                      *)
StoreEvents(p) ==
    /\ At(p, "generate", "store")
    /\ \/ /\ rows' = [rows EXCEPT ![pair[p]] = [q \in Procs |->
                             (IF q \in doomed[p] THEN 0 ELSE @[q])
                                 + (IF q = p THEN Count(pair[p]) ELSE 0)]]
          /\ doomed' = [q \in Procs |->
                          IF q = p THEN {}
                          ELSE IF pair[q] = pair[p] THEN doomed[q] \ {p} ELSE doomed[q]]
          /\ Goto(p, "summarise")
       \/ /\ Raise(p)
          /\ doomed' = [doomed EXCEPT ![p] = {}]
          /\ UNCHANGED rows
    /\ UNCHANGED <<world, stored, prepared, analyses, summary, job, runRow, pair,
                   force, seen, local, history, faults>>

(* The second commit of a generation; refused, it leaves the events alone.  *)
Summarise(p) ==
    /\ At(p, "generate", "summarise")
    /\ \/ /\ summary' = [summary EXCEPT ![pair[p]] = TRUE]
          /\ summarised' = summarised \cup {pair[p]}
          /\ Advance(p)
       \/ Raise(p) /\ UNCHANGED <<summary, summarised>>
    /\ UNCHANGED <<world, stored, prepared, analyses, rows, job, runRow, pair, force,
                   seen, doomed, local, analysed, lateWork, searches, faults>>
------------------------------------------------------------------------------
(* The end of an execution.                                                 *)
FinishRun ==
    /\ stage[Worker] = "finish"
    /\ Complete(IF warned THEN "partial" ELSE "succeeded")
    /\ UNCHANGED <<world, products, runPair, history, faults>>

(* Mutant: the retry does not count itself.                                 *)
RetryRunUncounted ==
    /\ stage[Worker] = "retry"
    /\ job' = IF job = "cancelled" THEN job ELSE "queued"
    /\ Enter(Worker, "waiting")
    /\ Reset(Worker)
    /\ UNCHANGED <<world, products, outcome, request, attempt, runPair, latestAfter,
                   history, faults>>

(* Back to the queue, as a new message, whether or not the job is cancelled *)
(* (which the next delivery finds out).                                     *)
RetryRun ==
    /\ stage[Worker] = "retry"
    /\ job' = IF job = "cancelled" THEN job ELSE "queued"
    /\ attempt' = attempt + 1
    /\ Enter(Worker, "waiting")
    /\ Reset(Worker)
    /\ UNCHANGED <<world, products, outcome, request, runPair, latestAfter, history,
                   faults>>

(* Mutant: a failed run moves the point the next run looks back to.         *)
EndRunCountsFailed ==
    /\ stage[Worker] \in {"failing", "cancelling"}
    /\ LET status == IF stage[Worker] = "failing" THEN "failed" ELSE "cancelled"
       IN  job' = status /\ outcome' = status
    /\ latestAfter' = IF runPair = NoPair THEN latestAfter ELSE runPair[2]
    /\ Enter(Worker, "none")
    /\ Reset(Worker)
    /\ UNCHANGED <<world, products, request, attempt, runPair, history, faults>>

EndRun ==
    /\ stage[Worker] \in {"failing", "cancelling"}
    /\ LET status == IF stage[Worker] = "failing" THEN "failed" ELSE "cancelled"
       IN  job' = status /\ outcome' = status
    /\ Enter(Worker, "none")
    /\ Reset(Worker)
    /\ UNCHANGED <<world, products, request, attempt, runPair, latestAfter, history,
                   faults>>
------------------------------------------------------------------------------
Operation(p) ==
    \/ ReadPrepared(p) \/ BeginPreparing(p) \/ FinishPreparing(p)
    \/ ReadAnalysis(p) \/ BeginAnalysis(p) \/ FinishAnalysis(p)
    \/ ReadEvents(p) \/ DeleteEvents(p) \/ StoreEvents(p) \/ Summarise(p)

WorkerStep ==
    \/ StartRun \/ Gate \/ Enrich \/ SearchScenes \/ SelectScenes
    \/ Operation(Worker)
    \/ FinishRun \/ RetryRun \/ EndRun

Environment ==
    \/ \E r \in Requests : EnqueueRun(r)
    \/ CancelJob
    \/ \E c \in Callers : StartCall(c)
    \/ \E s \in Scenes : Publish(s)
    \/ NextDay
    \/ \E p \in Procs : Crash(p)
    \/ FilesLost

Next == Environment \/ WorkerStep \/ \E c \in Callers : Operation(c)

SafetySpec == Init /\ [][Next]_vars

(* The worker keeps working; nothing the users or the environment do, and   *)
(* no particular answer of a provider, is assumed.                          *)
Spec == SafetySpec /\ WF_vars(WorkerStep)
------------------------------------------------------------------------------
(* Properties.                                                              *)

(* The after scene a run looks back to has been analysed: execute_monitor_  *)
(* run_workflow skips that scene ("Latest observation unchanged since last  *)
(* successful run") and only ever uses it as a before scene again, so one   *)
(* that was merely selected is never analysed.  The code breaks this in one *)
(* way, which the property names: an execution of a run chooses a pair and  *)
(* dies or is retried, the day ends or the search limit cuts something off, *)
(* and the next execution ends as no_new_imagery over the pair in the row.  *)
PreviousAfterAnalysed ==
    latestAfter # NoScene => \/ latestAfter \in skipped
                             \/ \E p \in analysed : p[2] = latestAfter

(* A run reported as succeeded or partial has had its pair analysed and the *)
(* events of the pair stored and summarised, whatever crashed on the way.   *)
CompletedRunDelivers ==
    outcome \in {"succeeded", "partial"} => runPair \in analysed \cap summarised

(* A forced run repairs whatever earlier errors, crashes or lost files left *)
(* behind: it reaches the analysis with both scenes prepared.               *)
ForcedRunFindsProducts ==
    (stage[Worker] = "analyse" /\ request.force) =>
        \A i \in {1, 2} : prepared[pair[Worker][i]] \notin {"none", "processing", "failed"}

(* Cancellation is cooperative: from the commit of a cancel request on, the *)
(* worker starts at most one more stage of this run, which is two scene     *)
(* preparations at the most, over all its executions.                       *)
CancelBoundsWork == lateWork <= 2

(* Requests and the workflow may vectorise an analysis at the same time,    *)
(* read that it has no events, or miss in their DELETE what another is just *)
(* storing, and so store its events twice.  The copies do not pile up: none *)
(* of them ever has two in the table, however often a generation dies       *)
(* between its two commits, is refused, or is repeated.                     *)
DuplicatesBounded == \A q \in Pairs, p \in Procs : rows[q][p] <= 1

(* Every run ends, through crashes, retries and whatever the providers do.  *)
RunEnds == (job \in {"queued", "running"}) ~> (job \in Final)

(* A run that gets as far as the analysis finds the scenes it has just had  *)
(* prepared ready for it (a retry included).                                *)
PreparedScenesReady ==
    At(Worker, "analyse", "read") =>
        \A i \in {1, 2} : prepared[pair[Worker][i]] = "ready"
==============================================================================
