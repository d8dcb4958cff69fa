# ARGUS in TLA+

ARGUS watches areas of the earth. A user draws an area (a *monitor*); a monitoring run searches Sentinel-2 scenes of
the area, prepares two of them, computes where they differ, turns the differences into change events and enriches the
events with context (roads, population, land cover, environment). Runs are asked for by hand or by a schedule and are
executed by Celery workers over PostgreSQL, Redis and a directory of rasters.

This directory models the part of ARGUS that is hardest to test: what requests, scheduler scans, the message broker,
workers and browser tabs do to the same rows in every order, with retries, cancellation, repeated delivery and crashes;
and the chain of pixel masks from two scenes to a labelled event. Paths below are relative to `backend/`; `MS` is
`app/services/monitoring_service.py`.

## 1. Inventory

| Component | State it keeps | Operations | Talks to | Correct means | Here |
|---|---|---|---|---|---|
| Monitor-run jobs (`MS`, `tasks/monitoring.py`, `tasks/celery_app.py`, `api/routes/jobs.py`) | `analysis_jobs`, `monitor_runs`, Celery messages, revoked task ids | enqueue, cancel, deliver, start, retry, settle | PostgreSQL, Redis, workflow | one active job per monitor; nothing stranded; settled and cancelled jobs stay so; job and run agree | `MonitorJobs`, `JobContract` |
| Monitoring workflow (`execute_monitor_run_workflow`) | run row, progress, local choice of scenes | stages refresh, search, select, prepare x2, analyse, generate, semantics, impacts, exposures | all product services | a finished run has delivered; a run always ends; cancelled runs stop soon | `RunPipeline` |
| Scene search and selection (`_compute_search_window`, `_choose_scene_pair`, `satellite/`) | observation rows | search, upsert, choose | planetary computer | the scene looked back to has been analysed | `SceneSelection`, `RunPipeline` |
| Prepared observations, change analyses, change events | a status row and files each; event rows, summary | create, reuse, repair, force, review | workflow, API routes | a finished run has its products; events are not multiplied; an event rests on pixels that are clear and changed | `RunPipeline`, `ChangeEvidence`, `EventEnrichment` |
| Schedules and scan (`upsert_monitor_schedule`, `scan_monitor_schedules`) | `monitor_schedules`, advisory lock | save, scan, move on | jobs, Celery Beat | no slot served twice, none forgotten, disabled is off | `ScheduleScan` |
| Semantics, impacts, exposures | `change_events.properties`, semantic, impact and exposure rows | compute one or all, store, regenerate | workflow, routes, datasets | concurrent computations keep each other's results; a label has its row | `EventEnrichment` |
| Context refresh (roads, population, land cover, environment) | stored features | refresh | providers | what was computed stays readable | `EventEnrichment`; one step in `RunPipeline` |
| Semantic inference (`semantic/`) | none | evidence, scores, label | rasters | a label follows the indices | `ChangeEvidence` |
| Sign-in sessions (`auth_service.py`, `auth/tokens.py`, `client.ts`) | refresh sessions, cookies, the shared refresh of a tab | register, sign in, rotate, sign out, sign out everywhere | client | one session per sign-in; a sign-out is final; tabs do not sign each other out | `SignIn` |
| Quotas, usage, rate limits (`quota_service.py`, `rate_limit_service.py`, `api/routes/monitors.py`) | usage events, Redis counters, overrides | count, check, work, record | routes | a limit bounds what is done; what succeeds is charged once, on its day | `Quotas` |
| Alerts and email (`alert_service.py`, `tasks/alerts.py`, `email_service.py`) | alerts, delivery status, messages | create, queue, deliver, retry | Celery, provider | no alert lost, no e-mail sent twice, every delivery ends | `AlertDelivery` |
| Monitors, access, accounts (`monitor_service.py`, `access_service.py`, `account_service.py`) | monitor, user and preference rows | create, update, pause, delete | every route | ownership; changes under running work | where they meet the modules above |
| Provider clients, GIS, artifacts, explore, administration | none or read-only | I/O, conversion | - | - | not modelled, except the quota override |
| Frontend | display state, the API client | call, refresh | API | no call waits for ever | the API client, in `SignIn` |

How they interact: an API route or the scan calls `enqueue_monitor_run_job`, which commits a job and a run and then
publishes a message. A worker takes the message, executes the workflow with one database session and settles job, run
and schedule in one commit. Cancelling writes the job row; the worker reads it between stages. API routes call the same
product services as the workflow, on the same rows. The services share state only through PostgreSQL, Redis and the
raster directory; sessions read with `expire_on_commit=False` and `autoflush=False`, so what was read before a commit is
still used after it. Tabs of one browser share its cookies and nothing else.

Hard behaviours, each listed in `PROJECT.json` under *hazards* at the line where it bites: counts and reads that are
not atomic with the write based on them; unconditional final writes; a commit before the publication it announces; late
acknowledgement and redelivery; retries that meet the rows of the attempt before; row locks that end at the first
commit of a loop; a session-level lock on a pooled connection; a selection that survives the attempt that made it; a
JSON column read, extended and written back whole; a rollback that takes more than the statement that failed; a task
queued before the commit it depends on; a sieve that knows no mask.

## 2. Modules

| Module | What it is |
|---|---|
| `JobContract` | abstract specification: the job table as its readers may rely on it |
| `MonitorJobs` | requests, broker and workers on the rows of jobs and runs |
| `MonitorSlots` | abstract: the one job a monitor has room for, where `MonitorJobs` and `ScheduleScan` meet |
| `MonitorJobsProofs` | theorems about `MonitorJobs`: with faults, before the first one, and with one worker |
| `MCMonitorJobs` | symmetry and two kinds of behaviour for TLC |
| `SceneSelection` | search window and choice of the pair, as operators |
| `RunPipeline` | the workflow over the product tables (EXTENDS `SceneSelection`) |
| `RunPipelineProofs` | theorems about `RunPipeline` |
| `MCRunPipeline` | scenes, requests and two kinds of behaviour for TLC |
| `ScheduleScan` | schedules, scans and what changes schedules meanwhile |
| `ScheduleScanProofs` | theorems about `ScheduleScan` |
| `EventEnrichment` | the events of one analysis and everything computed about them |
| `EventEnrichmentProofs` | theorems about `EventEnrichment` |
| `SignIn` | refresh sessions, cookies and the API clients of a user's tabs |
| `SignInProofs` | theorems about `SignIn` |
| `Quotas` | rate limit, quota check, work and usage record of parallel requests |
| `QuotasProofs` | theorems about `Quotas` |
| `AlertDelivery` | creation of alerts, their messages and e-mails |
| `AlertDeliveryProofs` | theorems about `AlertDelivery` |
| `ChangeEvidence` | masks and labels, from two scenes to an event |
| `ChangeEvidenceProofs` | theorems about `ChangeEvidence` |
| `MC...` | instances for TLC: symmetry, batches, limits, areas |

Definitions carry the names of the code where TLA+ allows it; `PROJECT.json` ("map") gives the lines of each. An
operator whose comment begins with "Mutant" is not part of the model: it is a plausible wrong version of the definition
after it, kept to show that a property notices the difference.

### MonitorJobs

One action is one committed transaction or one broker operation. What a handler has read before is a local copy:
`cjob`/`cdone` for a request, `wmsg` for a worker, and the step (`cpc`, `wpc`) remembers what it concluded.

* Enqueue (`MS` 571-680): `CheckNoActiveJob` counts, `InsertJob` or `InsertConflict` is the commit under the partial
  unique index, `SendTask` or `SendRaises` + `MarkEnqueueFailed` the publication.
* Cancel (`MS` 694-735): `CancelReadJob` (the ownership check of the route already loads the job), `CancelReadRun`,
  `CancelCommit`, `Revoke`. The session keeps the job row it loaded, so the commit may overwrite a status.
* Worker: `Receive`, `DropRevoked`, `StartWorkflow` (the only transaction that locks the rows and looks at the status),
  `CheckCancelled`, `Finish`, `TransientError`/`MarkRetryPending`/`Republish`, `WorkflowError`/`MarkFailed`,
  `MarkCancelled`, `Ack`. The workflow in between is one step "running" here and is the subject of `RunPipeline`.
* Broker (external): messages carry the retry counter; `Restore` and `Redeliver` are the visibility timeout of the
  Redis transport.
* Faults, each switched on by the constant `Faults`: the API process dies, a send raises although the message is
  stored, a republication is lost, a database error, a worker dies, a message in work is delivered again.

`Slots` maps the jobs of a monitor to `MonitorSlots`: `none`, `unsent`, or `sent` while the broker has a message of the
active job; a monitor is `trailing` while a worker executes a job of it that is over.

Left out: progress and log columns, timestamps, the task id (a revocation may or may not have one).

### SceneSelection and RunPipeline

One worker executes one monitor's runs, one at a time (the overlap of two workers is in `MonitorJobs`); API requests
(`Callers`) prepare, compare and vectorise the same products. Every process has a `stage` and a `step` in it; reading,
committing PROCESSING, finishing and summarising are separate steps because the code commits between them. Vectorising
is read, DELETE (`DeleteEvents`; `doomed` are the rows it has seen), store and summarise, and rows are counted for each
process that stored them. A product is `none`, `processing`, `failed`, `ready` or `damaged` (READY row, files gone). A
raster or provider computation succeeds, raises an error the code expects (the row becomes FAILED), or ends in anything
else: an unexpected exception, or a final commit that the database refuses, leaves the row PROCESSING with nobody
working on it. Searches and enrichment stages may raise transient and other errors. Commits of the job and run rows
themselves are not refused here; `MonitorJobs` has that fault.

The calendar (`today`) and the catalogue (`published`) move on between runs and, with `Midnight = TRUE`, during one.
`latestAfter` is what `_resolve_previous_after_observation` would find. History that only properties read: `analysed`,
`summarised`, `lateWork`, `moved` (the searches of the run had different windows, or one was cut short by `Limit`) and
`skipped` (what is looked back to because of a run that ended without new imagery over a pair it had chosen in an
earlier, differently searched execution).

Left out: geometry, numbers in rasters, event contents, warnings texts, threshold and area parameters (constant in an
instance, so reuse never fails on them).

### ScheduleScan

`next_run_after` is null, later, or due; the schedules that are `due` are ordered by it (`before`). A scan takes the
advisory lock (`TryLock`), selects and row-locks (`SelectDue`), and handles row after row: `Examine` (count of active
jobs), `InsertRun` (the commit that ends the row locks), `SendRun`, `MoveOn` (the update, from what the scan read),
`EndScan`. Users save schedules, pause, delete, start and cancel; workers settle (`SettleRun`); time passes
(`Elapse`). A monitor deleted under a scan leaves a change in the session that no commit can write (`doomed`): the
flush fails and, without a rollback before it, so does the unlock in the `finally` block, and the lock stays with the
pooled connection (`leaked`), which may take it again on its next scan. `served` is history: slots whose run was sent.

Simplified: saving a schedule is one step (the row is read and written in one short transaction); jobs are `none`,
`unsent`, `sent`, as in `MonitorSlots` (their own life is `MonitorJobs`); a process has one database connection for
life. A worker that leaves a cancelled run without settling it may stay in `trailing`, which only leaves more open.

### EventEnrichment

One action is one query round or one commit of a computation; the code between two of them works on copies. `held` and
`mem` are the identity map of a database session: an event once loaded is not read again before a rollback. Every write
of `event.properties` is the session's copy with one more key (`WriteProps`), and `KeepCopy` is what
`expire_on_commit=False` leaves in the session for the next event of a bulk call. Impacts are measured, then cleared
and stored in one transaction; exposures are three such parts, each with its commit, and a snapshot that names them;
semantics is one row and its label. Generation deletes, inserts (with ON DELETE CASCADE) and summarises in two commits.
Reviews, forced analyses and refreshes of the datasets come at any time; writes fail and processes die. Kinds of keys
stand for their contents; `tag` tells the rows of one computation from those of another. `overlapped` and `disturbed`
are history that names the exceptions of the properties.

### SignIn

A request to `/auth` is sent, reads its rows, commits and is answered in separate steps, because nothing locks a row in
between; the reply sets or clears cookies of the browser, shared by its tabs. A tab has one refresh at a time
(`refreshPromise`): calls answered 401 join it (`Unauthorized`) and are sent again or fail when it settles (`Settle`).
Access tokens and sessions expire, requests are refused, requests and replies are lost. `origin` leads a session back to
its sign-in; `raced` are the sign-ins a row of which two requests held at once, `torn` those whose cookies were lost
with a reply, `ended` those signed out. Tokens are the sessions they name: signatures and hashes are taken to work.
At the start nobody is signed in, one browser is, or both are.

### Quotas

A request arrives, passes the Redis counter of its route (`CountRate`; `RateUnknown` when Redis fails), passes the
quota check (`CheckQuota`, counts read from the database), commits its work (`Perform`: `CreateMonitor`, `StartRun` or
`StoreResults`, for the four kinds of request) and records its use in a second transaction (`Record`, or
`NotRecorded`). Schedules start runs, PATCH and DELETE change monitors, jobs end (`JobEnds`) and an execution that is
still under way may put a settled job back into the queue (`settled`, `JobReturns`, `MS` 1098), an admin changes limits,
windows and days end. `work` and `past` are history: all operations done, and the usage events of earlier days.
Creating monitors and semantic analyses have no rate limit in the code, although `backend/README.md:46` names them; the
model follows the code. PATCH asks no quota when it makes a monitor active, so `StockBounded` excepts the monitors it
resumed. The key of a rate counter is host and user (`app/api/routes/monitors.py:249`); a counter of the model is one
such key, and a user who comes from two hosts has two.

### AlertDelivery

A session creates the alerts of its batch one after the other: look for a duplicate under the user's preference
(`Look`), flush and queue (`Insert`), or meet the unique index and roll the whole session back (`Conflict`); the
caller commits (`Commit`) or not (`Abort`). Workers load the alert, send, and commit the outcome; unclear answers and
lost commits are retried as new messages, 4xx is final. A successful reply whose body is no JSON raises past every
handler (`ReplyUnreadable`, `app/services/email_service.py:100`), and a retry that cannot be published is gone
(`RetryLost`, `app/tasks/alerts.py:50` and `55`); both leave the alert queued. A fault is one failing database
statement, one publication lost, one such reply, or one message delivered again. `surplus` counts e-mails beyond those
that are excused, `stranded` are the alerts of a task that ended in one of these faults without an outcome. No code of
the application calls the functions that create alerts,
although `backend/README.md:47` describes the alerts as persisted for change and run events; they are modelled as
their signatures and tests use them. The provider `none`, which sends nothing, is left out.

### ChangeEvidence

A raster is a set of pixels of a small grid. Preparing masks clouded and invalid pixels. An analysis reads the geometry
of the monitor (`BeginAnalysis`), compares the scenes on the grid of the after scene, chooses the changed pixels and
sieves them for a minimum of any size: a region below it takes the value of its largest neighbour, which may be small
as well and go on to the next, so that chains of small regions end in a large one or, if there is none, stay as they
are; which of equally large neighbours it is, is left open. The flood fill that counts what was removed
(`app/gis/change_detection.py:258-309`) is translated pixel by pixel: `CountSeed`, `CountPixel` and `CountEnd` over
`visited` and `stack`. Events are the 4-connected regions whose simplified polygon still counts a changed, comparable
pixel. The evidence of an event is read from the rasters of that moment. The geometry may be changed and the scenes
prepared again, forced, between any two of these steps; generating events does not look at the geometry
(`app/services/change_event_service.py:353-424`), so an event may lie outside the one the monitor has by then, and
`EventRestsOnEvidence` speaks of the geometry its analysis has read. Scores and the choice of the label are exact, in
units of 1/420.

Chosen freely: which comparable pixels score above the threshold, how a polygon is simplified (by at most `MaxMoved`
pixels), the differences of the indices. The sieve knows no mask and turns small unchanged or clouded holes into
change; when the changed pixels come to outnumber the comparable ones the row is refused by its check constraint (stage
`refused`). Prepared scenes have four bands, so the indices of the labels for buildings and bare ground
(`backend/README.md:177` and on) are never known and these labels never given.

## 3. Runs

Every run is exhaustive for its instance. Passing runs:

| Run | Instance | States | Shows |
|---|---|---|---|
| `jobs_two_workers` | 1 monitor, 2 jobs, 2 workers, 1 retry; 2 requests and no fault, or 1 request and any one of six faults; symmetry | 1.4 million | `OneActiveJob`, `JobAndRunAgree`, `OverlapOnlyWithCancelled`, `CancelledBeforePickupStays` |
| `jobs_one_worker` | 1 worker that may die once, fairness | 310,000 | no job stranded; `JobContract` with its liveness: every job is settled; `MonitorSlots`: a job once sent keeps a message until it is over |
| `pipeline_runs` | four instances: "faults", 3 scenes over 2 days and one crash or loss of files; "forced", 2 scenes, default and forced runs and such a fault; "calls", 2 scenes and an API request at work beside the run; "days", 4 scenes, of which a search returns 3, and days that end during a run; 1 retry, fairness | 449,000 | completed runs have delivered, forced runs repair everything, a cancelled run starts at most two more pieces of work, no unanalysed scene is looked back to but in one known way, events of a pair are stored at most once by each process, every run ends |
| `schedule_scan` | 2 monitors, 2 processes, one of which may die; or 3 monitors and one process, of which `max_due` 2 leaves one out; fairness | 302,000 | scans exclude each other; a served slot is busy or moved on; no due schedule is passed over for ever, also one that the limit leaves out again and again |
| `enrich_events` | 2 sessions, 2 events, 2 features, 3 requests, 1 refresh; symmetry | 1.1 million | stored exposures can be read back, a label has its row, rows are of one computation, keys are lost only by overlap, a complete generation stays |
| `signin_tabs` | 3 tabs in 2 browsers, 3 calls, 3 sessions, 1 form, 1 loss | 1.9 million | one session per sign-in, sign-outs hold, cookies stay usable, no call waits for ever |
| `quotas_parallel` | 2 clients, 3 monitors, limits 1 (overridden to 2 or 0), rate limit 2, 4 requests, 2 changes, 1 outage; symmetry | 2.4 million | limits hold up to the parallel requests, what succeeds is charged once and to its day, rate limits are exact |
| `alerts_faults` | 2 sessions, a run's alert and an event's, 2 workers, 1 retry, 1 fault, 1 change of the preference; fairness | 239,000 | alerts are kept, e-mails sent once, deliveries settle |
| `evidence_chain` | every scene pair and change mask on 2 x 4 pixels, 1 masked pixel, 1 moved pixel, 3 areas, minima 0, 3 and 5, the geometry changed once and scenes prepared again at any point | 1.4 million | events rest on pixels of the analysed geometry that are clear and changed or fill a small hole, the flood fill counts what the sieve removed, labels follow the indices |

Why the bounds are enough: one monitor, because no statement of the job code relates two (the theorems of section 5 are
for any number); two jobs, two requests and two workers, because every race of the code is between two parties and the
longest chain (a cancelled job retried while its successor is enqueued) needs two jobs; one retry, because the counter
only matters as "some left" and "none left"; three scenes, because a pair and one newer or competing scene make all
branches of the choice reachable, and a fourth is what a limit of three leaves out; two due schedules, because the stale
rows of a scan begin with the second, and a third that a limit of two leaves out. Two events and two sessions make every
pair of computations overlap, on one event and in bulk; three requests are a first computation and two that meet over
it. Three tabs are two that share cookies and one that does not; three sessions are two sign-ins and a rotation, or a
rotation of a rotation. Quota limits of 1 are reached by one request, passed by two. Two alerts let a conflict on the
second undo the first. Eight pixels hold a hole, a corner contact, a chain of small regions and regions on both sides of
each minimum. Fault bounds (`MaxFaults`, `MaxLosses`, `MaxOutages`) keep runs finite; one fault is enough for each
hazard listed with it. The instances of `MCRunPipeline`, of `MCScheduleScan` ("faults", "many") and of `MCMonitorJobs`
("faults", "clients") keep apart what would be too large together. Symmetry is used only in runs without liveness and
only over sets none of whose members is named.

`CHECK_DEADLOCK` is off where the bound on requests, or the end of the chain, is the end of the behaviour
(`enrich_events`, `quotas_parallel`, `alerts_faults`, `evidence_chain`) and on everywhere else.

`PreviousAfterAnalysed` names one exception, which TLC reaches in the instance "days": an execution of a run chooses a
pair and dies or is retried; the day ends, or the search is cut short by its limit, and the next execution finds nothing
new. The run ends as NO_NEW_IMAGERY but its row keeps `after_observation_id`, `_resolve_previous_after_observation`
(`MS` 896) takes that scene for analysed, and no later run analyses it. This is a known way in which the code goes
wrong, not something the property permits for good reason; the property says that there is no other.

Violation runs state what a document or a test of the repository says and what the code does not do. Each is a finding
in `PROJECT.json` with both places quoted.

| Run | Property | What TLC shows |
|---|---|---|
| `jobs_cancel_lost` | `CancelledStaysCancelled` | a cancellation committed after the last check is overwritten by `_mark_job_final` |
| `pipeline_retry` | `PreparedScenesReady` | the retry after a transient error in preparation takes the FAILED row for a prepared scene and can only fail |
| `schedule_disabled` | `DisabledHasNoTime` | a schedule disabled while a scan is past its first commit gets a next run all the same |

More departures are known and not the subject of a run:

* A second execution of a redelivered message may set a SUCCEEDED job back to QUEUED (`MS` 1098; `backend/README.md:330`
  says repeated delivery is expected to be safe).
* A run whose search misses the previous scene analyses an older one (`MS` 1380; `backend/README.md:328` speaks of newer
  observations).
* `mixed_change` is given, with `abstained=False`, whatever the coverage (`app/semantic/inference.py:110-112`;
  `backend/README.md:188`: "Returns `uncertain` when evidence is weak or valid event coverage is insufficient").
  `LabelFollowsSignals` says this is the only label given on scarce evidence, and only for two close strong signals.
* An e-mail task that looks before the alert is committed finds nothing and ends, and the alert stays queued for ever.
  `DeliverySettles` is about alerts whose task looks after the commit; no property denies the other case.

Several properties except by name what the code cannot prevent, and so do not catch it: sessions that overlapped on an
event or were disturbed (`EventEnrichment`), sign-ins a row of which two requests held at once (`raced`; a sign-out
whose row has been rotated away meanwhile, `app/services/auth_service.py:351`, does not count as a sign-out either),
sessions rolled back by a conflict and e-mails sent by a second copy or before a lost commit (`AlertDelivery`),
monitors resumed without a check (`Quotas`). These are hazards of `PROJECT.json` that stand as they are; what the
properties show is that nothing else breaks what they state.

## 4. Fairness

* `MonitorJobs`: weak fairness of a request's own steps (a live handler runs on), of every worker's steps (a Celery
  worker polls and executes), and of `Restore` (Redis gives back what a dead worker held). Users need not do anything
  and no fault is fair. Used with one worker: with two, a message can be redelivered to a second execution, for which
  the code does not keep the promise that settled jobs stay settled.
* `RunPipeline`: weak fairness of the worker's step, which includes being restarted after a crash and getting its
  message again.
* `ScheduleScan`: weak fairness of each process's scan. Celery Beat sends a scan every `monitor_schedule_scan_seconds`
  and Redis hands the tasks to whichever worker polls; the assumption is that each worker gets one from time to time.
  It matters only after a lock has leaked: then the process that leaked it is the one that must scan next.
* `AlertDelivery`: weak fairness of every worker's delivery steps. Sessions that create alerts may stop anywhere, and
  no fault is fair. `DeliverySettles` assumes that a task looks for the alert after its commit, and excepts by name the
  alerts of a task that ended in a fault.
* `EventEnrichment`, `SignIn`, `Quotas` and `ChangeEvidence` claim safety only and assume no fairness. That no call of
  a tab waits for ever is stated as the invariant `WaitingHasRefresh`: a browser ends every fetch, with a reply or an
  error.

## 5. Proofs

Every theorem holds for any value of the constants under the assumption of the module it is about, unless stated. Each
is proved from an inductive invariant; the modules state it next to the theorem.

`MonitorJobsProofs`, for any number of monitors, jobs, requests, workers, retries and faults:

* `TypeCorrect`: the type invariant. Inductive together with `Hands` (a process that is past its first step holds a
  monitor, job or message, and a worker about to retry has a retry left), which bounds the counter in a republished
  message.
* `OneActiveJobAlways`: at most one active job per monitor. The invariant needs `Known` (a job that a
  message, a worker or a request refers to has a row), else the start of a workflow could activate a
  row that was never inserted. The argument then rests on two guards: the unique index at insert and retry, and that
  a start only makes an active job running.
* `CancelBeforePickup`: no step changes a job cancelled while neither its own enqueue request nor a worker is at it.
  An action property, from the same invariants.
* `ContractImplemented`: `MonitorJobs` implements `JobContract` (safety) if no message is duplicated, that is without
  ambiguous sends, worker crashes and redelivery. Needs `OneCarrier` (a job has at most one message or request about
  to send it, so at most one execution) and `RunningOrCancelled` (while an execution runs, its job is running or was
  cancelled). With duplicated messages two executions of one
  job overwrite each other's final status.

The same module, as long as no fault has happened (`faults = 0`):

* `JobAndRunAgreeAlways`: the statuses of a job and of its run fit together, whatever cancellations race with workers.
* `ActiveJobHasDriverWhileFaultFree`: a queued job has a message or a request about to send one, a running job a
  message.
* `OverlapOnlyWithCancelledAlways`: two workers execute for one monitor only if one of the jobs is cancelled.

  The invariant says that a message is numbered, either waiting or in work, and in the hands of one worker
  (`CleanHolder`), that a job has one carrier (`CleanCarrier`), and that the rows fit the work that is left
  (`CleanRows`): an active job is driven by a request, a message or a worker, a completed run by nobody any more, which
  is also what a cancel request that read a completed run relies on when it writes. The parts need each other: a second
  carrier would settle a job under the first.

The same module, with one worker (`docker-compose.yml:47`, pool solo, concurrency 1), where two messages of a job are
worked on one after the other:

* `ContractImplementedByOneWorker`: `JobContract` (safety) is then implemented also when workers die in the middle of
  a task, messages come back, publications are lost and the database fails; only a send that raises after the message
  has been stored is excluded, because its request later fails a job that may be running. From `OneHolder` (which
  holds whatever fails, if there is one worker) and `SentOnce`.
* `ActiveJobHasDriverOfOneWorker`: no active job is stranded if the only faults are deaths of the worker and repeated
  deliveries. It needs `NothingDropped`: a job whose task id was revoked is settled, for good (`RevokedSettled`), and a
  message about to be acknowledged belongs to a settled job or to one that has another message (`HandedOn`). The other
  faults strand a job by themselves (they are hazards of `PROJECT.json`). With several workers a crash between
  republication and acknowledgement does: of the two messages one execution settles the job, a cancel request then
  revokes its id, the other execution queues the job again, and its message is dropped.

The same module, on what the schedule scan takes jobs for (`MonitorSlots`):

* `SlotsHoldOfOneWorker`: with one worker, and API requests and workers that die at any step, `MonitorJobs` implements
  `MonitorSlots`, and a worker that writes a final status, and moves the schedule on with it, does so for a job that
  was sent or one it was still in when it was taken from it (`SettlesOwnSlot`).
* `SlotsHoldWithoutFaults`: so do any number of workers as long as nothing fails.

  Both follow from `SlotStep` under `SlotInv`: a worker holds an unacknowledged message (`Held`), no request is about to
  send a job that a worker executes (`Apart`), its job is running or cancelled, and nothing is dropped. TLC
  shows that each condition is needed: with two workers and one message delivered twice, or one worker dead after
  republishing, an execution settles the job under another, which may queue it again; a lost republication or a failed
  commit leaves a job that was sent without a message.

`EventEnrichmentProofs`: every property of the run `enrich_events`, for any sessions, features and bounds and finitely
many events. `TypeCorrect`; then `Sound`, one part for each property: a label that is stored, or in the copy of any
session, has its row or is of a deleted event (`LabelsKnown`); the copy of a session that overlapped nobody holds all
the event has (`CopiesCurrent`, for `KeysLostOnlyByOverlapAlways`); a snapshot has its parts, in the row, in every
copy, and already while a session works towards it (`ExposureParts`); the rows a session is about to delete are all
there are, and rows of two computations do not mix, unless sessions overlapped (`RowsApart`); and undisturbed
generations happen one at a time and leave the number of events they recorded (`Generations`).

`RunPipelineProofs`, for any finite set of scenes and any number of API callers and retries:

* `TypeCorrect`: inductive with `Paired`: a process that compares or vectorises holds a pair in the order of time, the
  worker that of its run.
* `CompletedRunDeliversAlways`, from `Delivered`: what a run has passed on its way is analysed, stored and summarised.
* `ForcedRunFindsProductsAlone`, without API callers, from `Repaired`: what a forced run has passed is ready.
* `PreviousAfterAnalysedAlways`, from `LookBack`: as long as the searches of a run have not `moved`, its pair lies in
  its search window, its after scene is newer than the scene looked back to, and a retry finds all three again; when
  they have, what the run leaves is `skipped`. The newest of a set of scenes exists (`NewestExists`) because strict
  inclusion of finite sets is well-founded.
* `DuplicatesBoundedAlways`, from `Single`: a process about to store the events of its pair has none of its own in the
  table, or its DELETE has seen them.
* `CancelBoundsWorkAlways`. `lateWork <= 2` is not inductive; `LateBound` adds what the worker may still start before it
  looks at the job again (`StillToStart`: both preparations before the first, otherwise at most one), and that before a
  cancellation nothing counts. API calls leave it alone (`LateBoundStays`).

`ScheduleScanProofs`: `TypeCorrect`; `OneScanAtATimeAlways`, from `LockHeld`: whoever scans, and whatever connection
failed to give the lock back, holds it. `ServedSlotIsBusyAlways` from `Rows` (a due slot that was served has its job
sent and is enabled), which needs `Scans`: the rows a scan has selected are of different monitors, and only one scan
works. `SlotsRespectedAlways`: `ScheduleScan` implements `MonitorSlots` as well, with its own variables, so what it lets
users, workers and scans do to a job is within what `MonitorJobs` was shown to keep to under the conditions above.

`SignInProofs`: `TypeCorrect` needs `Tokens` (refreshes and sign-outs carry the token of a session), since a rotation
writes a row for the token it was given. `WaitingHasRefreshAlways` is inductive with the types.
`OneSessionPerSignInAlways` and `SignOutHoldsAlways` rest on `Rotation`: what a request holds is still open unless it
was raced (`HeldRows`), an unused row is nobody's ancestor (`UnusedRows`), and of each sign-in that was not raced at
most one row is open, none once it has ended (`OpenRows`). `CookiesUsableAlways` rests on `Cookie`: a refresh token is
known to one browser, a session on its way to a browser to nobody (`TokensApart`, `ResultsApart`), and what took the
row of a browser's cookies is about to bring new ones (`Replaced`).

`QuotasProofs`: `TypeCorrect`; `RateHoldsAlways` from `Counted` (what was let through is counted or was an outage);
`ChargedOnceAlways` and `DailyUseBoundedAlways` from `Accounts`: the usage events of all days, those lost and those
still to be written are the operations done; those of today and those to be written exceed today's operations by at most
the requests under way when the day began; and recorded use and requests past the check together exceed the highest
limit by at most the parallel requests. `StockBoundedAlways` from `Rooms`, the same for rows: a request past its check
has a place reserved. Both need finitely many clients.

`AlertDeliveryProofs`: `TypeCorrect`; `AlertsAreKeptAlways` from `Passed` (what a session has passed is kept, and it
commits nothing before its last alert); `EmailedOnceAlways` from `Mails`, which reserves an e-mail for each worker on
its way to the provider and needs finitely many workers.

`ChangeEvidenceProofs`, for grids of any size, any areas, differences, minima and bounds: `EventRestsOnEvidenceAlways`
and `RemovedChangesCountedAlways` from `Chain`, which says of every stage which sets the masks of this stage were
computed from. They rest on lemmas about regions: the regions of a set are non-empty, disjoint and leave nothing out
(`RegionsPartition`; a smallest closed part around a pixel exists because the grid is finite) and the sieve adds only
what lies in a small hole (`SieveFills`). The count of the flood fill needs an invariant of its own (`Fill`): whatever
touches a pixel taken from the stack has been visited, the stack lies in one region, and the regions counted so far are
those visited and left behind (`Done`); when the stack is empty a visited region is visited whole (`VisitedWhole`), so
at the end (`FillEnd`) the counter is the number of regions of which the sieve has left no pixel, whatever the order
in which the stack was emptied. `LabelFollowsSignalsAlways` comes from what a strong score says of its index
(`StrongScores`), for all integer differences.

The provers do not handle liveness under fairness, ENABLED or induction over data. Model-checked only, therefore: the
liveness properties (`ContractHolds` in its fair part, `RunEnds`, `DueIsServed`, `DeliverySettles`). Every invariant and
action property of the passing runs is the subject of a theorem, four of them (`ActiveJobHasDriver`, `SlotsHold`,
`ForcedRunFindsProducts`, `ContractHolds` in its safe part) under the conditions stated with it. No module declares a
RECURSIVE operator.

## 6. Plan

Done: the job life cycle and its contract, the workflow with scene selection, the schedule scan, the enrichment of
events, sign-in sessions, quotas, alerts, the chain from scenes to labels, and `MonitorSlots` between jobs and
schedules, with theorems about all of them. Next:

1. Significance ratings, severity and confidence as functions over bounded inputs.
2. The raster files as state: a forced preparation that overwrites what another process is reading.

## 7. Not modelled

Reflectances and the thresholds on them, geometry predicates (shapely, PostGIS), embeddings, confidence, severity and
significance ratings; HTTP details, formatting and progress display; parsing and paging of the provider clients
(`context/`, `satellite/`), which are stateless: the modules that call them take every answer as possible; artifact
delivery, explore pages, summaries and health routes, which only read; the display part of the frontend; passwords,
signatures and hashes; replacement of database connections by the pool; loss of the whole Redis store; transaction
isolation below committed reads.
