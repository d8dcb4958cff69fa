-------------------------------- MODULE Quotas --------------------------------
(***************************************************************************)
(* Rate limits and quotas of one user.  A request passes a Redis counter    *)
(* (some routes), then a quota check that reads counts from the database,   *)
(* then does its work and commits it, and only then records its use in a    *)
(* second transaction.  Requests of the user run in parallel, in several    *)
(* API threads or processes, and no lock spans these steps.                 *)
(*                                                                          *)
(* Two quotas count rows (monitors, active monitors), one counts jobs in    *)
(* work, three count the usage events of the UTC day.  The scheduler starts *)
(* runs and PATCH changes monitors without asking any of them.              *)
(***************************************************************************)
EXTENDS Integers, FiniteSets

CONSTANTS Client,                  \* requests of the user that may run in parallel
          Monitor,                 \* monitors that may exist
          Default, Override,       \* default limits; those an admin may set
          RateLimit,               \* requests admitted in one window
          MaxRequests, MaxChanges, \* bounds: requests; changes from elsewhere
          MaxOutages               \* bound on failing calls to Redis

Kind  == {"create", "run", "search", "semantic"}
Daily == {"run", "search", "semantic"}
Quota == Daily \cup {"monitors", "active", "jobs"}
RateLimited == {"run", "search"}

ASSUME QuotasAssumption ==
    /\ IsFiniteSet(Client) /\ Client # {}
    /\ IsFiniteSet(Monitor)
    /\ Default \in [Quota -> Nat] /\ Override \subseteq [Quota -> Nat]
    /\ RateLimit \in Nat
    /\ MaxRequests \in Nat /\ MaxChanges \in Nat /\ MaxOutages \in Nat

VARIABLES
    monitor, jobs,             \* monitors by status; those with an active job
    settled,                   \* those of which an execution of a settled job may still fail
    used, past, limit,         \* usage events of today, of earlier days; limits in force
    count,                     \* Redis counters of the current window
    kind, phase,               \* the request of each client and where it is
    requests, changes, outages,                             \* bounds
    done, work, lost, admitted, peak, resumed, unchecked  \* history

database == <<monitor, jobs, settled, used, past, limit>>
bounds   == <<requests, changes, outages>>
history  == <<done, work, lost, admitted, peak, resumed, unchecked>>
vars     == <<database, count, kind, phase, bounds, history>>

TypeOK ==
    /\ monitor \in [Monitor -> {"absent", "active", "paused"}]
    /\ jobs \subseteq {m \in Monitor : monitor[m] # "absent"}
    /\ settled \subseteq {m \in Monitor : monitor[m] # "absent"}
    /\ used \in [Daily -> Nat] /\ past \in [Daily -> Nat]
    /\ limit \in [Quota -> Nat]
    /\ count \in [RateLimited -> Nat]
    /\ kind \in [Client -> Kind]
    /\ phase \in [Client -> {"idle", "arrived", "admitted", "checked", "performed"}]
    /\ requests \in 0 .. MaxRequests
    /\ changes \in 0 .. MaxChanges
    /\ outages \in 0 .. MaxOutages
    /\ done \in [Daily -> Nat] /\ work \in [Daily -> Nat] /\ lost \in [Daily -> Nat]
    /\ admitted \in [Kind -> Nat]
    /\ peak \in [Quota -> Nat]
    /\ resumed \subseteq Monitor /\ unchecked \subseteq Monitor

Init ==
    /\ monitor = [m \in Monitor |-> "absent"]
    /\ jobs = {} /\ settled = {}
    /\ used = [k \in Daily |-> 0] /\ past = [k \in Daily |-> 0]
    /\ limit = Default
    /\ count = [k \in RateLimited |-> 0]
    /\ kind = [c \in Client |-> "create"]
    /\ phase = [c \in Client |-> "idle"]
    /\ requests = 0 /\ changes = 0 /\ outages = 0
    /\ done = [k \in Daily |-> 0] /\ work = [k \in Daily |-> 0]
    /\ lost = [k \in Daily |-> 0]
    /\ admitted = [k \in Kind |-> 0]
    /\ peak = Default
    /\ resumed = {} /\ unchecked = {}

Existing == {m \in Monitor : monitor[m] # "absent"}
Active   == {m \in Monitor : monitor[m] = "active"}

-----------------------------------------------------------------------------
(* The steps of a request.                                                  *)

Goto(c, p) ==
    /\ phase' = [phase EXCEPT ![c] = p]
    /\ UNCHANGED kind

(* The request is answered.                                                 *)
End(c) ==
    /\ phase' = [phase EXCEPT ![c] = "idle"]
    /\ kind' = [kind EXCEPT ![c] = "create"]

Plus(f, k, n) == IF k \in DOMAIN f THEN [f EXCEPT ![k] = @ + n] ELSE f

Arrive(c, k) ==
    /\ phase[c] = "idle"
    /\ requests < MaxRequests
    /\ requests' = requests + 1
    /\ kind' = [kind EXCEPT ![c] = k]
    /\ phase' = [phase EXCEPT ![c] = "arrived"]
    /\ UNCHANGED <<database, count, changes, outages, history>>

Admit(c) ==
    /\ Goto(c, "admitted")
    /\ admitted' = Plus(admitted, kind[c], 1)

(* Mutant: the counter is compared as it was before the increment.          *)
CountRateBefore(c) ==
    LET k == kind[c]
    IN  /\ phase[c] = "arrived"
        /\ k \in RateLimited
        /\ count' = Plus(count, k, 1)
        /\ IF count[k] <= RateLimit THEN Admit(c) ELSE End(c) /\ UNCHANGED admitted
        /\ UNCHANGED <<database, bounds, done, work, lost, peak, resumed, unchecked>>

(* INCR counts a request before it is compared, also one that is rejected.  *)
CountRate(c) ==
    LET k == kind[c]
    IN  /\ phase[c] = "arrived"
        /\ k \in RateLimited
        /\ count' = Plus(count, k, 1)
        /\ IF count[k] < RateLimit THEN Admit(c) ELSE End(c) /\ UNCHANGED admitted
        /\ UNCHANGED <<database, bounds, done, work, lost, peak, resumed, unchecked>>

(* Redis fails, before or after the increment: the request is let through.  *)
RateUnknown(c) ==
    /\ phase[c] = "arrived"
    /\ kind[c] \in RateLimited
    /\ outages < MaxOutages
    /\ outages' = outages + 1
    /\ count' \in {count, Plus(count, kind[c], 1)}
    /\ Admit(c)
    /\ UNCHANGED <<database, requests, changes,
                   done, work, lost, peak, resumed, unchecked>>

(* Routes without a rate limit.                                             *)
NoRate(c) ==
    /\ phase[c] = "arrived"
    /\ kind[c] \notin RateLimited
    /\ Admit(c)
    /\ UNCHANGED <<database, count, bounds,
                   done, work, lost, peak, resumed, unchecked>>

(* What counts towards a quota (get_quota_usage).                           *)
InUse(q) ==
    CASE q = "monitors" -> Cardinality(Existing)
      [] q = "active"   -> Cardinality(Active)
      [] q = "jobs"     -> Cardinality(jobs)
      [] OTHER          -> used[q]

(* Mutant: the limit itself is still allowed.                               *)
BelowOrAt(q) == InUse(q) <= limit[q]

Below(q) == InUse(q) < limit[q]

QuotasOf(k) == CASE k = "create" -> {"monitors", "active"}
                 [] k = "run"    -> {"run", "jobs"}
                 [] OTHER        -> {k}

CheckQuota(c) ==
    /\ phase[c] = "admitted"
    /\ IF \A q \in QuotasOf(kind[c]) : Below(q) THEN Goto(c, "checked") ELSE End(c)
    /\ UNCHANGED <<database, count, bounds, history>>

(* The work commits: a monitor, a run with its job (an index of the          *)
(* database admits one active job of a monitor), observations or labels.    *)
CreateMonitor(c) ==
    /\ kind[c] = "create"
    /\ \E m \in Monitor \ Existing : monitor' = [monitor EXCEPT ![m] = "active"]
    /\ UNCHANGED jobs

StartRun(c) ==
    /\ kind[c] = "run"
    /\ \E m \in Existing \ jobs : jobs' = jobs \cup {m}
    /\ UNCHANGED monitor

StoreResults(c) ==
    /\ kind[c] \in {"search", "semantic"}
    /\ UNCHANGED <<monitor, jobs>>

Perform(c) ==
    /\ phase[c] = "checked"
    /\ CreateMonitor(c) \/ StartRun(c) \/ StoreResults(c)
    /\ Goto(c, "performed")
    /\ done' = Plus(done, kind[c], 1)
    /\ work' = Plus(work, kind[c], 1)
    /\ UNCHANGED <<settled, used, past, limit, count, bounds, lost,
                   admitted, peak, resumed, unchecked>>

(* Mutant: the use is recorded first, and stays when the work then fails.   *)
RefuseCharged(c) ==
    /\ phase[c] \in {"arrived", "admitted", "checked"}
    /\ End(c)
    /\ used' = IF phase[c] = "checked" THEN Plus(used, kind[c], 1) ELSE used
    /\ UNCHANGED <<monitor, jobs, settled, past, limit, count, bounds, history>>

(* Area too large, conflict, queue or provider unavailable, nothing to do,  *)
(* not found, failing database: nothing is committed and nothing recorded.  *)
Refuse(c) ==
    /\ phase[c] \in {"arrived", "admitted", "checked"}
    /\ End(c)
    /\ UNCHANGED <<database, count, bounds, history>>

(* Mutant: the usage event is flushed and never committed.                  *)
RecordUncommitted(c) ==
    /\ phase[c] = "performed"
    /\ End(c)
    /\ UNCHANGED <<database, count, bounds, history>>

Record(c) ==
    /\ phase[c] = "performed"
    /\ End(c)
    /\ used' = Plus(used, kind[c], 1)
    /\ UNCHANGED <<monitor, jobs, settled, past, limit, count, bounds, history>>

(* The usage event cannot be written, the request fails after its work was  *)
(* committed, or the process dies before the event is.                      *)
NotRecorded(c) ==
    /\ phase[c] = "performed"
    /\ End(c)
    /\ lost' = Plus(lost, kind[c], 1)
    /\ UNCHANGED <<database, count, bounds,
                   done, work, admitted, peak, resumed, unchecked>>

-----------------------------------------------------------------------------
(* What else changes the counts.                                            *)

Change ==
    /\ changes < MaxChanges
    /\ changes' = changes + 1
    /\ UNCHANGED <<kind, phase, requests, outages, work, lost>>

ScheduledRun(m) ==
    /\ Change
    /\ m \in Active \ jobs
    /\ jobs' = jobs \cup {m}
    /\ unchecked' = unchecked \cup {m}
    /\ UNCHANGED <<monitor, settled, used, past, limit, count, done, admitted, peak, resumed>>

(* A job is settled; another execution of it may still be under way.        *)
JobEnds(m) ==
    /\ m \in jobs
    /\ jobs' = jobs \ {m}
    /\ settled' \in {settled, settled \cup {m}}
    /\ unchecked' = unchecked \ {m}
    /\ UNCHANGED <<monitor, used, past, limit, count, kind, phase, bounds,
                   done, work, lost, admitted, peak, resumed>>

(* That execution meets a transient error: the job is queued again, unless  *)
(* its monitor has another active job by then.                              *)
JobReturns(m) ==
    /\ Change
    /\ m \in settled \ jobs
    /\ jobs' = jobs \cup {m}
    /\ settled' = settled \ {m}
    /\ unchecked' = unchecked \cup {m}
    /\ UNCHANGED <<monitor, used, past, limit, count, done, admitted, peak, resumed>>

PatchStatus(m, s) ==
    /\ Change
    /\ m \in Existing
    /\ monitor' = [monitor EXCEPT ![m] = s]
    /\ resumed' = IF s = "active" /\ monitor[m] = "paused" THEN resumed \cup {m} ELSE resumed
    /\ UNCHANGED <<jobs, settled, used, past, limit, count, done, admitted, peak, unchecked>>

Delete(m) ==
    /\ Change
    /\ m \in Existing
    /\ monitor' = [monitor EXCEPT ![m] = "absent"]
    /\ jobs' = jobs \ {m}
    /\ settled' = settled \ {m}
    /\ resumed' = resumed \ {m}
    /\ unchecked' = unchecked \ {m}
    /\ UNCHANGED <<used, past, limit, count, done, admitted, peak>>

(* An admin writes the user's override; the next check reads it.            *)
SetOverride(new) ==
    /\ Change
    /\ limit' = new
    /\ peak' = [q \in Quota |-> IF new[q] > peak[q] THEN new[q] ELSE peak[q]]
    /\ UNCHANGED <<monitor, jobs, settled, used, past, count, done, admitted, resumed, unchecked>>

Midnight ==
    /\ Change
    /\ used' = [k \in Daily |-> 0]
    /\ past' = [k \in Daily |-> past[k] + used[k]]
    /\ done' = [k \in Daily |-> 0]
    /\ UNCHANGED <<monitor, jobs, settled, limit, count, admitted, peak, resumed, unchecked>>

NextWindow ==
    /\ Change
    /\ count' = [k \in RateLimited |-> 0]
    /\ admitted' = [k \in Kind |-> 0]
    /\ UNCHANGED <<database, done, peak, resumed, unchecked>>

Next ==
    \/ \E c \in Client :
          \/ \E k \in Kind : Arrive(c, k)
          \/ CountRate(c) \/ RateUnknown(c) \/ NoRate(c) \/ CheckQuota(c)
          \/ Perform(c) \/ Refuse(c) \/ Record(c) \/ NotRecorded(c)
    \/ \E m \in Monitor :
          \/ ScheduledRun(m) \/ JobEnds(m) \/ JobReturns(m) \/ Delete(m)
          \/ \E s \in {"active", "paused"} : PatchStatus(m, s)
    \/ \E new \in Override : SetOverride(new)
    \/ Midnight \/ NextWindow

Spec == Init /\ [][Next]_vars

-----------------------------------------------------------------------------
(* What must hold.  All bounds are in terms of the highest limit that was   *)
(* in force and of the requests that may run side by side: a user who sends *)
(* one request at a time cannot pass a limit at all.                        *)

Slack == Cardinality(Client) - 1

(* What the user got done in a day: within the limit, but for what parallel *)
(* requests got past it together and what could not be recorded.            *)
DailyUseBounded == \A k \in Daily : done[k] <= peak[k] + Slack + lost[k]

(* Monitors and jobs likewise; the exceptions are the active monitors a     *)
(* PATCH resumed and the jobs the scheduler started or a late execution put *)
(* back into the queue, which no quota checks.                              *)
StockBounded ==
    /\ Cardinality(Existing) <= peak["monitors"] + Slack
    /\ Cardinality(Active \ resumed) <= peak["active"] + Slack
    /\ Cardinality(jobs \ unchecked) <= peak["jobs"] + Slack

(* The usage events stored are the operations that succeeded, each once,    *)
(* but for those whose event was lost or is still to be written; and a day  *)
(* is charged for what was done on it, but for the requests that were under *)
(* way when it began.                                                       *)
ChargedOnce ==
    \A k \in Daily :
        LET unrecorded == Cardinality({c \in Client : phase[c] = "performed" /\ kind[c] = k})
        IN  /\ past[k] + used[k] + lost[k] + unrecorded = work[k]
            /\ used[k] + unrecorded <= done[k] + Cardinality(Client)

(* The counters are exact under any interleaving, but for what was let      *)
(* through while Redis failed.                                              *)
RateHolds == \A k \in RateLimited : admitted[k] <= RateLimit + outages
===============================================================================
