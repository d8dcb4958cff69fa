---------------------------- MODULE ScheduleScan ----------------------------
(***************************************************************************)
(* Monitor schedules and the periodic scan that enqueues their runs         *)
(* (upsert_monitor_schedule, scan_monitor_schedules), with what changes a   *)
(* schedule under the scan: users who save it, pause or delete the monitor, *)
(* runs by hand, and workers that settle a run.                             *)
(*                                                                         *)
(* Time is what the scan sees of it: next_run_after is null, later than now *)
(* or due, and the due ones are ordered by next_run_after.                  *)
(* A monitor without a schedule row is one whose schedule is disabled and   *)
(* has no next_run_after.                                                   *)
(***************************************************************************)
EXTENDS Naturals, Sequences, Functions

CONSTANTS Monitors,
          Scanners,   \* worker processes, each with one database connection
          MaxDue,     \* max_due of one scan
          Faults,     \* subset of {"crash"}
          MaxFaults,  \* bound on them
          NoScanner

ASSUME ScanAssumption ==
    /\ MaxDue \in Nat \ {0}
    /\ MaxFaults \in Nat
    /\ NoScanner \notin Scanners

VARIABLES
    alive, paused,        \* monitors
    enabled, due, later,  \* schedules: switch; due; with a time to come
    before,               \* which of two due schedules has been due for longer
    job,                  \* the monitor's active job, if any
    trailing,             \* monitors with a worker still in a cancelled run
    lock, leaked,         \* advisory lock; connections that never give it back
    pc, todo, held,       \* a scan: step, rows still to handle, rows locked
    doomed,               \* the session holds a change of a deleted row
    served,               \* history: schedules whose present slot has had its run
    faults

schedules == <<enabled, due, before, later>>
scan      == <<lock, leaked, pc, todo, held, doomed>>
vars == <<alive, paused, schedules, job, trailing, scan, served, faults>>

Timed(m) == m \in due \cup later

TypeOK ==
    /\ alive \in [Monitors -> BOOLEAN] /\ paused \in [Monitors -> BOOLEAN]
    /\ enabled \in [Monitors -> BOOLEAN]
    /\ due \subseteq Monitors /\ later \subseteq Monitors /\ due \cap later = {}
    /\ before \subseteq due \X due
    /\ \A m, n \in due : m # n => (<<m, n>> \in before <=> <<n, m>> \notin before)
    /\ \A m \in due : <<m, m>> \notin before
    /\ \A l, m, n \in due : <<l, m>> \in before /\ <<m, n>> \in before => <<l, n>> \in before
    /\ job \in [Monitors -> {"none", "unsent", "sent"}]
    /\ trailing \subseteq Monitors /\ served \subseteq Monitors
    /\ lock \in Scanners \cup {NoScanner} /\ leaked \subseteq Scanners
    /\ pc \in [Scanners -> {"idle", "select", "each", "insert", "send", "move", "reload"}]
    /\ todo \in [Scanners -> Seq(Monitors)]
    /\ \A s \in Scanners : Len(todo[s]) <= MaxDue
    /\ \A s \in Scanners : held[s] \subseteq Range(todo[s])
    /\ doomed \in [Scanners -> BOOLEAN]
    /\ faults \in 0 .. MaxFaults

Init ==
    /\ alive = [m \in Monitors |-> TRUE] /\ paused = [m \in Monitors |-> FALSE]
    /\ enabled = [m \in Monitors |-> FALSE] /\ due = {} /\ before = {} /\ later = {}
    /\ job = [m \in Monitors |-> "none"] /\ trailing = {} /\ served = {}
    /\ lock = NoScanner /\ leaked = {}
    /\ pc = [s \in Scanners |-> "idle"] /\ todo = [s \in Scanners |-> <<>>]
    /\ held = [s \in Scanners |-> {}] /\ doomed = [s \in Scanners |-> FALSE]
    /\ faults = 0
------------------------------------------------------------------------------
(* next_run_after of m: later than now, null, or now.                       *)
Leave(m)    == /\ due' = due \ {m}
               /\ before' = {p \in before : m \notin {p[1], p[2]}}
SetLater(m) == Leave(m) /\ later' = later \cup {m}
SetNull(m)  == Leave(m) /\ later' = later \ {m}
SetNow(m)   == /\ due' = due \cup {m}
               /\ before' = {p \in before : m \notin {p[1], p[2]}} \cup ((due \ {m}) \X {m})
               /\ later' = later \ {m}
               /\ served' = served \ {m}

(* The rows of m are locked FOR UPDATE by the first transaction of a scan.  *)
Locked(m) == \E s \in Scanners : m \in held[s]

Fault(f) == f \in Faults /\ faults < MaxFaults /\ faults' = faults + 1
------------------------------------------------------------------------------
(* Users.  upsert_monitor_schedule changes the columns whose values differ  *)
(* from the row it reads: a schedule switched on is due at once unless it   *)
(* has a time already, one switched off has none.                           *)
SaveSchedule(m, on) ==
    /\ alive[m] /\ ~ Locked(m)
    /\ enabled' = [enabled EXCEPT ![m] = on]
    /\ \/ on /\ ~ Timed(m) /\ SetNow(m)
       \/ on /\ Timed(m) /\ UNCHANGED <<due, before, later, served>>
       \/ ~ on /\ SetNull(m) /\ UNCHANGED served
    /\ UNCHANGED <<alive, paused, job, trailing, scan, faults>>

SetStatus(m) ==
    /\ alive[m] /\ ~ Locked(m)
    /\ paused' = [paused EXCEPT ![m] = ~ @]
    /\ UNCHANGED <<alive, schedules, job, trailing, scan, served, faults>>

(* The delete cascades to the schedule and to the jobs.                     *)
DeleteMonitor(m) ==
    /\ alive[m] /\ ~ Locked(m)
    /\ alive' = [alive EXCEPT ![m] = FALSE]
    /\ paused' = [paused EXCEPT ![m] = FALSE]
    /\ enabled' = [enabled EXCEPT ![m] = FALSE]
    /\ SetNull(m)
    /\ job' = [job EXCEPT ![m] = "none"]
    /\ trailing' = trailing \ {m}
    /\ UNCHANGED <<scan, served, faults>>

(* A run somebody asked for; the insert needs a key lock on the monitor.    *)
RunByHand(m) ==
    /\ alive[m] /\ ~ Locked(m) /\ job[m] = "none"
    /\ job' = [job EXCEPT ![m] = "sent"]
    /\ UNCHANGED <<alive, paused, schedules, trailing, scan, served, faults>>

(* Cancelling leaves the schedule alone; a worker in the middle of the run  *)
(* will still settle it.                                                    *)
CancelRun(m) ==
    /\ job[m] # "none"
    /\ job' = [job EXCEPT ![m] = "none"]
    /\ trailing' \in IF job[m] = "sent" THEN {trailing, trailing \cup {m}} ELSE {trailing}
    /\ served' = served \ {m}
    /\ UNCHANGED <<alive, paused, schedules, scan, faults>>

(* Mutant: a settled run leaves the schedule to the scan.                   *)
SettleRunKeepsSlot(m) ==
    /\ ~ Locked(m)
    /\ \/ /\ job[m] = "sent"
          /\ job' = [job EXCEPT ![m] = "none"]
          /\ UNCHANGED trailing
       \/ /\ m \in trailing
          /\ trailing' \in {trailing, trailing \ {m}}
          /\ UNCHANGED job
    /\ UNCHANGED <<alive, paused, schedules, scan, served, faults>>

(* _mark_job_final with _update_schedule_after_run.  More than one worker   *)
(* may be in a cancelled run of m.                                          *)
SettleRun(m) ==
    /\ ~ Locked(m)
    /\ \/ /\ job[m] = "sent"
          /\ job' = [job EXCEPT ![m] = "none"]
          /\ UNCHANGED trailing
       \/ /\ m \in trailing
          /\ trailing' \in {trailing, trailing \ {m}}
          /\ UNCHANGED job
    /\ IF enabled[m] THEN SetLater(m) ELSE UNCHANGED <<due, before, later>>
    /\ UNCHANGED <<alive, paused, enabled, scan, served, faults>>

(* Time passes: the next_run_after of m is reached.                         *)
Elapse(m) ==
    /\ m \in later
    /\ SetNow(m)
    /\ UNCHANGED <<alive, paused, enabled, job, trailing, scan, faults>>
------------------------------------------------------------------------------
(* The scan.                                                                *)
Goto(s, step) == pc' = [pc EXCEPT ![s] = step]

(* Mutant: the scan goes on whether or not it got the lock.                 *)
TryLockIgnored(s) ==
    /\ pc[s] = "idle"
    /\ lock' = s
    /\ Goto(s, "select")
    /\ UNCHANGED <<alive, paused, schedules, job, trailing, leaked, todo,
                   held, doomed, served, faults>>

(* pg_try_advisory_lock; it succeeds again on a connection that has it.     *)
TryLock(s) ==
    /\ pc[s] = "idle"
    /\ lock \in {NoScanner, s}
    /\ lock' = s
    /\ Goto(s, "select")
    /\ UNCHANGED <<alive, paused, schedules, job, trailing, leaked, todo,
                   held, doomed, served, faults>>

(* Mutant: the rows come in any order, and the limit leaves any of them out. *)
SelectDueUnordered(s) ==
    /\ pc[s] = "select"
    /\ LET ready == {m \in due : enabled[m] /\ ~ paused[m] /\ ~ Locked(m)}
       IN  \E n \in 0 .. MaxDue : \E rows \in [1 .. n -> ready] :
              /\ IsInjective(rows)
              /\ ready # Range(rows) => n = MaxDue
              /\ todo' = [todo EXCEPT ![s] = rows]
              /\ held' = [held EXCEPT ![s] = Range(rows)]
    /\ Goto(s, "each")
    /\ UNCHANGED <<alive, paused, schedules, job, trailing, lock, leaked,
                   doomed, served, faults>>

(* Due rows of enabled schedules of active monitors, those longest due      *)
(* first, FOR UPDATE SKIP LOCKED.                                           *)
SelectDue(s) ==
    /\ pc[s] = "select"
    /\ LET ready == {m \in due : enabled[m] /\ ~ paused[m] /\ ~ Locked(m)}
       IN  \E n \in 0 .. MaxDue : \E rows \in [1 .. n -> ready] :
              /\ \A i, j \in 1 .. n : i < j => <<rows[i], rows[j]>> \in before
              /\ \A m \in ready \ Range(rows) : /\ n = MaxDue
                                                /\ \A i \in 1 .. n : <<rows[i], m>> \in before
              /\ todo' = [todo EXCEPT ![s] = rows]
              /\ held' = [held EXCEPT ![s] = Range(rows)]
    /\ Goto(s, "each")
    /\ UNCHANGED <<alive, paused, schedules, job, trailing, lock, leaked,
                   doomed, served, faults>>

(* The scan ends, giving back one of the connection's holds of the lock     *)
(* unless the unlock fails on a broken transaction.                         *)
Leaves(s, unlocked) ==
    /\ leaked' = IF unlocked THEN leaked ELSE leaked \cup {s}
    /\ lock' = IF lock # s THEN lock ELSE IF unlocked /\ s \notin leaked THEN NoScanner ELSE s
    /\ Goto(s, "idle")
    /\ todo' = [todo EXCEPT ![s] = <<>>]
    /\ held' = [held EXCEPT ![s] = {}]
    /\ doomed' = [doomed EXCEPT ![s] = FALSE]

(* The next row is looked at as it was selected.  With an active job it is  *)
(* skipped; the change of a row deleted since stays in the session.         *)
Examine(s) ==
    /\ pc[s] = "each" /\ todo[s] # <<>>
    /\ LET m == Head(todo[s])
       IN  \/ /\ job[m] # "none"
              /\ Goto(s, "move")
              /\ UNCHANGED <<todo, doomed>>
           \/ /\ job[m] = "none" /\ alive[m]
              /\ Goto(s, "insert")
              /\ UNCHANGED <<todo, doomed>>
           \/ /\ ~ alive[m]
              /\ todo' = [todo EXCEPT ![s] = Tail(@)]
              /\ doomed' = [doomed EXCEPT ![s] = TRUE]
              /\ UNCHANGED pc
    /\ UNCHANGED <<alive, paused, schedules, job, trailing, lock, leaked,
                   held, served, faults>>

(* enqueue_monitor_run_job: the insert is the first commit, which ends the  *)
(* row locks.  A job inserted meanwhile is a conflict; a deleted row ends   *)
(* the scan after a rollback.                                               *)
InsertRun(s) ==
    /\ pc[s] = "insert"
    /\ LET m == Head(todo[s])
       IN  /\ \A t \in Scanners \ {s} : m \notin held[t]
           /\ \/ /\ ~ alive[m] \/ (doomed[s] /\ job[m] = "none")
                 /\ Leaves(s, TRUE)
                 /\ UNCHANGED job
              \/ /\ alive[m] /\ job[m] # "none"
                 /\ Goto(s, "reload")
                 /\ held' = [held EXCEPT ![s] = {}]
                 /\ doomed' = [doomed EXCEPT ![s] = FALSE]
                 /\ UNCHANGED <<job, lock, leaked, todo>>
              \/ /\ alive[m] /\ job[m] = "none" /\ ~ doomed[s]
                 /\ job' = [job EXCEPT ![m] = "unsent"]
                 /\ Goto(s, "send")
                 /\ held' = [held EXCEPT ![s] = {}]
                 /\ UNCHANGED <<lock, leaked, todo, doomed>>
    /\ UNCHANGED <<alive, paused, schedules, trailing, served, faults>>

(* The task is published; storing its id fails on a deleted job, which      *)
(* nobody catches.  If it cannot be published the job fails.                *)
SendRun(s) ==
    /\ pc[s] = "send"
    /\ LET m == Head(todo[s])
       IN  \/ /\ alive[m]
              /\ job' = [job EXCEPT ![m] = IF @ = "unsent" THEN "sent" ELSE @]
              /\ served' = IF job[m] = "unsent" THEN served \cup {m} ELSE served
              /\ Goto(s, "move")
              /\ UNCHANGED <<lock, leaked, todo, held, doomed>>
           \/ /\ ~ alive[m]
              /\ Leaves(s, FALSE)
              /\ UNCHANGED <<job, served>>
           \/ /\ job' = [job EXCEPT ![m] = IF @ = "unsent" THEN "none" ELSE @]
              /\ Goto(s, "reload")
              /\ UNCHANGED <<lock, leaked, todo, held, doomed, served>>
    /\ UNCHANGED <<alive, paused, schedules, trailing, faults>>

(* Mutant: the new next_run_after is flushed but not committed per schedule. *)
MoveOnFlushes(s) ==
    /\ pc[s] \in {"move", "reload"}
    /\ LET m == Head(todo[s])
       IN  /\ \A t \in Scanners \ {s} : m \notin held[t]
           /\ \/ /\ alive[m] /\ ~ doomed[s]
                 /\ SetLater(m)
                 /\ todo' = [todo EXCEPT ![s] = Tail(@)]
                 /\ Goto(s, "each")
                 /\ UNCHANGED <<lock, leaked, held, doomed>>
              \/ /\ ~ alive[m] \/ doomed[s]
                 /\ Leaves(s, pc[s] = "reload")
                 /\ UNCHANGED <<due, before, later>>
    /\ UNCHANGED <<alive, paused, enabled, job, trailing, served, faults>>

(* next_run_after moves on by the cadence, whatever the row is by now.  A   *)
(* change of a deleted row breaks the transaction, unless a rollback has    *)
(* made the session read the rows again.                                    *)
MoveOn(s) ==
    /\ pc[s] \in {"move", "reload"}
    /\ LET m == Head(todo[s])
       IN  /\ \A t \in Scanners \ {s} : m \notin held[t]
           /\ \/ /\ alive[m] /\ ~ doomed[s]
                 /\ SetLater(m)
                 /\ todo' = [todo EXCEPT ![s] = Tail(@)]
                 /\ held' = [held EXCEPT ![s] = {}]
                 /\ Goto(s, "each")
                 /\ UNCHANGED <<lock, leaked, doomed>>
              \/ /\ ~ alive[m] \/ doomed[s]
                 /\ Leaves(s, pc[s] = "reload")
                 /\ UNCHANGED <<due, before, later>>
    /\ UNCHANGED <<alive, paused, enabled, job, trailing, served, faults>>

EndScan(s) ==
    /\ pc[s] = "each" /\ todo[s] = <<>>
    /\ Leaves(s, TRUE)
    /\ UNCHANGED <<alive, paused, schedules, job, trailing, served, faults>>

(* The process dies and is restarted; its connection and lock are gone.     *)
Crash(s) ==
    /\ pc[s] # "idle"
    /\ Fault("crash")
    /\ lock' = IF lock = s THEN NoScanner ELSE lock
    /\ leaked' = leaked \ {s}
    /\ Goto(s, "idle")
    /\ todo' = [todo EXCEPT ![s] = <<>>]
    /\ held' = [held EXCEPT ![s] = {}]
    /\ doomed' = [doomed EXCEPT ![s] = FALSE]
    /\ UNCHANGED <<alive, paused, schedules, job, trailing, served>>
------------------------------------------------------------------------------
ScanStep(s) ==
    \/ TryLock(s) \/ SelectDue(s) \/ Examine(s) \/ InsertRun(s) \/ SendRun(s)
    \/ MoveOn(s) \/ EndScan(s)

Next ==
    \/ \E m \in Monitors :
          \/ SaveSchedule(m, TRUE) \/ SaveSchedule(m, FALSE)
          \/ SetStatus(m) \/ DeleteMonitor(m) \/ RunByHand(m) \/ CancelRun(m)
          \/ SettleRun(m) \/ Elapse(m)
    \/ \E s \in Scanners : ScanStep(s) \/ Crash(s)

SafetySpec == Init /\ [][Next]_vars

(* Celery Beat starts a scan again and again, and every worker gets one from *)
(* time to time.                                                            *)
Spec == SafetySpec /\ \A s \in Scanners : WF_vars(ScanStep(s))
------------------------------------------------------------------------------
(* Properties.                                                              *)

(* "advisory locking ... across scheduler instances": scans exclude each     *)
(* other, though the lock belongs to the connection, is taken again by a    *)
(* connection that kept it, and is lost with the process.                   *)
OneScanAtATime ==
    \A s, t \in Scanners : pc[s] # "idle" /\ pc[t] # "idle" => s = t

(* "avoid duplicate enqueue": a schedule that is due although its slot has  *)
(* had its run (the scan died between the send and the update of the        *)
(* schedule) still has that run or another one active, so a scan that       *)
(* looks at it skips it.  A run the user cancels gives its slot back.       *)
ServedSlotIsBusy ==
    \A m \in due \cap served : job[m] # "none"

Runnable(m) == alive[m] /\ enabled[m] /\ ~ paused[m] /\ m \in due

(* No schedule stays due for ever, whatever the other schedules and the     *)
(* runs do: a scan handles it unless it is disabled, paused or deleted.     *)
DueIsServed == \A m \in Monitors : Runnable(m) ~> ~ Runnable(m)

(* A disabled schedule has no next run.                                     *)
DisabledHasNoTime == \A m \in Monitors : ~ enabled[m] => ~ Timed(m)

(* What the scan takes for granted of jobs and workers is what MonitorJobs  *)
(* promises of them: a monitor has room for one job, one that was sent is   *)
(* not lost, and whoever settles a run was sent it (enqueue_monitor_run_job, *)
(* cancel_monitor_run, _mark_job_final).                                    *)
Slots == INSTANCE MonitorSlots

SlotsRespected == Slots!Spec
==============================================================================
