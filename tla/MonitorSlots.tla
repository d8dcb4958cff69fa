---------------------------- MODULE MonitorSlots ----------------------------
(***************************************************************************)
(* What the schedule scan relies on of the job table, and the job table of *)
(* the scan: a monitor has room for one job, which is taken unsent or sent *)
(* and not lost once it is sent; and a cancelled job may keep a worker     *)
(* that settles it once more.                                              *)
(***************************************************************************)
CONSTANT Monitors

VARIABLES job,       \* the active job of a monitor: none, unsent or sent
          trailing   \* monitors with a worker in a job that is over

slotVars == <<job, trailing>>

Init == job = [m \in Monitors |-> "none"] /\ trailing = {}

Take(m) ==
    /\ job[m] = "none"
    /\ \E how \in {"unsent", "sent"} : job' = [job EXCEPT ![m] = how]
    /\ UNCHANGED trailing

Send(m) ==
    /\ job[m] = "unsent"
    /\ job' = [job EXCEPT ![m] = "sent"]
    /\ UNCHANGED trailing

(* Somebody who does not execute the job ends it.                           *)
Cancel(m) ==
    /\ job[m] # "none"
    /\ job' = [job EXCEPT ![m] = "none"]
    /\ trailing' \in IF job[m] = "sent" THEN {trailing, trailing \cup {m}} ELSE {trailing}

(* Who executes a job ends it, or ends one that is over already.            *)
Settle(m) ==
    \/ /\ job[m] = "sent"
       /\ job' = [job EXCEPT ![m] = "none"]
       /\ UNCHANGED trailing
    \/ /\ m \in trailing
       /\ trailing' \in {trailing, trailing \ {m}}
       /\ UNCHANGED job

(* Who executes a job that is over leaves it at that.                       *)
Leave(m) ==
    /\ trailing' = trailing \ {m}
    /\ UNCHANGED job

(* The monitor is deleted.                                                  *)
Delete(m) ==
    /\ job' = [job EXCEPT ![m] = "none"]
    /\ trailing' = trailing \ {m}

Next == \E m \in Monitors :
            Take(m) \/ Send(m) \/ Cancel(m) \/ Settle(m) \/ Leave(m) \/ Delete(m)

Spec == Init /\ [][Next]_slotVars
=============================================================================
