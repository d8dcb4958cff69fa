--------------------------- MODULE MCScheduleScan ---------------------------
(* Instances of ScheduleScan for TLC.                                       *)
EXTENDS ScheduleScan

CONSTANTS Third,  \* a monitor that only the instance "many" schedules
          First   \* the scanner of the instance "many"

(* "faults": two monitors that users save, pause, delete, run and cancel,   *)
(* two scanning processes, one of which may die.  "many": three monitors,   *)
(* so that a scan leaves out one when all are due, whose schedules are      *)
(* saved and whose runs are settled.                                        *)
VARIABLE instance

MCInit == Init /\ instance \in {"faults", "many"}

FaultsNext ==
    /\ Next
    /\ alive'[Third] /\ ~ paused'[Third] /\ ~ enabled'[Third] /\ job'[Third] = "none"

ManyNext ==
    \/ \E m \in Monitors :
          \/ SaveSchedule(m, TRUE) \/ SaveSchedule(m, FALSE)
          \/ SettleRun(m) \/ Elapse(m)
    \/ ScanStep(First)

MCNext ==
    /\ \/ instance = "faults" /\ FaultsNext
       \/ instance = "many" /\ ManyNext
    /\ UNCHANGED instance

MCSpec ==
    MCInit /\ [][MCNext]_<<vars, instance>> /\ \A s \in Scanners : WF_vars(ScanStep(s))
==============================================================================
