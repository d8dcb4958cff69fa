----------------------------- MODULE JobContract -----------------------------
(***************************************************************************)
(* What the job table promises its readers, without queues, workers or     *)
(* requests: a monitor has at most one active job, a job moves from absent *)
(* to queued to running to settled (a transient failure sends it back to   *)
(* queued), and a settled job never becomes active again.  Which of the    *)
(* final statuses a settled job shows is left open here.                   *)
(***************************************************************************)
CONSTANTS Monitors, Jobs, NoMonitor

VARIABLES phase, owner

contractVars == <<phase, owner>>

Phases == {"absent", "queued", "running", "settled"}

IsActive(j) == phase[j] \in {"queued", "running"}

Busy(m) == \E j \in Jobs : owner[j] = m /\ IsActive(j)

Init == /\ phase = [j \in Jobs |-> "absent"]
        /\ owner = [j \in Jobs |-> NoMonitor]

Submit(j, m) == /\ phase[j] = "absent"
                /\ ~ Busy(m)
                /\ phase' = [phase EXCEPT ![j] = "queued"]
                /\ owner' = [owner EXCEPT ![j] = m]

Begin(j) == /\ phase[j] = "queued"
            /\ phase' = [phase EXCEPT ![j] = "running"]
            /\ UNCHANGED owner

Postpone(j) == /\ phase[j] = "running"
               /\ phase' = [phase EXCEPT ![j] = "queued"]
               /\ UNCHANGED owner

Settle(j) == /\ IsActive(j)
             /\ phase' = [phase EXCEPT ![j] = "settled"]
             /\ UNCHANGED owner

Next == \E j \in Jobs :
            \/ \E m \in Monitors : Submit(j, m)
            \/ Begin(j)
            \/ Postpone(j)
            \/ Settle(j)

SafetySpec == Init /\ [][Next]_contractVars

Spec == SafetySpec /\ \A j \in Jobs : WF_contractVars(Settle(j))
==============================================================================
