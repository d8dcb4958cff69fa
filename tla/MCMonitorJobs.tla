---------------------------- MODULE MCMonitorJobs ----------------------------
(* Instances of MonitorJobs for TLC.                                        *)
EXTENDS MonitorJobs, TLC

(* Jobs, clients and workers are interchangeable: no action or safety       *)
(* property names one of them.  Used in the runs without liveness only.     *)
Symmetry == Permutations(Jobs) \cup Permutations(Clients) \cup Permutations(Workers)

(* Two kinds of behaviour in one instance: all clients at work and no       *)
(* fault; or one client at a time and faults.                               *)
VARIABLE instance

MCInit == Init /\ instance \in {"clients", "faults"}

MCNext ==
    /\ Next
    /\ UNCHANGED instance
    /\ instance = "clients" => faults' = 0
    /\ instance = "faults" => Cardinality({c \in Clients : cpc'[c] # "idle"}) <= 1

MCSafetySpec == MCInit /\ [][MCNext]_<<vars, instance>>

MCSpec == MCSafetySpec /\ Fairness
==============================================================================
