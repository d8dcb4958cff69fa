---------------------------- MODULE MCRunPipeline ----------------------------
(* Instances of RunPipeline for TLC: scenes are numbers, the id of the row. *)
EXTENDS RunPipeline

(* Scenes of three consecutive days, the third of the same time as the      *)
(* second.                                                                  *)
MCAcquired == [s \in Scenes |-> CASE s = 1 -> 0 [] s \in {2, 3} -> 1 [] s = 4 -> 2]
MCCloud == [s \in Scenes |-> 0]

Default == [explicit |-> FALSE, from |-> 0, to |-> 0, lookback |-> 2, cloud |-> 0,
            force |-> FALSE, refresh |-> FALSE]
Forced  == [Default EXCEPT !.force = TRUE, !.refresh = TRUE]

DefaultOnly     == {Default}
DefaultOrForced == {Default, Forced}
FirstPair       == {<<1, 2>>}

(* Four kinds of behaviour in one instance, whose searches return three     *)
(* scenes at most.  "faults": three scenes, default requests and a fault.   *)
(* "forced": two scenes, default or forced requests and a fault.  "calls":  *)
(* two scenes and concurrent API calls, but no fault, cancellation or retry.*)
(* "days": four scenes, no fault or cancellation, and days that end during  *)
(* a run.                                                                   *)
VARIABLE instance

Available ==
    CASE instance = "faults" -> {1, 2, 3}
      [] instance = "days"   -> {1, 2, 3, 4}
      [] OTHER               -> {1, 2}

InOrder(scenes) == \A s, t \in Scenes : s < t /\ t \in scenes => s \in scenes

MCInit ==
    /\ Init
    /\ instance \in {"faults", "forced", "calls", "days"}
    /\ instance # "forced" => request = Default

MCNext ==
    /\ Next
    /\ UNCHANGED instance
    /\ published' \subseteq Available /\ InOrder(published')
    /\ instance # "forced" => request' = Default
    /\ instance \in {"calls", "days"} => faults' = 0
    /\ instance \in {"calls", "days"} => job' # "cancelled"
    /\ instance = "calls" => stage'[Worker] # "retry"
    /\ instance # "calls" => \A c \in Callers : stage'[c] = "none"
    /\ instance # "days" => /\ today' < 2
                            /\ today' # today => stage[Worker] = "none"

MCSpec ==
    /\ MCInit
    /\ [][MCNext]_<<vars, instance>>
    /\ WF_<<vars, instance>>(WorkerStep /\ UNCHANGED instance)
==============================================================================
