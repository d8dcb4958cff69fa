-------------------------- MODULE MCEventEnrichment --------------------------
(* Instances of EventEnrichment for TLC: sessions are interchangeable, and   *)
(* so are features, the events a feature touches and those none does.        *)
EXTENDS EventEnrichment, TLC

Interchangeable ==
    {p @@ f @@ q @@ r : p \in Permutations(Session),
                        f \in Permutations(Feature),
                        q \in Permutations(Remote),
                        r \in Permutations(Event \ Remote)}
==============================================================================
