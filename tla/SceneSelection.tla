---------------------------- MODULE SceneSelection ----------------------------
(***************************************************************************)
(* Which scenes a monitor run asks the satellite provider for and which     *)
(* pair of them it compares: _compute_search_window, the provider query of  *)
(* search_sentinel2_observations and _choose_scene_pair.                    *)
(***************************************************************************)
EXTENDS Integers, FiniteSets

CONSTANTS Scenes,     \* Sentinel-2 items over the area, numbered by their row id
          Acquired,   \* Acquired[s]: acquisition time
          Cloud,      \* Cloud[s]: cloud cover of the item
          DayLength,  \* ticks of Acquired per calendar day
          Overlap,    \* settings.monitor_subsequent_overlap_days
          NoScene

ASSUME SceneAssumption ==
    /\ Scenes \subseteq Nat /\ IsFiniteSet(Scenes)
    /\ Acquired \in [Scenes -> Nat]
    /\ Cloud \in [Scenes -> Nat]
    /\ DayLength \in Nat \ {0}
    /\ Overlap \in Nat
    /\ NoScene \notin Scenes

NoPair == <<NoScene, NoScene>>

(* The pairs a change analysis accepts: before strictly older than after.   *)
Pairs == {p \in Scenes \X Scenes : Acquired[p[1]] < Acquired[p[2]]}

DayOf(s) == Acquired[s] \div DayLength

Later(a, b) == IF a > b THEN a ELSE b

(* First and last day of the search.  The lookback counts today.            *)
SearchWindow(request, previous, today) ==
    LET floor == today - Later(request.lookback - 1, 0)
    IN  IF request.explicit THEN <<request.from, request.to>>
        ELSE IF previous = NoScene THEN <<floor, today>>
        ELSE <<Later(DayOf(previous) - Overlap, floor), today>>

Matches(available, request, window) ==
    {s \in available : /\ window[1] <= DayOf(s) /\ DayOf(s) <= window[2]
                       /\ Cloud[s] <= request.cloud}

(* max_items: the provider stops after so many items, in an order the code  *)
(* does not ask for.                                                        *)
SearchResults(matches, limit) ==
    IF Cardinality(matches) <= limit THEN {matches}
    ELSE {r \in SUBSET matches : Cardinality(r) = limit}

(* The order of the stored rows: acquisition time, then id, newest first;   *)
(* the sort of _choose_scene_pair is stable.                                *)
Precedes(s, t) ==
    \/ Acquired[s] > Acquired[t]
    \/ Acquired[s] = Acquired[t] /\ s > t

Newest(found) == CHOOSE s \in found : \A t \in found \ {s} : Precedes(s, t)

Older(found, s) == {t \in found : Acquired[t] < Acquired[s]}

(* The newest scene is compared with the one the previous run ended at if   *)
(* that is found and strictly older, else with the newest strictly older.   *)
ChooseScenePair(found, previous) ==
    IF found = {} \/ Older(found, Newest(found)) = {} THEN NoPair
    ELSE LET after == Newest(found)
             older == Older(found, after)
         IN  <<IF previous \in older THEN previous ELSE Newest(older), after>>
===============================================================================
