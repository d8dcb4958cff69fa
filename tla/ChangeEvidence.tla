---------------------------- MODULE ChangeEvidence ----------------------------
(***************************************************************************)
(* From two Sentinel-2 scenes to a labelled event: the valid pixels of each *)
(* scene, the comparison of two prepared scenes, the sieve that drops small *)
(* changes and the flood fill that counts them, the events cut out of the   *)
(* change mask and the label inferred from the spectral evidence of one.    *)
(*                                                                          *)
(* A raster is a set of pixels of one small grid.  Reflectances are not     *)
(* modelled: which valid pixels score above the threshold, how far a        *)
(* polygon moves when it is simplified and how the spectral indices differ  *)
(* are chosen freely.  The sieve and the polygons are GDAL's.               *)
(***************************************************************************)
EXTENDS Integers, FiniteSets, FiniteSetsExt

CONSTANTS Width, Height,
          Areas,            \* areas of interest, sets of pixels
          Minima,           \* minimum_change_area_m2 / pixel area, rounded up
          Deltas,           \* differences of an index, in hundredths
          MaxMasked,        \* bound on clouded or invalid pixels, both scenes
          MaxMoved          \* bound on pixels a simplified polygon moves by

Pixel == (1 .. Height) \X (1 .. Width)
Scene == {"before", "after"}

ASSUME EvidenceAssumption ==
    /\ Width \in Nat \ {0} /\ Height \in Nat \ {0}
    /\ Areas \subseteq SUBSET Pixel
    /\ Minima \subseteq Nat /\ Deltas \subseteq Int
    /\ MaxMasked \in Nat /\ MaxMoved \in Nat

VARIABLES
    stage,
    area, moved,        \* geometry of the monitor; it has been changed
    grid,               \* pixels of the after scene, as prepared last
    minimum,            \* parameter of the analysis
    cloud, invalid,     \* of a scene: pixels with an SCL class of the kind
    valid,              \* valid_mask of a prepared scene
    shifted,            \* the before scene lies on another grid
    over, frame,        \* of the analysis: geometry it has read, its grid
    comparable,         \* valid_comparison_mask
    raw, filtered,      \* change mask before and after the sieve
    removed,            \* removed_small_component_count
    visited, stack,     \* of the flood fill; a stack popped in any order
    retained,
    stale,              \* a scene has been prepared differently since
    footprint, support, \* of an event: pixels covered, pixels counted
    coverage,           \* of its evidence: valid pixels, all pixels
    delta, label        \* of its semantics

monitor  == <<area, moved>>
scenes   == <<minimum, cloud, invalid, shifted>>
prepared == <<valid, grid>>
masks    == <<frame, comparable, raw, filtered>>
fill     == <<visited, stack, retained, removed>>
event    == <<footprint, support>>
meaning  == <<delta, label>>
vars     == <<stage, monitor, scenes, prepared, over, masks, fill, stale, event, coverage, meaning>>

BandKeys == {"B02", "B03", "B04", "B08"}
Indices  == [ndvi |-> {"B08", "B04"}, ndwi |-> {"B03", "B08"},
             built |-> {"B11", "B08"}, nbr |-> {"B08", "B12"}]
None     == "none"
Nowhere  == [s \in Scene |-> {}]

Init ==
    /\ stage = "fetched"
    /\ area \in Areas /\ minimum \in Minima
    /\ \E n \in 0 .. MaxMasked : \E masked \in kSubset(n, Scene \X Pixel) :
           \E clouds \in SUBSET masked :
               /\ cloud = [s \in Scene |-> {p \in Pixel : <<s, p>> \in clouds}]
               /\ invalid = [s \in Scene |-> {p \in Pixel : <<s, p>> \in masked \ clouds}]
    /\ moved = FALSE /\ grid = {} /\ valid = Nowhere
    /\ shifted \in BOOLEAN
    /\ over = {} /\ frame = {} /\ comparable = {} /\ raw = {} /\ filtered = {}
    /\ visited = {} /\ stack = {} /\ retained = FALSE /\ removed = 0
    /\ stale = FALSE
    /\ footprint = {} /\ support = {} /\ coverage = <<0, 0>>
    /\ delta = << >> /\ label = None

-----------------------------------------------------------------------------
(* Preparing a scene (prepare_sentinel2_raster).                            *)

(* The window of the raster around an area.                                 *)
Grid(a) == {p \in Pixel : /\ \E q \in a : q[1] <= p[1]
                          /\ \E q \in a : q[1] >= p[1]
                          /\ \E q \in a : q[2] <= p[2]
                          /\ \E q \in a : q[2] >= p[2]}

Clear(s) == Pixel \ (cloud[s] \cup invalid[s])

(* An area without a pixel, or without one the scene classification says    *)
(* anything about, is refused; clouds are not.                              *)
Prepare ==
    /\ stage = "fetched"
    /\ IF \E s \in Scene : area \ invalid[s] = {}
       THEN stage' = "failed" /\ UNCHANGED prepared
       ELSE /\ valid' = [s \in Scene |-> area \cap Clear(s)]
            /\ grid' = Grid(area)
            /\ stage' = "prepared"
    /\ UNCHANGED <<monitor, scenes, over, masks, fill, stale, event, coverage, meaning>>

(* What another request may meet: any point but the computation of the      *)
(* masks in memory, where nothing it changes is read.                       *)
Between == stage \in {"prepared", "begun", "compared", "cut"}

(* The geometry of the monitor is changed, once in the model; what has been *)
(* prepared, analysed or cut out stays.                                     *)
UpdateMonitor ==
    /\ Between /\ ~moved
    /\ area' \in Areas \ {area}
    /\ moved' = TRUE
    /\ UNCHANGED <<stage, scenes, prepared, over, masks, fill, stale, event, coverage, meaning>>

(* A scene is prepared again by force: its rasters are overwritten, and an  *)
(* analysis of them that is ready stays.                                    *)
PrepareAgain(s) ==
    /\ Between /\ area \ invalid[s] # {}
    /\ valid' = [valid EXCEPT ![s] = area \cap Clear(s)]
    /\ grid' = IF s = "after" THEN Grid(area) ELSE grid
    /\ stale' = (stale \/ (stage \in {"compared", "cut"} /\ prepared' # prepared))
    /\ UNCHANGED <<stage, monitor, scenes, over, masks, fill, event, coverage, meaning>>

-----------------------------------------------------------------------------
(* Comparing two scenes (run_change_detection).                             *)

(* A scene on another grid is resampled to the nearest pixel: here the next *)
(* one in the row.                                                          *)
Match(p) == IF shifted THEN <<p[1], p[2] + 1>> ELSE p

OnGridOfAfter(mask) == {p \in grid : Match(p) \in mask}

ValidInBoth == OnGridOfAfter(valid["before"]) \cap valid["after"]
Comparable  == over \cap ValidInBoth

Neighbours8(p, q) == p # q /\ p[1] - q[1] \in -1 .. 1 /\ p[2] - q[2] \in -1 .. 1
Neighbours4(p, q) == Neighbours8(p, q) /\ (p[1] = q[1] \/ p[2] = q[2])

(* The connected parts of a set of pixels: those that nothing beside them   *)
(* extends and that hold no smaller one.                                    *)
Regions(pixels, Joined(_, _)) ==
    LET whole == {part \in SUBSET pixels :
                      \A p \in part, q \in pixels \ part : ~Joined(p, q)}
    IN  {r \in whole : r # {} /\ \A part \in whole : part \subseteq r => part \in {{}, r}}

Regions8 == [pixels \in SUBSET Pixel |-> Regions(pixels, Neighbours8)]
Regions4 == [pixels \in SUBSET Pixel |-> Regions(pixels, Neighbours4)]

(* The largest of the regions beside one; several may be equally large.     *)
Largest(r, regions) ==
    LET beside == {s \in regions \ {r} : \E p \in r, q \in s : Neighbours8(p, q)}
    IN  {s \in beside : \A t \in beside : Cardinality(t) <= Cardinality(s)}

(* The masks the sieve may leave.  A region smaller than the size, of       *)
(* changed or of unchanged pixels, takes the value of the first one of the  *)
(* size on the way from largest neighbour to largest neighbour, and keeps   *)
(* its own if there is none; ties are broken freely.  No mask is given:     *)
(* what is clouded or outside the area counts as unchanged.                 *)
Sieve(mask, size) ==
    LET regions   == Regions8[mask] \cup Regions8[grid \ mask]
        Small(r)  == Cardinality(r) < size
        Onward(r) == IF Small(r) /\ Largest(r, regions) # {} THEN Largest(r, regions) ELSE {r}
        Ends(r)   == LET way[n \in 0 .. Cardinality(regions)] ==
                             IF n = 0 THEN {r} ELSE UNION {Onward(s) : s \in way[n - 1]}
                     IN  way[Cardinality(regions)]
        Taken(r)  == IF Small(r) THEN {IF Small(e) THEN r ELSE e : e \in Ends(r)} ELSE {r}
        changed   == {r \in regions : \E t \in Taken(r) : t \subseteq mask}
        tied      == {r \in changed : \E t \in Taken(r) : ~(t \subseteq mask)}
    IN  {UNION (changed \ lost) : lost \in SUBSET tied}

(* The change masks the filter may leave.                                   *)
Filtered(mask) == IF minimum <= 1 THEN {mask} ELSE Sieve(mask, minimum)

(* A changed fraction above 1 is refused by the table.                      *)
Verdict(mask, pixels) ==
    IF Cardinality(mask) > Cardinality(pixels) THEN "refused" ELSE "compared"

(* The monitor, and so its geometry, is read before the rasters are.        *)
BeginAnalysis ==
    /\ stage = "prepared" /\ stage' = "begun"
    /\ over' = area
    /\ UNCHANGED <<monitor, scenes, prepared, masks, fill, stale, event, coverage, meaning>>

Compare ==
    /\ stage = "begun"
    /\ IF Comparable = {}
       THEN stage' = "failed" /\ UNCHANGED masks
       ELSE /\ frame' = grid /\ comparable' = Comparable
            /\ raw' \in SUBSET Comparable
            /\ filtered' \in Filtered(raw')
            /\ stage' = IF minimum <= 1 THEN Verdict(filtered', comparable') ELSE "counting"
    /\ UNCHANGED <<monitor, scenes, prepared, over, fill, stale, event, coverage, meaning>>

-----------------------------------------------------------------------------
(* Counting the changes the sieve has removed (_count_removed_components):  *)
(* a flood fill from every pixel not visited yet, row by row.               *)

Precedes(p, q) == p[1] < q[1] \/ (p[1] = q[1] /\ p[2] <= q[2])

elsewhere == <<monitor, scenes, prepared, over, masks, stale, event, coverage, meaning>>

CountSeed ==
    /\ stage = "counting" /\ stack = {}
    /\ \E p \in raw \ visited :
           /\ \A q \in raw \ visited : Precedes(p, q)
           /\ visited' = visited \cup {p}
           /\ stack' = {p}
    /\ retained' = FALSE
    /\ UNCHANGED <<stage, removed, elsewhere>>

Unvisited(p) == {q \in raw \ visited : Neighbours8(p, q)}

(* Mutant: pixels that touch at a corner are not joined.                    *)
CountPixelApart ==
    /\ stage = "counting"
    /\ \E p \in stack :
           LET beside == {q \in raw \ visited : Neighbours4(p, q)}
           IN  /\ retained' = (retained \/ p \in filtered)
               /\ visited' = visited \cup beside
               /\ stack' = (stack \ {p}) \cup beside
    /\ removed' = IF stack' = {} /\ ~retained' THEN removed + 1 ELSE removed
    /\ UNCHANGED <<stage, elsewhere>>

CountPixel ==
    /\ stage = "counting"
    /\ \E p \in stack :
           /\ retained' = (retained \/ p \in filtered)
           /\ visited' = visited \cup Unvisited(p)
           /\ stack' = (stack \ {p}) \cup Unvisited(p)
    /\ removed' = IF stack' = {} /\ ~retained' THEN removed + 1 ELSE removed
    /\ UNCHANGED <<stage, elsewhere>>

CountEnd ==
    /\ stage = "counting" /\ stack = {} /\ raw \subseteq visited
    /\ stage' = Verdict(filtered, comparable)
    /\ visited' = {} /\ retained' = FALSE
    /\ UNCHANGED <<stack, removed, elsewhere>>

-----------------------------------------------------------------------------
(* Events (build_event_candidates).                                         *)

(* Pixels covered by the polygon of a region: larger ones are simplified.   *)
Footprints(r) ==
    IF Cardinality(r) <= 2 THEN {r}
    ELSE LET near == {p \in frame : \E q \in r : p = q \/ Neighbours8(p, q)}
         IN  {SymDiff(r, shift) : shift \in UNION {kSubset(n, near) : n \in 0 .. MaxMoved}}

(* Mutant: the valid mask is left out.                                      *)
SupportUnmasked(f) == f \cap filtered

Support(f) == f \cap filtered \cap comparable

CutEvent ==
    /\ stage = "compared"
    /\ \E r \in Regions4[filtered] :
           \E f \in Footprints(r) :
               /\ Support(f) # {}           \* skipped otherwise
               /\ footprint' = f
               /\ support' = Support(f)
    /\ stage' = "cut"
    /\ UNCHANGED <<monitor, scenes, prepared, over, masks, fill, stale, coverage, meaning>>

-----------------------------------------------------------------------------
(* Labels (extract_event_spectral_evidence, infer_semantic_change).         *)

(* The evidence is read from the rasters again.  From here on only it       *)
(* matters: the model forgets the pixels.                                   *)
Measure ==
    /\ stage = "cut"
    /\ coverage' = <<Cardinality(footprint \cap comparable \cap ValidInBoth),
                     Cardinality(footprint \cap grid)>>
    /\ stage' = "measured"
    /\ area' = {} /\ moved' = FALSE /\ over' = {} /\ minimum' = 0 /\ shifted' = FALSE
    /\ cloud' = Nowhere /\ invalid' = Nowhere /\ valid' = Nowhere /\ grid' = {}
    /\ frame' = {} /\ comparable' = {} /\ raw' = {} /\ filtered' = {} /\ removed' = 0
    /\ footprint' = {} /\ support' = {}
    /\ UNCHANGED <<visited, stack, retained, stale, meaning>>

Known(x) == coverage[1] > 0 /\ Indices[x] \subseteq BandKeys

(* Scores in units of 1/420: 1/0.35 per unit of NDVI, 1/0.30 of the others. *)
Full       == 420
Rate(x)    == IF x = "ndvi" THEN 12 ELSE 14
Up(d, x)   == x \in DOMAIN d /\ d[x] > 0
Down(d, x) == x \in DOMAIN d /\ d[x] < 0
Size(d, x) == IF d[x] < 0 THEN -d[x] ELSE d[x]
Least(a, b)  == IF a < b THEN a ELSE b
Signal(d, x) == Least(Full, Rate(x) * Size(d, x))
Flat(d)      == "built" \in DOMAIN d => d["built"] < 5

If(condition, value) == IF condition THEN value ELSE 0

Scores(d) ==
    [vegetation_decrease  |-> If(Down(d, "ndvi"), Signal(d, "ndvi")),
     vegetation_increase  |-> If(Up(d, "ndvi"), Signal(d, "ndvi")),
     water_expansion      |-> If(Up(d, "ndwi"), Signal(d, "ndwi")),
     water_contraction    |-> If(Down(d, "ndwi"), Signal(d, "ndwi")),
     built_area_increase  |-> Least(Full, If(Up(d, "built"), Signal(d, "built"))
                                          + If(Up(d, "built") /\ Down(d, "ndvi"), 84)),
     built_area_decrease  |-> Least(Full, If(Down(d, "built"), Signal(d, "built"))
                                          + If(Down(d, "built") /\ Up(d, "ndvi"), 84)),
     bare_ground_increase |-> Least(Full, If(Down(d, "nbr"), Signal(d, "nbr"))
                                          + If(Down(d, "ndvi") /\ d["ndvi"] < -10 /\ Flat(d), 84)),
     bare_ground_decrease |-> Least(Full, If(Up(d, "nbr"), Signal(d, "nbr"))
                                          + If(Up(d, "ndvi") /\ d["ndvi"] > 10 /\ Flat(d), 63))]

MinimumEvidence == 126
Close           == 42

Scarce == 5 * coverage[1] < coverage[2]     \* below 20 %

(* Mutant: the coverage is not looked at.                                   *)
LabelsUncovered(d) ==
    LET score == Scores(d)
        best  == {x \in DOMAIN score : \A y \in DOMAIN score : score[y] <= score[x]}
    IN  IF \A x \in best : score[x] < MinimumEvidence THEN {"uncertain"} ELSE best

(* Two strong labels close to each other are a mixed change, whatever the   *)
(* coverage; otherwise scarce or weak evidence gives no label.              *)
Labels(d) ==
    LET score == Scores(d)
        best  == {x \in DOMAIN score : \A y \in DOMAIN score : score[y] <= score[x]}
        close == \E x \in best : \E y \in DOMAIN score \ {x} :
                     score[y] >= MinimumEvidence /\ score[x] - score[y] <= Close
    IN  IF close THEN {"mixed_change"}
        ELSE IF Scarce \/ \A x \in best : score[x] < MinimumEvidence THEN {"uncertain"}
        ELSE best

Infer ==
    /\ stage = "measured"
    /\ delta' \in [{x \in DOMAIN Indices : Known(x)} -> Deltas]
    /\ label' \in Labels(delta')
    /\ stage' = "labelled"
    /\ UNCHANGED <<monitor, scenes, prepared, over, masks, fill, stale, event, coverage>>

Next ==
    \/ Prepare \/ UpdateMonitor \/ (\E s \in Scene : PrepareAgain(s))
    \/ BeginAnalysis \/ Compare \/ CountSeed \/ CountPixel \/ CountEnd
    \/ CutEvent \/ Measure \/ Infer

Spec == Init /\ [][Next]_vars

-----------------------------------------------------------------------------
(* What must hold.                                                          *)

(* Every pixel an event counts lies in the geometry the analysis has read,  *)
(* is clear in both scenes and has changed, or lies in an unchanged hole    *)
(* below the minimum, however the geometry and the rasters change before    *)
(* the event is cut out; no event is without a pixel, in its table or,      *)
(* unless a scene has been prepared differently since, in its evidence.     *)
EventRestsOnEvidence ==
    /\ stage = "cut" =>
           /\ support # {}
           /\ \A p \in support :
                  /\ p \in over \cap Clear("after")
                  /\ Match(p) \in Clear("before")
                  /\ \/ p \in raw
                     \/ \E hole \in Regions8[frame \ raw] :
                            p \in hole /\ Cardinality(hole) < minimum
    /\ stage \in {"measured", "labelled"} /\ ~stale => coverage[1] > 0

(* The flood fill counts the changes of which the sieve has left no pixel,  *)
(* each once, in whatever order the stack gives its pixels back.            *)
RemovedChangesCounted ==
    stage \in {"compared", "refused", "cut"} /\ minimum > 1 =>
        removed = Cardinality({r \in Regions8[raw] : r \cap filtered = {}})

(* A label is borne out by the index it is about, which has moved the way   *)
(* the label says.  On evidence of less than a fifth of its pixels an event *)
(* is uncertain, but for one case: two strong signals close to each other   *)
(* are called a mixed change whatever the coverage.  With the four bands of *)
(* a prepared scene nothing is ever said of buildings or bare ground.       *)
LabelFollowsSignals ==
    stage = "labelled" =>
        LET Far(x) == x \in DOMAIN delta /\ Signal(delta, x) >= MinimumEvidence
            gap    == Signal(delta, "ndvi") - Signal(delta, "ndwi")
        IN  /\ label \in {"vegetation_decrease", "vegetation_increase", "water_expansion",
                          "water_contraction", "mixed_change", "uncertain"}
            /\ label = "vegetation_decrease" => Far("ndvi") /\ delta["ndvi"] < 0
            /\ label = "vegetation_increase" => Far("ndvi") /\ delta["ndvi"] > 0
            /\ label = "water_expansion" => Far("ndwi") /\ delta["ndwi"] > 0
            /\ label = "water_contraction" => Far("ndwi") /\ delta["ndwi"] < 0
            /\ Scarce /\ label # "uncertain" => label = "mixed_change"
            /\ label = "mixed_change" => Far("ndvi") /\ Far("ndwi") /\ gap \in -Close .. Close
===============================================================================
