------------------------- MODULE ChangeEvidenceProofs -------------------------
(***************************************************************************)
(* Proofs about ChangeEvidence, for any grid, areas of interest, minima,    *)
(* differences of the indices, clouds and movements of polygons: events     *)
(* rest on clear, changed pixels, the flood fill counts what the sieve has  *)
(* removed, and labels follow the indices.                                  *)
(***************************************************************************)
EXTENDS ChangeEvidence, FiniteSetTheorems, TLAPS

-----------------------------------------------------------------------------
(* The connected regions of a set of pixels.                                *)

LEMMA NeighboursSymmetric ==
    ASSUME NEW p \in Pixel, NEW q \in Pixel
    PROVE  Neighbours8(p, q) <=> Neighbours8(q, p)
<1>1. p[1] \in Int /\ p[2] \in Int /\ q[1] \in Int /\ q[2] \in Int
  BY EvidenceAssumption DEF Pixel
<1>2. \A a, b \in Int : a - b \in -1 .. 1 => b - a \in -1 .. 1
  OBVIOUS
<1> QED
  BY <1>1, <1>2 DEF Neighbours8

(* Nothing of the set beside a part belongs to the set and not to the part. *)
Whole(part, pixels) ==
    /\ part \subseteq pixels
    /\ \A p \in part, q \in pixels \ part : ~Neighbours8(p, q)

LEMMA RegionIsLeast ==
    ASSUME NEW pixels \in SUBSET Pixel, NEW r
    PROVE  r \in Regions8[pixels] <=>
               /\ Whole(r, pixels) /\ r # {}
               /\ \A part : Whole(part, pixels) /\ part \subseteq r => part \in {{}, r}
<1>1. Regions8[pixels] = Regions(pixels, Neighbours8)
  BY DEF Regions8
<1> QED
  BY <1>1 DEF Regions, Whole

LEMMA WholeCut ==
    ASSUME NEW pixels, NEW r, NEW s, Whole(r, pixels), Whole(s, pixels)
    PROVE  Whole(r \cap s, pixels)
  BY DEF Whole

LEMMA WholeLeft ==
    ASSUME NEW pixels \in SUBSET Pixel, NEW r, NEW s, Whole(r, pixels), Whole(s, pixels)
    PROVE  Whole(r \ s, pixels)
<1> SUFFICES ASSUME NEW p \in r \ s, NEW q \in pixels \ (r \ s) PROVE ~Neighbours8(p, q)
  BY DEF Whole
<1> QED
  BY NeighboursSymmetric DEF Whole

(* The regions of a set of pixels are non-empty parts of it, do not         *)
(* overlap, and leave no pixel out (what _count_removed_components visits). *)
LEMMA RegionsPartition ==
    ASSUME NEW pixels \in SUBSET Pixel
    PROVE  /\ \A r \in Regions8[pixels] : r # {} /\ r \subseteq pixels
           /\ \A r, s \in Regions8[pixels] : r = s \/ r \cap s = {}
           /\ \A p \in pixels : \E r \in Regions8[pixels] : p \in r
<1>1. ASSUME NEW r \in Regions8[pixels] PROVE r # {} /\ r \subseteq pixels
  BY RegionIsLeast DEF Whole
<1>2. ASSUME NEW r \in Regions8[pixels], NEW s \in Regions8[pixels] PROVE r = s \/ r \cap s = {}
  <2>1. Whole(r \cap s, pixels)
    BY RegionIsLeast, WholeCut
  <2>2. r \cap s \in {{}, r} /\ r \cap s \in {{}, s}
    BY <2>1, RegionIsLeast
  <2> QED
    BY <2>2
<1>3. ASSUME NEW p \in pixels PROVE \E r \in Regions8[pixels] : p \in r
  <2> DEFINE r == {q \in pixels : \A s \in SUBSET pixels : Whole(s, pixels) /\ p \in s => q \in s}
  <2>1. p \in r /\ r \subseteq pixels
    OBVIOUS
  <2>2. \A s : Whole(s, pixels) /\ p \in s => r \subseteq s
    BY DEF Whole
  <2>3. Whole(r, pixels)
    <3> SUFFICES ASSUME NEW a \in r, NEW b \in pixels \ r PROVE ~Neighbours8(a, b)
      BY <2>1 DEF Whole
    <3>1. PICK s \in SUBSET pixels : Whole(s, pixels) /\ p \in s /\ b \notin s
      OBVIOUS
    <3> QED
      BY <3>1 DEF Whole
  <2>4. ASSUME NEW part, Whole(part, pixels), part \subseteq r PROVE part \in {{}, r}
    <3>1. CASE p \in part
      BY <3>1, <2>2, <2>4
    <3>2. CASE p \notin part
      <4>1. Whole(r \ part, pixels)
        BY <2>3, <2>4, WholeLeft
      <4>2. r \subseteq r \ part
        BY <3>2, <2>1, <2>2, <4>1
      <4> QED
        BY <4>2, <2>4
    <3> QED
      BY <3>1, <3>2
  <2> HIDE DEF r
  <2> QED
    BY <2>1, <2>3, <2>4, RegionIsLeast
<1> QED
  BY <1>1, <1>2, <1>3

LEMMA PixelsFinite == IsFiniteSet(Pixel)
<1>1. IsFiniteSet(1 .. Height) /\ IsFiniteSet(1 .. Width)
  BY EvidenceAssumption, FS_Interval
<1> QED
  BY <1>1, FS_Product DEF Pixel

LEMMA RegionsFinite ==
    ASSUME NEW pixels \in SUBSET Pixel
    PROVE  IsFiniteSet(Regions8[pixels])
<1>1. Regions8[pixels] \subseteq SUBSET Pixel
  BY RegionsPartition
<1>2. IsFiniteSet(SUBSET Pixel)
  BY PixelsFinite, FS_SUBSET
<1> QED
  BY <1>1, <1>2, FS_Subset

-----------------------------------------------------------------------------
(* The sieve.                                                               *)

(* A changed pixel of a filtered mask has changed or lies in a small hole.  *)
Founded(p) == \/ p \in raw
              \/ \E hole \in Regions8[frame \ raw] : p \in hole /\ Cardinality(hole) < minimum

LEMMA SieveFills ==
    ASSUME grid \subseteq Pixel, NEW size \in Nat, NEW mask \in SUBSET grid,
           NEW left \in Sieve(mask, size), NEW p \in left, p \notin mask
    PROVE  \E hole \in Regions8[grid \ mask] : p \in hole /\ Cardinality(hole) < size
<1> DEFINE regions   == Regions8[mask] \cup Regions8[grid \ mask]
           Small(r)  == Cardinality(r) < size
           Onward(r) == IF Small(r) /\ Largest(r, regions) # {} THEN Largest(r, regions) ELSE {r}
           Ends(r)   == LET way[n \in 0 .. Cardinality(regions)] ==
                                IF n = 0 THEN {r} ELSE UNION {Onward(s) : s \in way[n - 1]}
                        IN  way[Cardinality(regions)]
           Taken(r)  == IF Small(r) THEN {IF Small(e) THEN r ELSE e : e \in Ends(r)} ELSE {r}
           changed   == {r \in regions : \E t \in Taken(r) : t \subseteq mask}
           tied      == {r \in changed : \E t \in Taken(r) : ~(t \subseteq mask)}
<1>1. Sieve(mask, size) = {UNION (changed \ lost) : lost \in SUBSET tied}
  BY DEF Sieve
<1> HIDE DEF Ends
<1>2. PICK r \in regions : p \in r /\ \E t \in Taken(r) : t \subseteq mask
  <2> HIDE DEF Taken, regions
  <2> QED
    BY <1>1
<1>3. \A s \in Regions8[mask] : s \subseteq mask
  BY RegionsPartition
<1>4. r \in Regions8[grid \ mask]
  BY <1>2, <1>3
<1>5. Small(r)
  BY <1>2
<1> QED
  BY <1>2, <1>4, <1>5

-----------------------------------------------------------------------------
(* The flood fill.                                                          *)

Analysed == {"counting", "compared", "refused", "cut"}
Early    == {"fetched", "failed", "prepared", "begun"}

(* Regions the fill has done with: visited, and not on the stack.           *)
Done == {r \in Regions8[raw] : r \subseteq visited \ stack}

(* Whatever touches a pixel taken from the stack is visited; the pixels on  *)
(* the stack are of one region, which is retained if one of its pixels      *)
(* taken from the stack is left; the regions done with that keep no pixel   *)
(* are those counted.                                                       *)
Fill ==
    /\ stack \subseteq visited /\ visited \subseteq raw
    /\ \A p \in visited \ stack, q \in raw : Neighbours8(p, q) => q \in visited
    /\ stack # {} =>
           \E c \in Regions8[raw] :
               /\ stack \subseteq c
               /\ retained = (c \cap (visited \ stack) \cap filtered # {})
    /\ removed = Cardinality({r \in Done : r \cap filtered = {}})

(* A region nothing of is on the stack has been visited whole or not at all. *)
LEMMA VisitedWhole ==
    ASSUME raw \subseteq Pixel, Fill, NEW r \in Regions8[raw],
           r \cap stack = {}, r \cap visited # {}
    PROVE  r \subseteq visited
<1>1. Whole(r, raw) /\ \A part : Whole(part, raw) /\ part \subseteq r => part \in {{}, r}
  BY RegionIsLeast
<1>2. Whole(r \cap visited, raw)
  BY <1>1 DEF Whole, Fill
<1> QED
  BY <1>1, <1>2

LEMMA RemovedType ==
    ASSUME raw \subseteq Pixel
    PROVE  /\ IsFiniteSet({r \in Done : r \cap filtered = {}})
           /\ Cardinality({r \in Done : r \cap filtered = {}}) \in Nat
<1>1. {r \in Done : r \cap filtered = {}} \subseteq Regions8[raw]
  BY DEF Done
<1> QED
  BY <1>1, RegionsFinite, FS_Subset, FS_CardinalityType

LEMMA FillSeed ==
    ASSUME raw \subseteq Pixel, Fill, CountSeed
    PROVE  Fill'
<1>1. PICK p \in raw \ visited :
          visited' = visited \cup {p} /\ stack' = {p} /\ stack = {}
  BY DEF CountSeed
<1>2. UNCHANGED <<raw, filtered, removed>> /\ retained' = FALSE
  BY DEF CountSeed, elsewhere, masks
<1>3. PICK c \in Regions8[raw] : p \in c
  BY <1>1, RegionsPartition
<1>4. c \cap visited = {}
  BY <1>1, <1>3, VisitedWhole
<1>5. Done' = Done
  <2>1. visited' \ stack' = visited \ stack
    BY <1>1 DEF Fill
  <2> QED
    BY <1>2, <2>1 DEF Done
<1>6. \A a \in visited' \ stack', q \in raw' : Neighbours8(a, q) => q \in visited'
  BY <1>1, <1>2 DEF Fill
<1>7. \E d \in Regions8[raw]' :
          stack' \subseteq d /\ retained' = (d \cap (visited' \ stack') \cap filtered' # {})
  <2>1. c \cap (visited' \ stack') = {}
    BY <1>1, <1>4
  <2> QED
    BY <1>1, <1>2, <1>3, <2>1
<1> QED
  BY <1>1, <1>2, <1>5, <1>6, <1>7 DEF Fill

LEMMA FillPixel ==
    ASSUME raw \subseteq Pixel, Fill, CountPixel, filtered' = filtered, raw' = raw,
           retained \in BOOLEAN
    PROVE  Fill'
<1> DEFINE lost == {r \in Done : r \cap filtered = {}}
<1>1. PICK p \in stack : /\ retained' = (retained \/ p \in filtered)
                         /\ visited' = visited \cup Unvisited(p)
                         /\ stack' = (stack \ {p}) \cup Unvisited(p)
  BY DEF CountPixel
<1>2. PICK c \in Regions8[raw] : /\ stack \subseteq c
                                 /\ retained = (c \cap (visited \ stack) \cap filtered # {})
  BY <1>1 DEF Fill
<1>3. p \in c /\ Whole(c, raw)
  BY <1>1, <1>2, RegionIsLeast
<1>4. Unvisited(p) \subseteq c /\ Unvisited(p) \cap visited = {} /\ Unvisited(p) \subseteq raw
  BY <1>3 DEF Unvisited, Whole
<1>5. visited' \ stack' = (visited \ stack) \cup {p}
  <2>1. p \in visited /\ p \notin Unvisited(p)
    BY <1>1, <1>4 DEF Fill
  <2> QED
    BY <1>1, <1>4, <2>1 DEF Fill
<1>6. stack' \subseteq visited' /\ visited' \subseteq raw'
  BY <1>1, <1>4 DEF Fill
<1>7. ASSUME NEW a \in visited' \ stack', NEW q \in raw', Neighbours8(a, q)
      PROVE  q \in visited'
  BY <1>1, <1>5, <1>7 DEF Fill, Unvisited
<1>8. stack' \subseteq c
  BY <1>1, <1>2, <1>4
<1>9. retained' = (c \cap (visited' \ stack') \cap filtered' # {})
  BY <1>1, <1>2, <1>3, <1>5
<1>10. removed' = Cardinality({r \in Done : r \cap filtered = {}})'
  <2>1. removed = Cardinality(lost) /\ removed \in Nat /\ IsFiniteSet(lost)
    BY RemovedType DEF Fill
  <2>2. c \notin Done
    BY <1>1, <1>3 DEF Done
  <2>3. \A r \in Regions8[raw] : p \in r => r = c
    BY <1>3, RegionsPartition
  <2>4. CASE stack' # {}
    <3>1. ~(c \subseteq visited' \ stack')
      BY <1>8, <2>4
    <3>2. Done' = Done
      BY <1>5, <2>3, <3>1 DEF Done
    <3> QED
      BY <2>1, <2>4, <3>2 DEF CountPixel
  <2>5. CASE stack' = {}
    <3>1. c \subseteq visited'
      <4>1. Whole(c \cap visited', raw)
        BY <1>3, <1>7, <2>5 DEF Whole
      <4>2. p \in c \cap visited'
        BY <1>1, <1>3 DEF Fill
      <4> QED
        BY <4>1, <4>2, RegionIsLeast
    <3>2. Done' = Done \cup {c}
      BY <1>5, <2>3, <2>5, <3>1 DEF Done
    <3>3. c \cap filtered = {} <=> ~retained'
      BY <1>9, <2>5, <3>1
    <3>4. CASE retained'
      <4>1. {r \in Done : r \cap filtered = {}}' = lost
        BY <3>2, <3>3, <3>4
      <4> QED
        BY <2>1, <3>4, <4>1 DEF CountPixel
    <3>5. CASE ~retained'
      <4>1. {r \in Done : r \cap filtered = {}}' = lost \cup {c} /\ c \notin lost
        BY <2>2, <3>2, <3>3, <3>5
      <4>2. removed' = removed + 1
        BY <2>5, <3>5 DEF CountPixel
      <4> QED
        BY <2>1, <4>1, <4>2, FS_AddElement
    <3> QED
      BY <3>4, <3>5
  <2> QED
    BY <2>4, <2>5
<1> QED
  BY <1>2, <1>6, <1>7, <1>8, <1>9, <1>10 DEF Fill

(* Once every pixel has been visited and the stack is empty nothing is left *)
(* to count.                                                                *)
LEMMA FillEnd ==
    ASSUME raw \subseteq Pixel, Fill, stack = {}, raw \subseteq visited
    PROVE  removed = Cardinality({r \in Regions8[raw] : r \cap filtered = {}})
<1>1. Done = Regions8[raw]
  BY RegionsPartition DEF Done
<1> QED
  BY <1>1 DEF Fill

-----------------------------------------------------------------------------
(* The chain from two scenes to the evidence of an event.                   *)

Types ==
    /\ stage \in Early \cup Analysed \cup {"measured", "labelled"}
    /\ area \subseteq Pixel /\ grid \subseteq Pixel /\ minimum \in Nat
    /\ retained \in BOOLEAN /\ stale \in BOOLEAN
    /\ valid \in [Scene -> SUBSET Pixel]

(* Rasters hold clear pixels only, whenever they are written.               *)
Clean == \A s \in Scene : valid[s] \subseteq Clear(s)

(* What an analysis has compared is founded on the geometry it has read and *)
(* on pixels clear in both scenes, and what it calls changed on a change.   *)
Grounds ==
    /\ frame \subseteq Pixel
    /\ comparable \subseteq over \cap frame \cap Clear("after")
    /\ \A p \in comparable : Match(p) \in Clear("before")
    /\ raw \subseteq comparable
    /\ \A p \in filtered : Founded(p)

Counted == removed = Cardinality({r \in Regions8[raw] : r \cap filtered = {}})

(* Until a scene is prepared differently the pixels of an analysis are      *)
(* those of the rasters of today.                                           *)
Chain ==
    /\ Types
    /\ Clean
    /\ stage \in Early => visited = {} /\ stack = {} /\ removed = 0
    /\ stage \in Analysed => Grounds /\ (~stale => comparable \subseteq ValidInBoth)
    /\ stage = "counting" => Fill
    /\ stage \in Analysed \ {"counting"} /\ minimum > 1 => Counted
    /\ stage = "cut" => support = Support(footprint) /\ support # {}
    /\ stage \in {"measured", "labelled"} /\ ~stale => coverage[1] > 0

LEMMA ChainInit == Init => Chain
<1> SUFFICES ASSUME Init PROVE Chain
  OBVIOUS
<1>1. /\ stage = "fetched" /\ area \in Areas /\ minimum \in Minima
      /\ grid = {} /\ valid = Nowhere /\ visited = {} /\ stack = {}
      /\ retained = FALSE /\ removed = 0 /\ stale = FALSE
  BY DEF Init
<1>2. area \subseteq Pixel /\ minimum \in Nat
  BY <1>1, EvidenceAssumption
<1>3. Types /\ Clean
  BY <1>1, <1>2 DEF Types, Clean, Early, Nowhere
<1> QED
  BY <1>1, <1>3 DEF Chain, Early, Analysed

LEMMA ChainStep == Chain /\ [Next]_vars => Chain'
<1> SUFFICES ASSUME Chain, [Next]_vars PROVE Chain'
  OBVIOUS
(* What is said of an analysis stays while it and its scenes stay.          *)
<1> DEFINE source   == <<minimum, cloud, invalid, shifted>>
           analysis == <<over, frame, comparable, raw, filtered>>
           filling  == <<visited, stack, retained, removed>>
           cut      == <<footprint, support>>
<1>a. ASSUME UNCHANGED source
      PROVE  \A s \in Scene : Clear(s)' = Clear(s)
  BY <1>a DEF Clear
<1>b. ASSUME UNCHANGED <<source, valid>>
      PROVE  Clean' = Clean
  BY <1>a, <1>b DEF Clean
<1>c. ASSUME UNCHANGED <<source, analysis>>
      PROVE  Grounds' = Grounds
  BY <1>c DEF Grounds, Founded, Match, Clear
<1>d. ASSUME UNCHANGED <<source, valid, grid>>
      PROVE  ValidInBoth' = ValidInBoth
  BY <1>d DEF ValidInBoth, OnGridOfAfter, Match
<1>e. ASSUME UNCHANGED <<analysis, filling>>
      PROVE  Fill' = Fill /\ Counted' = Counted
  BY <1>e DEF Fill, Done, Counted
<1>f. ASSUME UNCHANGED <<analysis, removed>>
      PROVE  Counted' = Counted
  BY <1>f DEF Counted
<1>g. ASSUME UNCHANGED <<analysis, cut>>
      PROVE  (support = Support(footprint))' = (support = Support(footprint))
  BY <1>g DEF Support
<1>1. ASSUME Prepare PROVE Chain'
  <2>1. /\ stage = "fetched" /\ stage' \in {"failed", "prepared"}
        /\ UNCHANGED <<area, minimum, retained, stale, source, filling>>
        /\ \/ UNCHANGED <<valid, grid>>
           \/ /\ valid' = [s \in Scene |-> area \cap Clear(s)]
              /\ grid' = Grid(area)
    BY <1>1 DEF Prepare, monitor, scenes, prepared, fill
  <2>2. Grid(area) \subseteq Pixel
    BY DEF Grid
  <2>3. Types'
    BY <2>1, <2>2 DEF Types, Chain, Early
  <2>4. Clean'
    BY <1>a, <2>1 DEF Clean, Chain
  <2> QED
    BY <2>1, <2>3, <2>4 DEF Chain, Early, Analysed
<1>2. ASSUME UpdateMonitor PROVE Chain'
  <2>1. /\ area' \subseteq Pixel
        /\ UNCHANGED <<stage, grid, valid, stale, source, analysis, filling, cut, coverage>>
    BY <1>2, EvidenceAssumption DEF UpdateMonitor, scenes, prepared, masks, fill, event
  <2>2. Types'
    BY <2>1 DEF Types, Chain
  <2> QED
    BY <1>b, <1>c, <1>d, <1>e, <1>g, <2>1, <2>2 DEF Chain
<1>3. ASSUME NEW s \in Scene, PrepareAgain(s) PROVE Chain'
  <2>1. /\ valid' = [valid EXCEPT ![s] = area \cap Clear(s)]
        /\ grid' \in {grid, Grid(area)}
        /\ stale' = (stale \/ (stage \in {"compared", "cut"} /\ prepared' # prepared))
        /\ stage \in {"prepared", "begun", "compared", "cut"}
        /\ UNCHANGED <<stage, area, source, analysis, filling, cut, coverage>>
    BY <1>3 DEF PrepareAgain, Between, monitor, scenes, masks, fill, event
  <2>2. Types'
    BY <2>1 DEF Types, Chain, Grid
  <2>3. Clean'
    BY <1>a, <2>1 DEF Clean, Types, Chain
  <2>4. stage \in Analysed /\ ~stale' => ~stale /\ ValidInBoth' = ValidInBoth
    <3> SUFFICES ASSUME stage \in Analysed, ~stale' PROVE ~stale /\ ValidInBoth' = ValidInBoth
      OBVIOUS
    <3>1. ~stale /\ prepared' = prepared
      BY <2>1 DEF Analysed
    <3> QED
      BY <1>d, <2>1, <3>1 DEF prepared
  <2>5. stage \notin {"measured", "labelled", "counting"}
    BY <2>1
  <2> QED
    BY <1>c, <1>e, <1>g, <2>1, <2>2, <2>3, <2>4, <2>5 DEF Chain
<1>4. ASSUME BeginAnalysis PROVE Chain'
  <2>1. /\ stage = "prepared" /\ stage' = "begun"
        /\ UNCHANGED <<area, grid, valid, stale, source, filling>>
    BY <1>4 DEF BeginAnalysis, monitor, scenes, prepared, fill
  <2>2. Types' /\ Clean'
    BY <1>b, <2>1 DEF Types, Chain, Early
  <2> QED
    BY <2>1, <2>2 DEF Chain, Early, Analysed
<1>5. ASSUME Compare PROVE Chain'
  <2>1. /\ stage = "begun" /\ stage' \in {"failed", "counting", "refused", "compared"}
        /\ stage' \in {"refused", "compared"} => minimum <= 1
        /\ UNCHANGED <<area, over, grid, valid, stale, source, filling>>
    BY <1>5 DEF Compare, Verdict, monitor, scenes, prepared, fill
  <2>2. Types' /\ Clean' /\ ValidInBoth' = ValidInBoth
    BY <1>b, <1>d, <2>1 DEF Types, Chain, Early, Analysed
  <2>3. visited' = {} /\ stack' = {} /\ removed' = 0
    BY <2>1 DEF Chain, Early
  <2>4. CASE Comparable = {}
    <3>1. stage' = "failed"
      BY <1>5, <2>4 DEF Compare
    <3> QED
      BY <2>2, <2>3, <3>1 DEF Chain, Early, Analysed
  <2>5. CASE Comparable # {}
    <3>1. /\ frame' = grid /\ comparable' = Comparable /\ raw' \subseteq Comparable
          /\ filtered' \in Filtered(raw')
          /\ stage' # "failed"
      BY <1>5, <2>5 DEF Compare, Verdict
    <3>2. Comparable \subseteq over \cap grid \cap Clear("after") /\ grid \subseteq Pixel
      BY DEF Comparable, ValidInBoth, OnGridOfAfter, Chain, Clean, Types, Scene
    <3>3. \A p \in Comparable : Match(p) \in Clear("before")
      BY DEF Comparable, ValidInBoth, OnGridOfAfter, Chain, Clean, Scene
    <3>4. ASSUME NEW p \in filtered' PROVE Founded(p)'
      <4>1. CASE minimum <= 1
        BY <3>1, <3>4, <4>1 DEF Filtered, Founded
      <4>2. CASE ~(minimum <= 1)
        <5>1. filtered' \in Sieve(raw', minimum) /\ raw' \in SUBSET grid
          BY <3>1, <3>2, <4>2 DEF Filtered
        <5>2. p \in raw' \/ \E hole \in Regions8[grid \ raw'] :
                                 p \in hole /\ Cardinality(hole) < minimum
          BY <3>2, <3>4, <5>1, SieveFills DEF Chain, Types
        <5> QED
          BY <2>1, <3>1, <5>2 DEF Founded
      <4> QED
        BY <4>1, <4>2
    <3>5. Grounds'
      <4>1. \A s \in Scene : Clear(s)' = Clear(s)
        BY <1>a, <2>1
      <4>2. \A p : Match(p)' = Match(p)
        BY <2>1 DEF Match
      <4> QED
        BY <2>1, <3>1, <3>2, <3>3, <3>4, <4>1, <4>2 DEF Grounds, Scene
    <3>6. Fill'
      <4>1. raw' \in SUBSET Pixel
        BY <3>1, <3>2
      <4>2. Done' = {}
        <5>1. \A r \in Regions8[raw'] : r # {}
          BY <4>1, RegionsPartition
        <5> QED
          BY <2>3, <5>1 DEF Done
      <4>3. {r \in Done : r \cap filtered = {}}' = {}
        BY <4>2
      <4> QED
        BY <2>3, <4>3, FS_EmptySet DEF Fill
    <3>7. comparable' \subseteq ValidInBoth'
      BY <2>2, <3>1 DEF Comparable
    <3>8. ~(minimum' > 1) \/ stage' = "counting"
      BY <2>1, <3>1 DEF Chain, Types
    <3> QED
      BY <2>1, <2>2, <3>1, <3>5, <3>6, <3>7, <3>8 DEF Chain, Early, Analysed
  <2> QED
    BY <2>4, <2>5
<1>6. ASSUME CountSeed \/ CountPixel PROVE Chain'
  <2>1. /\ stage = "counting" /\ retained' \in BOOLEAN
        /\ UNCHANGED <<stage, area, grid, valid, stale, source, analysis>>
    BY <1>6 DEF CountSeed, CountPixel, elsewhere, monitor, scenes, prepared, masks, Chain, Types
  <2>2. raw \subseteq Pixel /\ Fill /\ retained \in BOOLEAN
    BY <2>1 DEF Chain, Analysed, Grounds, Types
  <2>3. Fill'
    BY <1>6, <2>1, <2>2, FillSeed, FillPixel
  <2>4. Types' /\ Clean' /\ Grounds' /\ ValidInBoth' = ValidInBoth
    BY <1>b, <1>c, <1>d, <2>1 DEF Types, Chain, Analysed
  <2> QED
    BY <2>1, <2>3, <2>4 DEF Chain, Early, Analysed
<1>7. ASSUME CountEnd PROVE Chain'
  <2>1. /\ stage = "counting" /\ stage' \in {"compared", "refused"} /\ retained' \in BOOLEAN
        /\ stack = {} /\ raw \subseteq visited
        /\ UNCHANGED <<area, grid, valid, stale, removed, source, analysis>>
    BY <1>7 DEF CountEnd, Verdict, elsewhere, monitor, scenes, prepared, masks
  <2>2. Counted
    BY <2>1, FillEnd DEF Chain, Analysed, Grounds, Counted
  <2>3. Types' /\ Clean' /\ Grounds' /\ Counted' /\ ValidInBoth' = ValidInBoth
    BY <1>b, <1>c, <1>d, <1>f, <2>1, <2>2 DEF Types, Chain, Analysed
  <2> QED
    BY <2>1, <2>3 DEF Chain, Early, Analysed
<1>8. ASSUME CutEvent PROVE Chain'
  <2>1. /\ stage = "compared" /\ stage' = "cut"
        /\ support' = Support(footprint') /\ support' # {}
        /\ UNCHANGED <<area, grid, valid, stale, source, analysis, filling>>
    BY <1>8 DEF CutEvent, monitor, scenes, prepared, masks, fill
  <2>2. (support = Support(footprint))'
    BY <2>1 DEF Support
  <2>3. Types' /\ Clean' /\ Grounds' /\ ValidInBoth' = ValidInBoth
    BY <1>b, <1>c, <1>d, <2>1 DEF Types, Chain, Analysed
  <2> QED
    BY <1>f, <2>1, <2>2, <2>3 DEF Chain, Early, Analysed
<1>9. ASSUME Measure PROVE Chain'
  <2>1. ~stale => coverage'[1] > 0
    <3> SUFFICES ASSUME ~stale PROVE coverage'[1] > 0
      OBVIOUS
    <3>1. comparable \subseteq ValidInBoth /\ comparable \subseteq Pixel /\ support # {}
          /\ support \subseteq footprint \cap comparable
      BY <1>9 DEF Measure, Chain, Analysed, Grounds, Support
    <3> DEFINE counted == footprint \cap comparable \cap ValidInBoth
    <3>2. counted # {} /\ counted \subseteq Pixel
      BY <3>1
    <3>3. IsFiniteSet(counted)
      BY <3>2, PixelsFinite, FS_Subset
    <3>4. Cardinality(counted) \in Nat /\ Cardinality(counted) # 0
      BY <3>2, <3>3, FS_CardinalityType, FS_EmptySet
    <3>5. coverage'[1] = Cardinality(counted)
      BY <1>9 DEF Measure
    <3> QED
      BY <3>4, <3>5
  <2>2. valid' = Nowhere /\ \A s \in Scene : Nowhere[s] = {}
    BY <1>9 DEF Measure, Nowhere
  <2>3. Types' /\ Clean'
    BY <1>9, <2>2 DEF Measure, Types, Clean, Chain, Nowhere
  <2>4. stage' = "measured" /\ stale' = stale
    BY <1>9 DEF Measure
  <2> QED
    BY <2>1, <2>3, <2>4 DEF Chain, Early, Analysed
<1>10. ASSUME Infer PROVE Chain'
  <2>1. /\ stage = "measured" /\ stage' = "labelled"
        /\ UNCHANGED <<area, grid, valid, stale, source, filling, coverage>>
    BY <1>10 DEF Infer, monitor, scenes, prepared, fill
  <2>2. Types' /\ Clean'
    BY <1>b, <2>1 DEF Types, Chain
  <2> QED
    BY <2>1, <2>2 DEF Chain, Early, Analysed
<1>11. CASE UNCHANGED vars
  <2>1. UNCHANGED <<stage, area, grid, valid, stale, source, analysis, filling, cut, coverage>>
    BY <1>11 DEF vars, monitor, scenes, prepared, masks, fill, event
  <2>2. Types'
    BY <2>1 DEF Types, Chain
  <2> QED
    BY <1>b, <1>c, <1>d, <1>e, <1>g, <2>1, <2>2 DEF Chain
<1> QED
  BY <1>1, <1>2, <1>3, <1>4, <1>5, <1>6, <1>7, <1>8, <1>9, <1>10, <1>11 DEF Next

LEMMA ChainInvariant == Spec => []Chain
  BY ChainInit, ChainStep, PTL DEF Spec

(* Every pixel an event counts lies in the geometry the analysis has read,  *)
(* is clear in both scenes and has changed, or fills a hole below the       *)
(* minimum, whatever has changed since; no event is without a pixel, in its *)
(* table or, while its scenes are as prepared, in its evidence.             *)
THEOREM EventRestsOnEvidenceAlways == Spec => []EventRestsOnEvidence
<1>1. Chain => EventRestsOnEvidence
  <2>1. ASSUME Chain, stage = "cut", NEW p \in support
        PROVE  /\ p \in over \cap Clear("after")
               /\ Match(p) \in Clear("before")
               /\ Founded(p)
    BY <2>1 DEF Chain, Analysed, Grounds, Support
  <2> QED
    BY <2>1 DEF EventRestsOnEvidence, Chain, Founded
<1> QED
  BY <1>1, ChainInvariant, PTL

(* The flood fill counts the regions of which the sieve has left no pixel,  *)
(* each once, on any grid and in any order of the stack.                    *)
THEOREM RemovedChangesCountedAlways == Spec => []RemovedChangesCounted
<1>1. Chain => RemovedChangesCounted
  BY DEF Chain, Analysed, Counted, RemovedChangesCounted
<1> QED
  BY <1>1, ChainInvariant, PTL

-----------------------------------------------------------------------------
(* Labels.                                                                  *)

Far(d, x) == x \in DOMAIN d /\ Signal(d, x) >= MinimumEvidence

(* What the label l says of the differences d of the indices.               *)
BorneOut(l, d) ==
    /\ l \in {"vegetation_decrease", "vegetation_increase", "water_expansion",
              "water_contraction", "mixed_change", "uncertain"}
    /\ l = "vegetation_decrease" => Far(d, "ndvi") /\ d["ndvi"] < 0
    /\ l = "vegetation_increase" => Far(d, "ndvi") /\ d["ndvi"] > 0
    /\ l = "water_expansion" => Far(d, "ndwi") /\ d["ndwi"] > 0
    /\ l = "water_contraction" => Far(d, "ndwi") /\ d["ndwi"] < 0
    /\ l = "mixed_change" => /\ Far(d, "ndvi") /\ Far(d, "ndwi")
                             /\ Signal(d, "ndvi") - Signal(d, "ndwi") \in -Close .. Close

Wet   == {"water_expansion", "water_contraction"}
Green == {"vegetation_decrease", "vegetation_increase"}
Bare  == {"built_area_increase", "built_area_decrease", "bare_ground_increase",
          "bare_ground_decrease"}

(* Without the infrared bands the scores of buildings and bare ground stay  *)
(* below what a label takes; a strong score of the others shows the index   *)
(* far away in the direction of the label.                                  *)
LEMMA StrongScores ==
    ASSUME NEW d, DOMAIN d \subseteq {"ndvi", "ndwi"}, \A x \in DOMAIN d : d[x] \in Int
    PROVE  /\ DOMAIN Scores(d) = Wet \cup Green \cup Bare
           /\ \A x \in Bare : Scores(d)[x] \in Nat /\ Scores(d)[x] < MinimumEvidence
           /\ \A x \in Wet \cup Green : Scores(d)[x] \in Nat
           /\ \A x \in Wet \cup Green : Scores(d)[x] >= MinimumEvidence => BorneOut(x, d)
           /\ \A x \in Green : Scores(d)[x] \in {0, Signal(d, "ndvi")}
           /\ \A x \in Wet : Scores(d)[x] \in {0, Signal(d, "ndwi")}
<1> USE DEF Up, Down, If, Least, Full, Rate, Size, Flat, MinimumEvidence
<1>1. DOMAIN Scores(d) = Wet \cup Green \cup Bare
  BY DEF Scores, Wet, Green, Bare
<1>2. \A x \in DOMAIN d : Signal(d, x) \in Nat
  BY DEF Signal
<1>3. Scores(d)["built_area_increase"] = 0 /\ Scores(d)["built_area_decrease"] = 0
  BY DEF Scores
<1>4. Scores(d)["bare_ground_increase"] \in {0, 84} /\ Scores(d)["bare_ground_decrease"] \in {0, 63}
  BY DEF Scores
<1>5. /\ Scores(d)["vegetation_decrease"] = If(Down(d, "ndvi"), Signal(d, "ndvi"))
      /\ Scores(d)["vegetation_increase"] = If(Up(d, "ndvi"), Signal(d, "ndvi"))
      /\ Scores(d)["water_expansion"] = If(Up(d, "ndwi"), Signal(d, "ndwi"))
      /\ Scores(d)["water_contraction"] = If(Down(d, "ndwi"), Signal(d, "ndwi"))
  BY DEF Scores
<1>6. \A x \in Bare : Scores(d)[x] \in Nat /\ Scores(d)[x] < MinimumEvidence
  BY <1>3, <1>4 DEF Bare
<1>7. \A x \in Wet \cup Green : Scores(d)[x] \in Nat
  BY <1>2, <1>5 DEF Wet, Green
<1>8. ASSUME NEW x \in Wet \cup Green, Scores(d)[x] >= MinimumEvidence PROVE BorneOut(x, d)
  BY <1>5, <1>8 DEF Wet, Green, BorneOut, Far
<1>9. /\ \A x \in Green : Scores(d)[x] \in {0, Signal(d, "ndvi")}
      /\ \A x \in Wet : Scores(d)[x] \in {0, Signal(d, "ndwi")}
  BY <1>5 DEF Wet, Green
<1> QED
  BY <1>1, <1>6, <1>7, <1>8, <1>9

LEMMA LabelBorneOut ==
    ASSUME NEW d, DOMAIN d \subseteq {"ndvi", "ndwi"}, \A x \in DOMAIN d : d[x] \in Int,
           NEW l \in Labels(d)
    PROVE  /\ BorneOut(l, d)
           /\ Scarce /\ l # "uncertain" => l = "mixed_change"
<1> DEFINE score == Scores(d)
           names == Wet \cup Green \cup Bare
           best  == {x \in names : \A y \in names : score[y] <= score[x]}
           close == \E x \in best : \E y \in names \ {x} :
                        score[y] >= MinimumEvidence /\ score[x] - score[y] <= Close
<1>1. l \in IF close THEN {"mixed_change"}
            ELSE IF Scarce \/ \A x \in best : score[x] < MinimumEvidence THEN {"uncertain"}
            ELSE best
  BY StrongScores DEF Labels
<1>2. \A x \in names : score[x] \in Int
  BY StrongScores
<1>3. CASE close
  <2>1. PICK x \in best :
            \E y \in names \ {x} : score[y] >= MinimumEvidence /\ score[x] - score[y] <= Close
    BY <1>3
  <2>2. PICK y \in names \ {x} : score[y] >= MinimumEvidence /\ score[x] - score[y] <= Close
    BY <2>1
  <2>3. score[x] >= MinimumEvidence
    BY <1>2, <2>2 DEF MinimumEvidence
  <2>4. x \in Wet \cup Green /\ y \in Wet \cup Green
    <3>1. \A z \in Bare : ~(score[z] >= MinimumEvidence)
      BY StrongScores DEF MinimumEvidence
    <3> QED
      BY <2>2, <2>3, <3>1
  <2>5. BorneOut(x, d) /\ BorneOut(y, d)
    BY <2>2, <2>3, <2>4, StrongScores
  <2>6. ~(d["ndvi"] < 0 /\ d["ndvi"] > 0) \/ "ndvi" \notin DOMAIN d
    OBVIOUS
  <2>7. ~(d["ndwi"] < 0 /\ d["ndwi"] > 0) \/ "ndwi" \notin DOMAIN d
    OBVIOUS
  <2>8. Far(d, "ndvi") /\ Far(d, "ndwi")
    BY <2>2, <2>4, <2>5, <2>6, <2>7 DEF Wet, Green, BorneOut, Far
  <2>9. l = "mixed_change"
    BY <1>1, <1>3
  <2>10. Signal(d, "ndvi") - Signal(d, "ndwi") \in -Close .. Close
    <3>1. (x \in Green /\ y \in Wet) \/ (x \in Wet /\ y \in Green)
      BY <2>2, <2>4, <2>5, <2>6, <2>7 DEF Wet, Green, BorneOut, Far
    <3>2. /\ score[x] \in Nat /\ score[y] \in Nat /\ score[y] <= score[x]
          /\ score[x] # 0 /\ score[y] # 0
      BY <2>2, <2>3, <2>4, StrongScores DEF MinimumEvidence
    <3>3. \/ score[x] = Signal(d, "ndvi") /\ score[y] = Signal(d, "ndwi")
          \/ score[x] = Signal(d, "ndwi") /\ score[y] = Signal(d, "ndvi")
      BY <3>1, <3>2, StrongScores
    <3> HIDE DEF score
    <3> QED
      BY <2>2, <3>2, <3>3 DEF Close
  <2> QED
    BY <2>8, <2>9, <2>10 DEF BorneOut
<1>4. CASE ~close /\ (Scarce \/ \A x \in best : score[x] < MinimumEvidence)
  BY <1>1, <1>4 DEF BorneOut
<1>5. CASE ~close /\ ~Scarce /\ ~\A x \in best : score[x] < MinimumEvidence
  <2>1. l \in best /\ \E x \in best : ~(score[x] < MinimumEvidence)
    BY <1>1, <1>5
  <2>2. score[l] >= MinimumEvidence
    BY <1>2, <2>1 DEF MinimumEvidence
  <2> QED
    BY <1>2, <1>5, <2>1, <2>2, StrongScores DEF MinimumEvidence
<1> QED
  BY <1>3, <1>4, <1>5

(* Only Infer leaves an event labelled.                                     *)
LEMMA Unlabelled ==
    ASSUME Next, ~Infer
    PROVE  stage' # "labelled"
<1>1. Between => stage # "labelled"
  BY DEF Between
<1> QED
  BY <1>1 DEF Next, Prepare, UpdateMonitor, PrepareAgain, BeginAnalysis, Compare, Verdict,
       CountSeed, CountPixel, CountEnd, CutEvent, Measure

(* A label names an index that has moved far enough the way the label says, *)
(* never buildings or bare ground, and only a mixed change is named on      *)
(* scarce evidence.                                                         *)
THEOREM LabelFollowsSignalsAlways == Spec => []LabelFollowsSignals
<1> DEFINE LabelInv == stage = "labelled" =>
                           /\ BorneOut(label, delta)
                           /\ Scarce /\ label # "uncertain" => label = "mixed_change"
<1>1. Init => LabelInv
  BY DEF Init
<1>2. LabelInv /\ [Next]_vars => LabelInv'
  <2> SUFFICES ASSUME LabelInv, [Next]_vars, stage' = "labelled" PROVE LabelInv'
    OBVIOUS
  <2>1. CASE Infer
    <3>1. {x \in DOMAIN Indices : Known(x)} \subseteq {"ndvi", "ndwi"}
      BY DEF Indices, Known, BandKeys
    <3>2. /\ DOMAIN delta' \subseteq {"ndvi", "ndwi"}
          /\ \A x \in DOMAIN delta' : delta'[x] \in Int
          /\ label' \in Labels(delta') /\ UNCHANGED coverage
      BY <2>1, <3>1, EvidenceAssumption DEF Infer
    <3>3. Scarce' = Scarce
      BY <3>2 DEF Scarce
    <3> QED
      BY <3>2, <3>3, LabelBorneOut
  <2>2. CASE UNCHANGED vars
    BY <2>2 DEF vars, meaning, Scarce
  <2> QED
    BY <2>1, <2>2, Unlabelled
<1>3. LabelInv => LabelFollowsSignals
  <2> SUFFICES ASSUME BorneOut(label, delta), Scarce /\ label # "uncertain" => label = "mixed_change"
               PROVE  LabelFollowsSignals
    BY DEF LabelFollowsSignals
  <2> QED
    BY DEF LabelFollowsSignals, BorneOut, Far
<1> QED
  BY <1>1, <1>2, <1>3, PTL DEF Spec
===============================================================================
