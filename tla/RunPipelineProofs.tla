-------------------------- MODULE RunPipelineProofs --------------------------
(***************************************************************************)
(* Proofs about RunPipeline for any number of scenes, API calls, days,      *)
(* retries and faults: types; what a completed run has delivered; what a    *)
(* forced run repairs; when the scene a run looks back to has been          *)
(* analysed; how often the events of a pair can be stored; and that a       *)
(* cancelled run stops soon.                                                *)
(***************************************************************************)
EXTENDS RunPipeline, FiniteSetTheorems, WellFoundedInduction, TLAPS

-----------------------------------------------------------------------------
(* The choice of scenes.  Precedes is a strict total order.                 *)
LEMMA PrecedesIsOrder ==
    /\ \A s \in Scenes : ~ Precedes(s, s)
    /\ \A s, t \in Scenes : s # t => Precedes(s, t) \/ Precedes(t, s)
    /\ \A s, t, u \in Scenes : Precedes(s, t) /\ Precedes(t, u) => Precedes(s, u)
  BY SceneAssumption DEF Precedes

(* There is a newest among any found scenes: one that a smallest set of     *)
(* others precedes, since what precedes one of those is a smaller set.      *)
LEMMA NewestExists ==
  ASSUME NEW S \in SUBSET Scenes, S # {}
  PROVE  Newest(S) \in S /\ \A t \in S \ {Newest(S)} : Precedes(Newest(S), t)
<1> DEFINE Before(s) == {t \in S : Precedes(t, s)}
           Befores == {Before(s) : s \in S}
<1>1. IsFiniteSet(S)
  BY SceneAssumption, FS_Subset
<1>2. Befores \subseteq FiniteSubsetsOf(S) /\ Befores # {}
  <2>1. \A s \in S : Before(s) \in SUBSET S
    OBVIOUS
  <2>2. \A s \in S : Before(s) \in FiniteSubsetsOf(S)
    BY <1>1, <2>1, FS_Subset DEF FiniteSubsetsOf
  <2> QED
    BY <2>2
<1>3. IsWellFoundedOn(StrictSubsetOrdering(S), FiniteSubsetsOf(S))
  BY FS_StrictSubsetOrderingWellFounded
<1> HIDE DEF Befores
<1>4. PICK b \in Befores : \A a \in Befores : ~ (<<a, b>> \in StrictSubsetOrdering(S))
  BY <1>2, <1>3, WFMin
<1>5. PICK s \in S : b = Before(s)
  BY DEF Befores
<1>6. ASSUME NEW t \in S, Precedes(t, s) PROVE FALSE
  <2>1. Before(t) \subseteq Before(s) /\ Before(t) # Before(s)
    BY <1>6, PrecedesIsOrder
  <2>2. Before(t) \in Befores
    BY DEF Befores
  <2>3. <<Before(t), Before(s)>> \in StrictSubsetOrdering(S)
    BY <2>1 DEF StrictSubsetOrdering
  <2> QED
    BY <1>4, <1>5, <2>2, <2>3
<1>7. \A t \in S \ {s} : Precedes(s, t)
  BY <1>6, PrecedesIsOrder
<1> QED
  BY <1>7 DEF Newest

(* What _choose_scene_pair returns: no pair, or two of the found scenes in  *)
(* the order of their acquisition, of which the after scene is the newest.  *)
LEMMA ChosenPair ==
  ASSUME NEW S \in SUBSET Scenes, NEW before
  PROVE  LET chosen == ChooseScenePair(S, before) IN
         /\ chosen # NoPair => /\ chosen \in Pairs /\ chosen[1] \in S /\ chosen[2] \in S
                               /\ \A t \in S \ {chosen[2]} : Precedes(chosen[2], t)
         /\ (\E s, t \in S : Acquired[s] < Acquired[t]) => chosen # NoPair
<1> DEFINE after == Newest(S)
           older == Older(S, after)
           chosen == ChooseScenePair(S, before)
<1>1. ASSUME S # {}, older # {}
      PROVE  /\ chosen \in Pairs /\ chosen[1] \in S /\ chosen[2] = after /\ after \in S
             /\ \A t \in S \ {after} : Precedes(after, t)
  <2>1. after \in S /\ \A t \in S \ {after} : Precedes(after, t)
    BY <1>1, NewestExists
  <2>2. older \in SUBSET Scenes /\ older \subseteq S
    BY DEF Older
  <2>3. Newest(older) \in older
    BY <1>1, <2>2, NewestExists
  <2>4. PICK s \in older : chosen = <<s, after>>
    BY <1>1, <2>3 DEF ChooseScenePair
  <2>5. Acquired[s] < Acquired[after] /\ s \in S
    BY <2>4 DEF Older
  <2> QED
    BY <2>1, <2>4, <2>5 DEF Pairs
<1>2. S = {} \/ older = {} => chosen = NoPair
  BY DEF ChooseScenePair
<1>3. ASSUME NEW s \in S, NEW t \in S, Acquired[s] < Acquired[t]
      PROVE  older # {}
  <2>1. after \in S /\ (t = after \/ Precedes(after, t))
    BY NewestExists
  <2>2. Acquired[s] < Acquired[after]
    <3>1. Acquired[s] \in Nat /\ Acquired[t] \in Nat /\ Acquired[after] \in Nat
      BY <2>1, SceneAssumption
    <3> QED
      BY <1>3, <2>1, <3>1 DEF Precedes
  <2> QED
    BY <2>2 DEF Older
<1>4. \A p \in Pairs : p # NoPair
  BY SceneAssumption DEF Pairs, NoPair
<1> HIDE DEF after, older, chosen
<1>5. chosen # NoPair => S # {} /\ older # {}
  BY <1>2
<1>6. (\E s, t \in S : Acquired[s] < Acquired[t]) => S # {} /\ older # {}
  BY <1>3
<1>7. /\ chosen # NoPair => /\ chosen \in Pairs /\ chosen[1] \in S /\ chosen[2] \in S
                            /\ \A t \in S \ {chosen[2]} : Precedes(chosen[2], t)
      /\ (\E s, t \in S : Acquired[s] < Acquired[t]) => chosen # NoPair
  BY <1>1, <1>4, <1>5, <1>6
<1> QED
  BY <1>7 DEF chosen

(* The provider returns matching scenes, and all of them if the limit on    *)
(* the search does not cut any off.                                         *)
LEMMA Returned ==
  ASSUME NEW M \in SUBSET Scenes, NEW S \in SearchResults(M, Limit)
  PROVE  S \subseteq M /\ (~ (Cardinality(M) > Limit) => S = M)
<1>1. IsFiniteSet(M) /\ Cardinality(M) \in Nat
  BY SceneAssumption, FS_Subset, FS_CardinalityType
<1>2. ~ (Cardinality(M) > Limit) => Cardinality(M) <= Limit
  BY <1>1, PipelineAssumption
<1> QED
  BY <1>2 DEF SearchResults

-----------------------------------------------------------------------------
(* Control.  Where an operation can take a process.                         *)
LEMMA WorkerOrCaller == Worker \in Procs /\ (\A c \in Callers : c \in Procs /\ c # Worker)
  BY PipelineAssumption DEF Procs

Positions == stage \in [Procs -> Stages] /\ step \in [Procs -> Steps]

OperationStages == PrepareStages \cup {"analyse", "generate"}

Others(p) == \A q \in Procs \ {p} : stage'[q] = stage[q] /\ step'[q] = step[q]

LEMMA Entered ==
  ASSUME Positions, NEW p \in Procs, NEW s \in Stages, Enter(p, s)
  PROVE  /\ Positions' /\ Others(p) /\ stage'[p] = s
         /\ step'[p] = IF s \in GatedStages /\ p = Worker THEN "gate" ELSE "read"
  BY DEF Positions, Others, Enter, Steps

LEMMA Went ==
  ASSUME Positions, NEW p \in Procs, NEW st \in Steps, Goto(p, st)
  PROVE  Positions' /\ Others(p) /\ stage'[p] = stage[p] /\ step'[p] = st
  BY DEF Positions, Others, Goto

(* The stage after an operation that succeeds.                              *)
LEMMA Advanced ==
  ASSUME Positions, NEW p \in Procs, stage[p] \in OperationStages, Advance(p)
  PROVE  /\ Positions' /\ Others(p)
         /\ stage'[p] = IF p = Worker THEN Following(stage[p], pair[p]) ELSE "none"
         /\ stage'[p] \in {"none", "prepare_after", "analyse", "generate", "semantics", "finish"}
         /\ p = Worker => stage'[p] # "none"
         /\ stage'[p] = "none" => step'[p] = "read"
<1> DEFINE s == IF p = Worker THEN Following(stage[p], pair[p]) ELSE "none"
<1>1. /\ s \in {"none", "prepare_after", "analyse", "generate", "semantics", "finish"}
      /\ p = Worker => s # "none"
  BY DEF Following, OperationStages, PrepareStages
<1>2. s \in Stages
  BY <1>1 DEF Stages, PrepareStages, GatedStages, EnrichStages
<1>3. Enter(p, s)
  BY DEF Advance
<1> HIDE DEF s
<1>4. Positions' /\ Others(p) /\ stage'[p] = s /\ (s = "none" => step'[p] = "read")
  BY <1>2, <1>3, Entered DEF GatedStages, EnrichStages
<1> QED
  BY <1>1, <1>4 DEF s

LEMMA Raised ==
  ASSUME Positions, NEW p \in Procs, Raise(p)
  PROVE  /\ Positions' /\ Others(p)
         /\ stage'[p] = IF p = Worker THEN "failing" ELSE "none"
         /\ stage'[p] = "none" => step'[p] = "read"
<1> DEFINE s == IF p = Worker THEN "failing" ELSE "none"
<1>1. s \in Stages /\ Enter(p, s)
  BY DEF Raise, Stages
<1> HIDE DEF s
<1>2. Positions' /\ Others(p) /\ stage'[p] = s /\ (s = "none" => step'[p] = "read")
  BY <1>1, Entered DEF GatedStages, EnrichStages
<1> QED
  BY <1>2 DEF s

LEMMA RaisedTransient ==
  ASSUME Positions, NEW p \in Procs, RaiseTransient(p)
  PROVE  /\ Positions' /\ Others(p)
         /\ p # Worker => stage'[p] = "none"
         /\ p = Worker => \/ stage'[p] = "failing"
                          \/ stage'[p] = "retry" /\ attempt < MaxRetries
         /\ stage'[p] = "none" => step'[p] = "read"
<1> DEFINE s == IF p # Worker THEN "none"
                ELSE IF attempt < MaxRetries THEN "retry" ELSE "failing"
<1>1. s \in Stages /\ Enter(p, s)
  BY DEF RaiseTransient, Stages
<1> HIDE DEF s
<1>2. Positions' /\ Others(p) /\ stage'[p] = s /\ (s = "none" => step'[p] = "read")
  BY <1>1, Entered DEF GatedStages, EnrichStages
<1> QED
  BY <1>2 DEF s

(* What an operation does to the place of its process, and what it leaves   *)
(* alone.                                                                   *)
Moved(p) ==
    /\ stage[p] \in OperationStages
    /\ Positions' /\ Others(p)
    /\ \/ stage'[p] = stage[p]
       \/ p # Worker /\ stage'[p] = "none"
       \/ p = Worker /\ stage'[p] \in {"prepare_after", "analyse", "generate", "semantics",
                                        "finish", "failing"}
       \/ p = Worker /\ stage'[p] = "retry" /\ attempt < MaxRetries
    /\ stage'[p] = "none" => step'[p] = "read"
    /\ UNCHANGED <<world, stored, job, runRow, pair, force, local, searches, faults>>

LEMMA OperationMoves ==
  ASSUME Positions, NEW p \in Procs, Operation(p)
  PROVE  Moved(p)
<1> USE DEF world, products, runRow, local, history, searches, At
<1>0. stage[p] \in OperationStages
  BY DEF Operation, ReadPrepared, BeginPreparing, FinishPreparing, ReadAnalysis,
       BeginAnalysis, FinishAnalysis, ReadEvents, DeleteEvents, StoreEvents, Summarise, OperationStages
<1>1. {"begin", "compute", "store", "summarise"} \subseteq Steps /\ "none" \notin OperationStages
  BY DEF Steps, OperationStages, PrepareStages
<1> USE <1>0, <1>1, Went, Advanced, Raised, RaisedTransient DEF Moved
<1>2. CASE ReadPrepared(p)
  BY <1>2 DEF ReadPrepared
<1>3. CASE BeginPreparing(p)
  BY <1>3 DEF BeginPreparing
<1>4. CASE FinishPreparing(p)
  BY <1>4 DEF FinishPreparing
<1>5. CASE ReadAnalysis(p)
  BY <1>5 DEF ReadAnalysis
<1>6. CASE BeginAnalysis(p)
  BY <1>6 DEF BeginAnalysis
<1>7. CASE FinishAnalysis(p)
  BY <1>7 DEF FinishAnalysis
<1>8. CASE ReadEvents(p)
  BY <1>8 DEF ReadEvents
<1>9. CASE DeleteEvents(p)
  BY <1>9 DEF DeleteEvents
<1>10. CASE StoreEvents(p)
  BY <1>10 DEF StoreEvents
<1>11. CASE Summarise(p)
  BY <1>11 DEF Summarise
<1> QED
  BY <1>2, <1>3, <1>4, <1>5, <1>6, <1>7, <1>8, <1>9, <1>10, <1>11 DEF Operation

-----------------------------------------------------------------------------
(* Types.                                                                   *)
ChosenStages == OperationStages \cup EnrichStages \cup {"finish"}

(* Whoever compares or vectorises has a pair to do it with; from the choice *)
(* of the scenes on the worker's pair is the one in the row of the run.     *)
Paired ==
    /\ \A c \in Callers : stage[c] \in {"none", "prepare_after", "analyse", "generate"}
    /\ \A p \in Procs : stage[p] \in {"analyse", "generate"} => pair[p] \in Pairs
    /\ \A c \in Callers : stage[c] = "prepare_after" => pair[c][2] \in Scenes
    /\ stage[Worker] \in ChosenStages => pair[Worker] = runPair /\ runPair \in Pairs
    /\ stage[Worker] = "retry" => attempt < MaxRetries
    /\ stage[Worker] = "none" => step[Worker] = "read"

TypeInv == TypeOK /\ Paired

(* An operation stays with its pair.                                        *)
LEMMA PairedMoves ==
  ASSUME Paired, NEW p \in Procs, Moved(p)
  PROVE  Paired'
  BY WorkerOrCaller DEF Paired, Moved, Others, Positions, runRow, ChosenStages,
       OperationStages, PrepareStages, EnrichStages, Procs

(* Setting one flag keeps the type of a set of flags.                       *)
LEMMA FlagSet ==
  ASSUME NEW S, NEW f \in [S -> BOOLEAN], NEW x, NEW b \in BOOLEAN
  PROVE  [f EXCEPT ![x] = b] \in [S -> BOOLEAN]
  OBVIOUS

(* The table of events after p has stored those of its pair: what its       *)
(* DELETE has seen is gone, one generation of its own is there.             *)
Stored(p) ==
    [rows EXCEPT ![pair[p]] = [q \in Procs |->
        (IF q \in doomed[p] THEN 0 ELSE @[q]) + (IF q = p THEN Count(pair[p]) ELSE 0)]]

LEMMA StoredRows ==
  ASSUME rows \in [Pairs -> [Procs -> Nat]], NEW p \in Procs, pair[p] \in Pairs
  PROVE  /\ Stored(p) \in [Pairs -> [Procs -> Nat]]
         /\ \A r \in Pairs, q \in Procs :
               Stored(p)[r][q] = IF r # pair[p] THEN rows[r][q]
                                 ELSE (IF q \in doomed[p] THEN 0 ELSE rows[r][q])
                                      + (IF q = p THEN Count(r) ELSE 0)
         /\ \A r \in Pairs : Count(r) \in {0, 1}
<1>1. \A r \in Pairs : Count(r) \in {0, 1}
  BY DEF Count
<1> DEFINE new == [q \in Procs |-> (IF q \in doomed[p] THEN 0 ELSE rows[pair[p]][q])
                                    + (IF q = p THEN Count(pair[p]) ELSE 0)]
<1>2. new \in [Procs -> Nat]
  BY <1>1
<1>3. Stored(p) = [rows EXCEPT ![pair[p]] = new]
  BY DEF Stored
<1>4. \A q \in Procs : new[q] = (IF q \in doomed[p] THEN 0 ELSE rows[pair[p]][q])
                                   + (IF q = p THEN Count(pair[p]) ELSE 0)
  OBVIOUS
<1> HIDE DEF new
<1> QED
  BY <1>1, <1>2, <1>3, <1>4

(* What a process writes in an operation on a product is of its type.       *)
LEMMA TypesOfOperation ==
  ASSUME TypeInv, NEW p \in Procs, Operation(p)
  PROVE  TypeInv'
<1>1. Moved(p)
  BY OperationMoves DEF TypeInv, TypeOK, Positions
<1>2. Paired'
  BY <1>1, PairedMoves DEF TypeInv
<1>3. TypeOK'
  <2> USE DEF TypeInv, TypeOK, Paired, At, world, products, runRow, local, history, searches
  <2>1. /\ stage' \in [Procs -> Stages] /\ step' \in [Procs -> Steps]
        /\ UNCHANGED <<world, stored, job, runRow, pair, force, local, searches, faults>>
    BY <1>1 DEF Moved, Positions
  <2>2. /\ {"none", "processing", "failed", "ready"} \subseteq ProductStatus
        /\ \A q \in Pairs : Count(q) \in Nat
    BY DEF ProductStatus, Count
  <2>3. lateWork' \in Nat
    BY DEF Operation, ReadPrepared, BeginPreparing, FinishPreparing, ReadAnalysis,
         BeginAnalysis, FinishAnalysis, ReadEvents, DeleteEvents, StoreEvents, Summarise, NoteWork
  <2>7. seen' \in [Procs -> BOOLEAN]
    <3>1. CASE ReadPrepared(p)
      BY <3>1, FlagSet DEF ReadPrepared
    <3>2. CASE ReadAnalysis(p)
      BY <3>2, FlagSet DEF ReadAnalysis
    <3>3. CASE ReadEvents(p)
      <4> DEFINE some == Storers(pair[p]) # {}
      <4>2. some \in BOOLEAN
        OBVIOUS
      <4>3. UNCHANGED seen \/ seen' = [seen EXCEPT ![p] = some]
        BY <3>3 DEF ReadEvents
      <4> HIDE DEF some
      <4> QED
        BY <4>2, <4>3, FlagSet
    <3>4. CASE UNCHANGED seen
      BY <3>4
    <3> QED
      BY <3>1, <3>2, <3>3, <3>4 DEF Operation, BeginPreparing, FinishPreparing,
           BeginAnalysis, FinishAnalysis, DeleteEvents, StoreEvents, Summarise
  <2>4. prepared' \in [Scenes -> ProductStatus]
    BY <2>2 DEF Operation, ReadPrepared, BeginPreparing, FinishPreparing, ReadAnalysis,
         BeginAnalysis, FinishAnalysis, ReadEvents, DeleteEvents, StoreEvents, Summarise
  <2>9. analyses' \in [Pairs -> ProductStatus]
    BY <2>2 DEF Operation, ReadPrepared, BeginPreparing, FinishPreparing, ReadAnalysis,
         BeginAnalysis, FinishAnalysis, ReadEvents, DeleteEvents, StoreEvents, Summarise
  <2>5. rows' \in [Pairs -> [Procs -> Nat]]
    <3>1. CASE StoreEvents(p)
      <4>1. pair[p] \in Pairs
        BY <3>1 DEF StoreEvents
      <4>2. rows' = rows \/ rows' = Stored(p)
        BY <3>1 DEF StoreEvents, Stored
      <4> QED
        BY <4>1, <4>2, StoredRows
    <3>2. CASE UNCHANGED rows
      BY <3>2
    <3> QED
      BY <3>1, <3>2 DEF Operation, ReadPrepared, BeginPreparing, FinishPreparing,
           ReadAnalysis, BeginAnalysis, FinishAnalysis, ReadEvents, DeleteEvents, Summarise
  <2>8. summary' \in [Pairs -> BOOLEAN]
    BY DEF Operation, ReadPrepared, BeginPreparing, FinishPreparing, ReadAnalysis,
         BeginAnalysis, FinishAnalysis, ReadEvents, DeleteEvents, StoreEvents, Summarise
  <2>6. analysed' \subseteq Pairs /\ summarised' \subseteq Pairs
    BY DEF Operation, ReadPrepared, BeginPreparing, FinishPreparing, ReadAnalysis,
         BeginAnalysis, FinishAnalysis, ReadEvents, DeleteEvents, StoreEvents, Summarise
  <2>10. doomed' \in [Procs -> SUBSET Procs]
    <3>1. CASE DeleteEvents(p)
      <4> DEFINE gone == IF seen[p] THEN Storers(pair[p]) ELSE {}
      <4>1. gone \in SUBSET Procs
        BY DEF Storers
      <4>2. doomed' = doomed \/ doomed' = [doomed EXCEPT ![p] = gone]
        BY <3>1 DEF DeleteEvents
      <4> HIDE DEF gone
      <4> QED
        BY <4>1, <4>2
    <3>2. CASE StoreEvents(p)
      <4> DEFINE left(q) == IF q = p THEN {}
                            ELSE IF pair[q] = pair[p] THEN doomed[q] \ {p} ELSE doomed[q]
      <4>1. \A q \in Procs : left(q) \in SUBSET Procs
        OBVIOUS
      <4>2. doomed' = [q \in Procs |-> left(q)] \/ doomed' = [doomed EXCEPT ![p] = {}]
        BY <3>2 DEF StoreEvents
      <4> HIDE DEF left
      <4> QED
        BY SMTT(20), <4>1, <4>2
    <3>3. CASE UNCHANGED doomed
      BY <3>3
    <3> QED
      BY <3>1, <3>2, <3>3 DEF Operation, ReadPrepared, BeginPreparing, FinishPreparing,
           ReadAnalysis, BeginAnalysis, FinishAnalysis, ReadEvents, Summarise
  <2> QED
    BY <2>1, <2>3, <2>4, <2>5, <2>6, <2>7, <2>8, <2>9, <2>10
<1> QED
  BY <1>2, <1>3 DEF TypeInv

(* The worker moves; the callers and their pairs stay.                      *)
LEMMA PairedElsewhere ==
  ASSUME Paired, Others(Worker), \A c \in Callers : pair'[c] = pair[c],
         stage'[Worker] \in ChosenStages => pair'[Worker] = runPair' /\ runPair' \in Pairs,
         stage'[Worker] = "retry" => attempt' < MaxRetries,
         stage'[Worker] = "none" => step'[Worker] = "read"
  PROVE  Paired'
  BY WorkerOrCaller DEF Paired, Others, ChosenStages, OperationStages, Procs

(* What a process forgets when it ends.                                     *)
LEMMA Forgotten ==
  ASSUME TypeOK, NEW p \in Procs, Reset(p)
  PROVE  /\ pair' \in [Procs -> (Scenes \cup {NoScene}) \X (Scenes \cup {NoScene})]
         /\ force' \in [Procs -> BOOLEAN] /\ seen' \in [Procs -> BOOLEAN]
         /\ found' \subseteq Scenes /\ previous' \in Scenes \cup {NoScene}
         /\ warned' \in BOOLEAN /\ doomed' \in [Procs -> SUBSET Procs]
         /\ \A q \in Procs \ {p} : /\ pair'[q] = pair[q] /\ force'[q] = force[q]
                                   /\ seen'[q] = seen[q] /\ doomed'[q] = doomed[q]
  BY DEF TypeOK, Reset, NoPair, local

LEMMA TypesKept ==
    TypeInv /\ [Next]_vars
    => TypeInv'
<1> SUFFICES ASSUME TypeInv, [Next]_vars
             PROVE  TypeInv'
  OBVIOUS
<1> USE WorkerOrCaller DEF world, products, runRow, procs, local, history, searches, TypeInv, TypeOK,
      Paired, ChosenStages, OperationStages, PrepareStages, EnrichStages, GatedStages,
      Stages, Steps, ProductStatus, Final, Positions, Others
<1>1. ASSUME StartRun PROVE TypeInv'
  <2>1. PICK s \in {"none", "refresh", "search"} : Enter(Worker, s)
    BY <1>1 DEF StartRun
  <2>2. /\ Positions' /\ Others(Worker) /\ stage'[Worker] = s
        /\ s = "none" => step'[Worker] = "read"
    BY <2>1, Entered
  <2>3. Paired'
    BY <1>1, <2>2, PairedElsewhere DEF StartRun
  <2>4. force' \in [Procs -> BOOLEAN]
    <3>1. request.force \in BOOLEAN
      BY PipelineAssumption
    <3>2. force' = force \/ force' = [force EXCEPT ![Worker] = request.force]
      BY <1>1 DEF StartRun
    <3> HIDE DEF Paired
    <3> QED
      BY <3>1, <3>2, FlagSet
  <2>5. /\ job' \in {job, "running"} /\ outcome' \in {outcome, "started"}
        /\ UNCHANGED <<today, published, stored, prepared, analyses, rows, summary, request,
                       attempt, runPair, latestAfter, pair, seen, doomed, found, previous,
                       warned, analysed, summarised, lateWork, moved, skipped, faults>>
    BY <1>1 DEF StartRun
  <2>6. TypeOK'
    <3>1. TypeOK /\ stage' \in [Procs -> Stages] /\ step' \in [Procs -> Steps]
      BY <2>2
    <3> HIDE DEF TypeInv, Paired, Others, Stages, Steps, Positions, ProductStatus
    <3> QED
      BY <2>4, <2>5, <3>1
  <2> QED
    BY <2>3, <2>6
<1>2. ASSUME Gate PROVE TypeInv'
  <2>1. Positions' /\ Others(Worker) /\ stage'[Worker] \in {stage[Worker], "cancelling"}
    BY <1>2, Entered, Went DEF Gate
  <2>2. Paired'
    BY <1>2, <2>1, PairedElsewhere DEF Gate
  <2>3. UNCHANGED <<today, published, stored, prepared, analyses, rows, summary, job, outcome,
                    request, attempt, runPair, latestAfter, pair, force, seen, doomed, found,
                    previous, warned, analysed, summarised, lateWork, moved, skipped, faults>>
    BY <1>2 DEF Gate
  <2>4. TypeOK'
    <3>1. TypeOK /\ stage' \in [Procs -> Stages] /\ step' \in [Procs -> Steps]
      BY <2>1
    <3> HIDE DEF TypeInv, Paired, Others, Stages, Steps, Positions, Final, ProductStatus
    <3> QED
      BY <2>3, <3>1
  <2> QED
    BY <2>2, <2>4
<1>3. ASSUME Enrich PROVE TypeInv'
  <2>1. Following(stage[Worker], pair[Worker]) \in {"search", "impacts", "exposures", "finish"}
    BY <1>3 DEF Enrich, Following
  <2>2. ASSUME Advance(Worker) PROVE Positions' /\ Paired'
    <3>1. /\ Positions' /\ Others(Worker)
          /\ stage'[Worker] = Following(stage[Worker], pair[Worker])
      BY <2>1, <2>2, Entered DEF Advance
    <3>2. stage[Worker] = "refresh" => stage'[Worker] = "search"
      BY <3>1 DEF Following
    <3>3. Paired'
      BY <1>3, <2>1, <3>1, <3>2, PairedElsewhere DEF Enrich
    <3> QED
      BY <3>1, <3>3
  <2>3. ASSUME Raise(Worker) PROVE Positions' /\ Paired'
    <3>1. Positions' /\ Others(Worker) /\ stage'[Worker] = "failing"
      BY <2>3, Raised
    <3>2. Paired'
      BY <1>3, <3>1, PairedElsewhere DEF Enrich
    <3> QED
      BY <3>1, <3>2
  <2>4. Positions' /\ Paired'
    <3> HIDE DEF TypeInv, TypeOK, Paired, Positions
    <3> QED
      BY <1>3, <2>2, <2>3 DEF Enrich
  <2>5. warned' = warned \/ warned' = TRUE
    BY <1>3 DEF Enrich
  <2>6. lateWork' \in Nat
    BY <1>3 DEF Enrich, NoteWork
  <2>7. warned \in BOOLEAN
    OBVIOUS
  <2>8. warned' \in BOOLEAN
    <3> HIDE DEF TypeInv, TypeOK, Paired
    <3> QED
      BY <2>5, <2>7, Zenon
  <2> QED
    BY <1>3, <2>4, <2>6, <2>8 DEF Enrich
<1>4. ASSUME SearchScenes PROVE TypeInv'
  <2>1. Advance(Worker) => Enter(Worker, "select")
    BY <1>4 DEF SearchScenes, At, Advance, Following
  <2>2. /\ Positions' /\ Others(Worker)
        /\ \/ stage'[Worker] \in {"select", "failing"}
           \/ stage'[Worker] = "retry" /\ attempt < MaxRetries
    BY <1>4, <2>1, Entered, RaisedTransient, Raised DEF SearchScenes
  <2>3. Paired'
    BY <1>4, <2>2, PairedElsewhere DEF SearchScenes
  <2>4. Matches(published, request, SearchWindow(request, latestAfter, today)) \in SUBSET Scenes
    BY DEF Matches
  <2>5. found' \subseteq Scenes /\ stored' \subseteq Scenes
    BY <1>4, <2>4, Returned DEF SearchScenes
  <2>6. lateWork' \in Nat
    BY <1>4 DEF SearchScenes, NoteWork
  <2>7. moved' = moved \/ moved' = (moved \/ Cardinality(Matches(published, request,
                       SearchWindow(request, latestAfter, today))) > Limit)
    BY <1>4 DEF SearchScenes
  <2>8. moved' \in BOOLEAN
    BY <2>7
  <2> QED
    BY <1>4, <2>2, <2>3, <2>5, <2>6, <2>8 DEF SearchScenes
<1>5. ASSUME SelectScenes PROVE TypeInv'
  <2> DEFINE chosen == ChooseScenePair(found, previous)
  <2>1. chosen # NoPair => chosen \in Pairs
    BY ChosenPair
  <2> HIDE DEF chosen
  <2>2. CASE Complete("no_new_imagery") /\ UNCHANGED runPair
    <3>1. /\ Positions' /\ Others(Worker) /\ stage'[Worker] = "none"
          /\ step'[Worker] = "read"
      BY <2>2, Entered DEF Complete
    <3>2. Reset(Worker)
      BY <2>2 DEF Complete
    <3>3. Paired'
      BY <3>1, <3>2, Forgotten, PairedElsewhere
    <3>4. latestAfter' \in Scenes \cup {NoScene}
      BY <2>2 DEF Complete, Pairs
    <3>5. skipped' \subseteq Scenes
      <4>1. runPair # NoPair => runPair[2] \in Scenes
        BY DEF Pairs
      <4>2. skipped' \subseteq skipped \cup (IF runPair # NoPair THEN {runPair[2]} ELSE {})
        <5>1. CASE skipped' = skipped \cup
                      (IF moved /\ runPair # NoPair THEN {runPair[2]} ELSE {})
          BY <5>1
        <5>2. CASE UNCHANGED skipped
          BY <5>2
        <5> QED
          BY <1>5, <5>1, <5>2 DEF SelectScenes
      <4> QED
        BY <4>1, <4>2
    <3> QED
      BY <1>5, <2>2, <3>1, <3>2, <3>3, <3>4, <3>5, Forgotten DEF SelectScenes, Complete
  <2>3. CASE /\ chosen # NoPair /\ runPair' = chosen /\ Advance(Worker)
             /\ pair' = [pair EXCEPT ![Worker] = chosen]
             /\ UNCHANGED <<job, outcome, request, attempt, latestAfter, force, seen, doomed,
                            local, skipped>>
    <3>1. Advance(Worker) => Enter(Worker, "prepare_before")
      BY <1>5 DEF SelectScenes, Advance, Following
    <3>2. Positions' /\ Others(Worker) /\ stage'[Worker] = "prepare_before"
      BY <2>3, <3>1, Entered
    <3>3. /\ pair' \in [Procs -> (Scenes \cup {NoScene}) \X (Scenes \cup {NoScene})]
          /\ pair'[Worker] = chosen /\ \A c \in Callers : pair'[c] = pair[c]
      BY <2>1, <2>3 DEF Pairs
    <3>4. Paired'
      BY <2>1, <2>3, <3>2, <3>3, PairedElsewhere
    <3> QED
      BY <1>5, <2>1, <2>3, <3>2, <3>3, <3>4 DEF SelectScenes
  <2> QED
    BY <1>5, <2>2, <2>3 DEF SelectScenes, chosen
<1>6. ASSUME NEW p \in Procs, Operation(p) PROVE TypeInv'
  BY <1>6, TypesOfOperation
<1>7. ASSUME FinishRun PROVE TypeInv'
  <2>1. /\ Positions' /\ Others(Worker) /\ stage'[Worker] = "none" /\ Reset(Worker)
        /\ step'[Worker] = "read"
    BY <1>7, Entered DEF FinishRun, Complete
  <2>2. Paired'
    BY <2>1, Forgotten, PairedElsewhere
  <2>3. latestAfter' \in Scenes \cup {NoScene}
    BY <1>7 DEF FinishRun, Complete, Pairs
  <2> QED
    BY <1>7, <2>1, <2>2, <2>3, Forgotten DEF FinishRun, Complete
<1>8. ASSUME RetryRun PROVE TypeInv'
  <2>1. /\ Positions' /\ Others(Worker) /\ stage'[Worker] = "waiting" /\ Reset(Worker)
        /\ step'[Worker] = "read"
    BY <1>8, Entered DEF RetryRun
  <2>2. Paired'
    BY <2>1, Forgotten, PairedElsewhere
  <2>3. attempt' \in 0 .. MaxRetries
    BY <1>8, PipelineAssumption DEF RetryRun
  <2> QED
    BY <1>8, <2>1, <2>2, <2>3, Forgotten DEF RetryRun
<1>9. ASSUME EndRun PROVE TypeInv'
  <2>1. /\ Positions' /\ Others(Worker) /\ stage'[Worker] = "none" /\ Reset(Worker)
        /\ step'[Worker] = "read"
    BY <1>9, Entered DEF EndRun
  <2>2. Paired'
    BY <2>1, Forgotten, PairedElsewhere
  <2> QED
    BY <1>9, <2>1, <2>2, Forgotten DEF EndRun
<1>10. ASSUME NEW r \in Requests, EnqueueRun(r) PROVE TypeInv'
  <2>1. Positions' /\ Others(Worker) /\ stage'[Worker] = "waiting"
    BY <1>10, Entered DEF EnqueueRun
  <2>2. Paired'
    BY <1>10, <2>1, PairedElsewhere DEF EnqueueRun
  <2>3. /\ job' = "queued" /\ outcome' = "started" /\ request' = r /\ attempt' = 0
        /\ runPair' = NoPair /\ lateWork' = 0 /\ moved' = FALSE
        /\ UNCHANGED <<today, published, stored, prepared, analyses, rows, summary,
                       latestAfter, pair, force, seen, doomed, found, previous, warned,
                       analysed, summarised, skipped, faults>>
    BY <1>10 DEF EnqueueRun
  <2>4. TypeOK'
    <3>1. TypeOK /\ stage' \in [Procs -> Stages] /\ step' \in [Procs -> Steps]
      BY <2>1
    <3>2. 0 \in 0 .. MaxRetries
      BY PipelineAssumption
    <3> HIDE DEF TypeInv, Paired, Others, Stages, Steps, Positions, ProductStatus
    <3> QED
      BY <2>3, <3>1, <3>2
  <2> QED
    BY <2>2, <2>4
<1>11. ASSUME CancelJob PROVE TypeInv'
  BY <1>11 DEF CancelJob
<1>12. ASSUME NEW c \in Callers, StartCall(c) PROVE TypeInv'
  <2>1. \E s \in {"prepare_after", "analyse", "generate"},
           q \in (Scenes \cup {NoScene}) \X (Scenes \cup {NoScene}) :
            /\ Enter(c, s) /\ pair' = [pair EXCEPT ![c] = q]
            /\ s = "prepare_after" => q[2] \in Scenes
            /\ s # "prepare_after" => q \in Pairs
    BY <1>12 DEF StartCall, Pairs
  <2>2. PICK s \in {"prepare_after", "analyse", "generate"},
             q \in (Scenes \cup {NoScene}) \X (Scenes \cup {NoScene}) :
            /\ Enter(c, s) /\ pair' = [pair EXCEPT ![c] = q]
            /\ s = "prepare_after" => q[2] \in Scenes
            /\ s # "prepare_after" => q \in Pairs
    BY <2>1
  <2>3. Positions' /\ Others(c) /\ stage'[c] = s
    BY <2>2, Entered
  <2>4. /\ pair' \in [Procs -> (Scenes \cup {NoScene}) \X (Scenes \cup {NoScene})]
        /\ pair'[c] = q /\ \A p \in Procs \ {c} : pair'[p] = pair[p]
    BY <2>2
  <2>5. UNCHANGED <<runPair, attempt>>
    BY <1>12 DEF StartCall
  <2>6. Paired'
    BY <2>2, <2>3, <2>4, <2>5
  <2>7. force' \in [Procs -> BOOLEAN]
    BY <1>12, FlagSet DEF StartCall
  <2> QED
    BY <1>12, <2>3, <2>4, <2>6, <2>7 DEF StartCall
<1>13. ASSUME NEW s \in Scenes, Publish(s) PROVE TypeInv'
  BY <1>13 DEF Publish
<1>14. ASSUME NextDay PROVE TypeInv'
  BY <1>14, PipelineAssumption DEF NextDay
<1>15. ASSUME NEW p \in Procs, Crash(p) PROVE TypeInv'
  <2>1. /\ Positions' /\ Others(p) /\ stage'[p] \in {"none", "waiting"} /\ Reset(p)
        /\ p # Worker => stage'[p] = "none"
        /\ step'[p] = "read"
    BY <1>15, Entered DEF Crash
  <2>2. UNCHANGED <<runPair, attempt>>
    BY <1>15 DEF Crash
  <2>3. Paired'
    <3>1. CASE p = Worker
      BY <2>1, <2>2, <3>1, Forgotten, PairedElsewhere
    <3>2. CASE p # Worker
      <4>1. \A q \in Procs \ {p} : /\ stage'[q] = stage[q] /\ step'[q] = step[q]
                                   /\ pair'[q] = pair[q]
        BY <2>1, Forgotten
      <4>2. stage'[p] = "none"
        BY <2>1, <3>2
      <4> QED
        BY <2>2, <3>2, <4>1, <4>2
    <3> QED
      BY <3>1, <3>2
  <2>4. faults' \in 0 .. MaxFaults
    BY <1>15, PipelineAssumption DEF Crash, Fault
  <2> QED
    BY <1>15, <2>1, <2>3, <2>4, Forgotten DEF Crash
<1>16. ASSUME FilesLost PROVE TypeInv'
  BY SMTT(20), <1>16, PipelineAssumption DEF FilesLost, Fault
<1>17. CASE UNCHANGED vars
  BY <1>17 DEF vars
<1> HIDE DEF world, products, runRow, procs, local, history, searches, TypeInv, TypeOK, Paired,
      ChosenStages, OperationStages, PrepareStages, EnrichStages, GatedStages, Stages,
      Steps, ProductStatus, Final, Positions, Others
<1> QED
  BY WorkerOrCaller, <1>1, <1>2, <1>3, <1>4, <1>5, <1>6, <1>7, <1>8, <1>9, <1>10, <1>11,
     <1>12, <1>13, <1>14, <1>15, <1>16, <1>17
  DEF Next, Environment, WorkerStep

-----------------------------------------------------------------------------
(* The workflow between its operations.                                     *)
Control == \/ StartRun \/ Gate \/ Enrich \/ SearchScenes \/ SelectScenes
           \/ FinishRun \/ RetryRun \/ EndRun

(* Between its operations the worker touches no product but the scene rows. *)
LEMMA ControlMoves ==
  ASSUME TypeInv, Control
  PROVE  /\ Others(Worker) /\ step'[Worker] \in {"gate", "read"}
         /\ \A q \in Procs \ {Worker} : /\ pair'[q] = pair[q] /\ seen'[q] = seen[q]
                                        /\ doomed'[q] = doomed[q]
         /\ UNCHANGED <<published, prepared, analyses, rows, summary, analysed, summarised,
                        request, faults>>
<1> USE DEF Others, Enter, Goto, Raise, RaiseTransient, Reset, Complete, Advance, world, products, runRow,
        procs,
          local, history, searches, PrepareStages, EnrichStages, At
<1>0. /\ Positions /\ pair \in [Procs -> (Scenes \cup {NoScene}) \X (Scenes \cup {NoScene})]
      /\ seen \in [Procs -> BOOLEAN] /\ doomed \in [Procs -> SUBSET Procs]
  BY DEF TypeInv, TypeOK, Positions
<1>1. CASE StartRun
  BY <1>0, <1>1, WorkerOrCaller DEF Positions, StartRun
<1>2. CASE Gate
  BY <1>0, <1>2, WorkerOrCaller DEF Positions, Gate, Goto
<1>3. CASE Enrich
  BY <1>0, <1>3, WorkerOrCaller DEF Positions, Enrich
<1>4. CASE SearchScenes
  BY <1>0, <1>4, WorkerOrCaller DEF Positions, SearchScenes, Goto, RaiseTransient
<1>5. CASE SelectScenes
  BY <1>0, <1>5, WorkerOrCaller DEF Positions, SelectScenes
<1>6. CASE FinishRun
  BY <1>0, <1>6, WorkerOrCaller DEF Positions, FinishRun
<1>7. CASE RetryRun
  BY <1>0, <1>7, WorkerOrCaller DEF Positions, RetryRun
<1>8. CASE EndRun
  BY <1>0, <1>8, WorkerOrCaller DEF Positions, EndRun
<1> QED
  BY <1>1, <1>2, <1>3, <1>4, <1>5, <1>6, <1>7, <1>8 DEF Control

-----------------------------------------------------------------------------
(* Results.  What is READY has been computed, what is completed has been    *)
(* summarised, and the worker is past a stage only when that is so of its   *)
(* pair.                                                                    *)
Delivered ==
    /\ \A q \in Pairs : analyses[q] \in {"ready", "damaged"} => q \in analysed
    /\ \A q \in Pairs : summary[q] => q \in summarised
    /\ stage[Worker] = "generate" /\ step[Worker] \in {"compute", "store", "summarise"}
       => runPair \in analysed
    /\ stage[Worker] \in EnrichStages \cup {"finish"} => runPair \in analysed \cap summarised
    /\ outcome \in {"succeeded", "partial"}
       => stage[Worker] = "none" /\ runPair \in analysed \cap summarised

(* What was analysed and summarised once stays so.                          *)
LEMMA DeliveredByOthers ==
  ASSUME Delivered, analysed \subseteq analysed', summarised \subseteq summarised',
         \A q \in Pairs : analyses'[q] \in {"ready", "damaged"}
             => analyses[q] \in {"ready", "damaged"} \/ q \in analysed',
         \A q \in Pairs : summary'[q] => summary[q] \/ q \in summarised',
         stage'[Worker] = stage[Worker], step'[Worker] = step[Worker],
         UNCHANGED <<runPair, outcome>>
  PROVE  Delivered'
  BY DEF Delivered

(* An operation of the worker that succeeds leaves the product the next     *)
(* stage reads; operations of others take nothing away.                     *)
LEMMA DeliveredOfOperation ==
  ASSUME TypeInv, Delivered, NEW p \in Procs, Operation(p)
  PROVE  Delivered'
<1>1. Moved(p) /\ Positions
  BY OperationMoves DEF TypeInv, TypeOK, Positions
<1>2. /\ UNCHANGED <<runPair, outcome, job>>
      /\ p # Worker => UNCHANGED <<stage[Worker], step[Worker]>>
      /\ stage[p] \in OperationStages
  BY <1>1, WorkerOrCaller DEF Moved, Others, runRow
<1>3. /\ analyses \in [Pairs -> ProductStatus] /\ summary \in [Pairs -> BOOLEAN]
      /\ p = Worker => pair[p] = runPair /\ runPair \in Pairs
      /\ stage[p] \in {"analyse", "generate"} => pair[p] \in Pairs
  BY <1>2 DEF TypeInv, TypeOK, Paired, ChosenStages
<1>4. /\ analysed \subseteq analysed' /\ summarised \subseteq summarised'
      /\ \A q \in Pairs : analyses'[q] \in {"ready", "damaged"}
             => analyses[q] \in {"ready", "damaged"} \/ q \in analysed'
  BY <1>3 DEF Operation, ReadPrepared, BeginPreparing, FinishPreparing, ReadAnalysis,
       BeginAnalysis, FinishAnalysis, ReadEvents, DeleteEvents, StoreEvents, Summarise, products,
       history, searches, At
<1>5. \A q \in Pairs : summary'[q] => summary[q] \/ q \in summarised'
  <2>1. CASE BeginAnalysis(p)
    BY <1>3, <2>1 DEF BeginAnalysis
  <2>2. CASE FinishAnalysis(p)
    BY <1>3, <2>2 DEF FinishAnalysis
  <2>3. CASE Summarise(p)
    BY <1>3, <2>3 DEF Summarise
  <2>4. CASE UNCHANGED summary
    BY <2>4
  <2> QED
    BY <2>1, <2>2, <2>3, <2>4 DEF Operation, ReadPrepared, BeginPreparing,
         FinishPreparing, ReadAnalysis, ReadEvents, DeleteEvents, StoreEvents, products
<1>6. CASE p # Worker
  BY <1>2, <1>4, <1>5, <1>6, DeliveredByOthers
<1>7. CASE p = Worker
  <2>1. outcome' \notin {"succeeded", "partial"}
    BY <1>2, <1>7 DEF Delivered, OperationStages, PrepareStages
  <2>2. stage'[p] = "generate" /\ step'[p] \in {"compute", "store", "summarise"}
        => runPair \in analysed'
    <3> USE <1>1, <1>2, <1>3, <1>4, <1>7 DEF Delivered, At
    <3>1. CASE Advance(p)
      BY <3>1 DEF Advance, Enter, Positions
    <3>2. CASE Raise(p)
      BY <3>2, Raised
    <3>3. CASE RaiseTransient(p)
      BY <3>3, RaisedTransient
    <3>4. CASE ReadPrepared(p) \/ BeginPreparing(p)
      BY <3>1, <3>2, <3>4, Went DEF ReadPrepared, BeginPreparing, PrepareStages, Steps
    <3>5. CASE ReadAnalysis(p) \/ BeginAnalysis(p)
      BY <3>1, <3>2, <3>5, Went DEF ReadAnalysis, BeginAnalysis, Steps
    <3>6. CASE ReadEvents(p)
      BY <3>1, <3>2, <3>6 DEF ReadEvents
    <3>7. CASE DeleteEvents(p) \/ StoreEvents(p)
      BY <3>2, <3>7 DEF DeleteEvents, StoreEvents
    <3> QED
      BY <3>1, <3>2, <3>3, <3>4, <3>5, <3>6, <3>7 DEF Operation, FinishPreparing,
           FinishAnalysis, Summarise
  <2>3. stage'[p] \in EnrichStages \cup {"finish"} => runPair \in analysed' \cap summarised'
    <3> USE <1>1, <1>2, <1>3, <1>4, <1>7 DEF Delivered, At
    <3>1. CASE Goto(p, "begin") \/ Goto(p, "compute") \/ Goto(p, "store") \/ Goto(p, "summarise")
      BY <3>1 DEF Goto, OperationStages, PrepareStages, EnrichStages
    <3>2. CASE Raise(p)
      BY <3>2, Raised DEF EnrichStages
    <3>3. CASE RaiseTransient(p)
      BY <3>3, RaisedTransient DEF EnrichStages
    <3>4. CASE Advance(p) /\ stage[p] # "generate"
      BY <3>4, Advanced DEF Following, OperationStages, PrepareStages, EnrichStages
    <3>5. CASE ReadEvents(p) /\ Advance(p)
      <4>1. CASE analyses[pair[p]] = "ready" /\ Reusable(pair[p])
        BY <4>1 DEF Reusable
      <4>2. CASE Raise(p) \/ Goto(p, "compute")
        BY <3>1, <3>2, <4>2
      <4> QED
        BY <3>5, <4>1, <4>2 DEF ReadEvents
    <3>6. CASE Summarise(p) /\ Advance(p)
      <4>1. CASE summarised' = summarised \cup {pair[p]}
        BY <3>6, <4>1 DEF Summarise
      <4>2. CASE Raise(p)
        BY <3>2, <4>2
      <4> QED
        BY <3>6, <4>1, <4>2 DEF Summarise
    <3> QED
      BY <3>1, <3>2, <3>3, <3>4, <3>5, <3>6 DEF Operation, ReadPrepared, BeginPreparing,
           FinishPreparing, ReadAnalysis, BeginAnalysis, FinishAnalysis, ReadEvents,
           DeleteEvents, StoreEvents, Summarise, PrepareStages
  <2> QED
    BY <1>2, <1>4, <1>5, <1>7, <2>1, <2>2, <2>3 DEF Delivered
<1> QED
  BY <1>6, <1>7

LEMMA DeliveredKept ==
    TypeInv /\ Delivered /\ [Next]_vars
    => Delivered'
<1> SUFFICES ASSUME TypeInv, Delivered, [Next]_vars
             PROVE  Delivered'
  OBVIOUS
<1>0. /\ Positions /\ analyses \in [Pairs -> ProductStatus]
      /\ stage[Worker] \in ChosenStages => runPair \in Pairs
      /\ step[Worker] = "gate" => stage[Worker] # "none"
  BY DEF TypeInv, TypeOK, Paired, Positions
<1> USE DEF Positions
<1> USE WorkerOrCaller, <1>0 DEF world, products, runRow, procs, local, history, searches, Delivered,
      PrepareStages, EnrichStages
<1>1. ASSUME StartRun PROVE Delivered'
  <2>1. stage'[Worker] \in {"none", "refresh", "search"}
        /\ outcome' \notin {"succeeded", "partial"}
    BY <1>1 DEF StartRun, Enter
  <2> QED
    BY <1>1, <2>1, ControlMoves DEF Control
<1>2. ASSUME Gate PROVE Delivered'
  <2>1. stage'[Worker] = stage[Worker] \/ stage'[Worker] = "cancelling"
    BY <1>2 DEF Gate, Enter, Goto
  <2>2. step'[Worker] = "read" /\ stage[Worker] # "none" /\ UNCHANGED <<outcome, runPair>>
    BY <1>2 DEF Gate, Enter, Goto, GatedStages
  <2> QED
    BY <1>2, <2>1, <2>2, ControlMoves DEF Control
<1>3. ASSUME Enrich PROVE Delivered'
  <2>1. \/ stage'[Worker] = IF stage[Worker] = "refresh" THEN "search"
                             ELSE IF stage[Worker] = "semantics" THEN "impacts"
                             ELSE IF stage[Worker] = "impacts" THEN "exposures" ELSE "finish"
        \/ stage'[Worker] = "failing"
    BY <1>3 DEF Enrich, Advance, Raise, Enter, Following
  <2>2. UNCHANGED <<outcome, runPair>> /\ stage[Worker] \in EnrichStages \cup {"refresh"}
    BY <1>3 DEF Enrich
  <2> QED
    BY <1>3, <2>1, <2>2, ControlMoves DEF Control
<1>4. ASSUME SearchScenes PROVE Delivered'
  <2>1. stage'[Worker] \in {"select", "retry", "failing"}
        /\ outcome' \notin {"succeeded", "partial"}
    BY <1>4 DEF SearchScenes, Enter, At, Advance, Following, RaiseTransient, Raise
  <2> QED
    BY <1>4, <2>1, ControlMoves DEF Control
<1>5. ASSUME SelectScenes PROVE Delivered'
  <2>1. stage'[Worker] \in {"none", "prepare_before"}
        /\ outcome' \notin {"succeeded", "partial"}
    BY <1>5 DEF SelectScenes, Enter, Complete, Advance, Following
  <2> QED
    BY <1>5, <2>1, ControlMoves DEF Control
<1>6. ASSUME NEW p \in Procs, Operation(p) PROVE Delivered'
  BY <1>6, DeliveredOfOperation
<1>7. ASSUME FinishRun PROVE Delivered'
  <2>1. stage'[Worker] = "none" /\ UNCHANGED runPair
    BY <1>7 DEF FinishRun, Complete, Enter
  <2>2. runPair \in analysed \cap summarised
    BY <1>7 DEF FinishRun
  <2> QED
    BY <1>7, <2>1, <2>2, ControlMoves DEF Control
<1>8. ASSUME RetryRun PROVE Delivered'
  <2>1. stage'[Worker] \in {"waiting"}
        /\ outcome' \notin {"succeeded", "partial"}
    BY <1>8 DEF RetryRun, Enter
  <2> QED
    BY <1>8, <2>1, ControlMoves DEF Control
<1>9. ASSUME EndRun PROVE Delivered'
  <2>1. stage'[Worker] \in {"none"}
        /\ outcome' \notin {"succeeded", "partial"}
    BY <1>9 DEF EndRun, Enter
  <2> QED
    BY <1>9, <2>1, ControlMoves DEF Control
<1>10. ASSUME NEW r \in Requests, EnqueueRun(r) PROVE Delivered'
  BY <1>10 DEF EnqueueRun, Enter
<1>11. ASSUME CancelJob PROVE Delivered'
  BY <1>11 DEF CancelJob
<1>12. ASSUME NEW c \in Callers, StartCall(c) PROVE Delivered'
  <2>1. UNCHANGED <<stage[Worker], step[Worker], analyses, summary, analysed, summarised, runPair,
                    outcome>>
    BY <1>12 DEF StartCall, Enter
  <2> QED
    BY <2>1
<1>13. ASSUME NEW s \in Scenes, Publish(s) PROVE Delivered'
  BY <1>13 DEF Publish
<1>14. ASSUME NextDay PROVE Delivered'
  BY <1>14 DEF NextDay
<1>15. ASSUME NEW p \in Procs, Crash(p) PROVE Delivered'
  <2>1. UNCHANGED <<analyses, summary, analysed, summarised, runPair,
                    outcome>>
    BY <1>15 DEF Crash
  <2>2. CASE p = Worker
    <3>1. stage'[Worker] = "waiting" /\ stage[Worker] # "none"
      BY <1>15, <2>2 DEF Crash, Enter
    <3> QED
      BY <2>1, <3>1
  <2>3. CASE p # Worker
    <3>1. UNCHANGED <<stage[Worker], step[Worker]>>
      BY <1>15, <2>3 DEF Crash, Enter
    <3> QED
      BY <2>1, <3>1
  <2> QED
    BY <2>2, <2>3
<1>16. ASSUME FilesLost PROVE Delivered'
  BY <1>16 DEF FilesLost, Fault
<1>17. CASE UNCHANGED vars
  BY <1>17 DEF vars
<1> HIDE DEF world, products, runRow, procs, local, history, searches, Delivered, PrepareStages,
      EnrichStages
<1> QED
  BY WorkerOrCaller, <1>1, <1>2, <1>3, <1>4, <1>5, <1>6, <1>7, <1>8, <1>9, <1>10, <1>11,
     <1>12, <1>13, <1>14, <1>15, <1>16, <1>17
  DEF Next, Environment, WorkerStep

-----------------------------------------------------------------------------
(* Repair.  With force the worker has made each scene it is past itself.    *)
Whole(s) == prepared[s] \notin {"none", "processing", "failed"}

WorkflowStages == {"refresh", "search", "select"} \cup ChosenStages

Repaired ==
    /\ stage[Worker] \in WorkflowStages => force[Worker] = request.force
    /\ request.force => /\ stage[Worker] = "prepare_after" => Whole(pair[Worker][1])
                        /\ stage[Worker] = "analyse" => /\ Whole(pair[Worker][1])
                                                        /\ Whole(pair[Worker][2])

LEMMA PairsOfTwo ==
  ASSUME NEW p \in Pairs
  PROVE  p[1] \in Scenes /\ p[2] \in Scenes /\ p[1] # p[2]
<1>1. p[1] \in Scenes /\ p[2] \in Scenes /\ Acquired[p[1]] < Acquired[p[2]]
  BY DEF Pairs
<1>2. Acquired[p[1]] \in Nat
  BY <1>1, SceneAssumption
<1> QED
  BY <1>1, <1>2

(* Without callers only the worker's own operations touch a product, and a  *)
(* forced preparation goes on only from a READY scene with files.           *)
LEMMA RepairedByOperation ==
  ASSUME TypeInv, Repaired, Operation(Worker)
  PROVE  Repaired'
<1>1. Moved(Worker) /\ Positions
  BY OperationMoves, WorkerOrCaller DEF TypeInv, TypeOK, Positions
<1>2. UNCHANGED <<pair, force, request>> /\ stage[Worker] \in OperationStages
  BY <1>1 DEF Moved, runRow
<1>3. /\ pair[Worker] \in Pairs /\ pair[Worker][1] # pair[Worker][2]
      /\ pair[Worker][1] \in Scenes /\ pair[Worker][2] \in Scenes
      /\ prepared \in [Scenes -> ProductStatus]
  <2>1. pair[Worker] \in Pairs /\ prepared \in [Scenes -> ProductStatus]
    BY <1>2 DEF TypeInv, TypeOK, Paired, ChosenStages
  <2> QED
    BY <2>1, PairsOfTwo
<1>4. force[Worker] = request.force
  BY <1>2 DEF Repaired, WorkflowStages, ChosenStages
<1>5. request.force =>
         /\ stage'[Worker] = "prepare_after" =>
                prepared'[pair[Worker][1]] \notin {"none", "processing", "failed"}
         /\ stage'[Worker] = "analyse" =>
               \A i \in {1, 2} : prepared'[pair[Worker][i]] \notin {"none", "processing", "failed"}
  <2> SUFFICES ASSUME request.force
               PROVE  /\ stage'[Worker] = "prepare_after" =>
                            prepared'[pair[Worker][1]] \notin {"none", "processing", "failed"}
                      /\ stage'[Worker] = "analyse" =>
                            \A i \in {1, 2} : prepared'[pair[Worker][i]] \notin
                                                  {"none", "processing", "failed"}
    OBVIOUS
  <2> USE <1>1, <1>3, WorkerOrCaller DEF Repaired, Whole, At
  <2>1. CASE ReadPrepared(Worker)
    BY <1>4, <2>1, Went DEF ReadPrepared, products, Steps
  <2>2. CASE BeginPreparing(Worker)
    BY <2>2, Went, Raised DEF BeginPreparing, SceneOf, Steps, PrepareStages
  <2>3. CASE FinishPreparing(Worker)
    <3>1. CASE Raise(Worker) \/ RaiseTransient(Worker)
      BY <3>1, Raised, RaisedTransient
    <3>2. CASE Advance(Worker) /\ prepared' = [prepared EXCEPT ![SceneOf(Worker)] = "ready"]
      BY <1>2, <2>3, <3>2, Advanced DEF FinishPreparing, SceneOf, Following, PrepareStages
    <3> QED
      BY <2>3, <3>1, <3>2 DEF FinishPreparing
  <2>4. CASE UNCHANGED prepared /\ stage[Worker] \in {"analyse", "generate"}
    <3>1. stage'[Worker] \in {"analyse", "prepare_after"} => stage'[Worker] = stage[Worker]
      <4>1. CASE Advance(Worker)
        BY <1>2, <2>4, <4>1, Advanced DEF Following
      <4>2. CASE Raise(Worker)
        BY <4>2, Raised
      <4>3. CASE \/ Goto(Worker, "begin") \/ Goto(Worker, "compute")
                 \/ Goto(Worker, "store") \/ Goto(Worker, "summarise")
        BY <4>3 DEF Goto
      <4> QED
        BY <2>4, <4>1, <4>2, <4>3 DEF Operation, ReadPrepared, BeginPreparing,
             FinishPreparing, PrepareStages, ReadAnalysis, BeginAnalysis, FinishAnalysis,
             ReadEvents, DeleteEvents, StoreEvents, Summarise
    <3> QED
      BY <2>4, <3>1
  <2> QED
    BY <2>1, <2>2, <2>3, <2>4 DEF Operation, ReadAnalysis, BeginAnalysis, FinishAnalysis,
         ReadEvents, DeleteEvents, StoreEvents, Summarise, products
<1> QED
  BY <1>2, <1>4, <1>5 DEF Repaired, Whole

LEMMA RepairedKept ==
    Callers = {} /\ TypeInv /\ Repaired /\ [Next]_vars
    => Repaired'
<1> SUFFICES ASSUME Callers = {}, TypeInv, Repaired, [Next]_vars
             PROVE  Repaired'
  OBVIOUS
<1>0. /\ Positions /\ Callers = {} /\ Procs = {Worker}
      /\ prepared \in [Scenes -> ProductStatus] /\ force \in [Procs -> BOOLEAN]
  BY DEF TypeInv, TypeOK, Positions, Procs
<1> USE <1>0 DEF Positions
<1> USE WorkerOrCaller DEF world, products, runRow, procs, local, history, searches, Repaired, Whole,
      WorkflowStages, ChosenStages, OperationStages, PrepareStages, EnrichStages
<1>1. ASSUME StartRun PROVE Repaired'
  <2>1. \/ stage'[Worker] = "none"
        \/ stage'[Worker] \in {"refresh", "search"} /\ force'[Worker] = request.force
    BY <1>1 DEF StartRun, Enter
  <2> QED
    BY <1>1, <2>1 DEF StartRun
<1>2. ASSUME Gate PROVE Repaired'
  <2>1. stage'[Worker] = stage[Worker] \/ stage'[Worker] = "cancelling"
    BY <1>2 DEF Gate, Enter, Goto
  <2> QED
    BY <1>2, <2>1 DEF Gate
<1>3. ASSUME Enrich PROVE Repaired'
  <2>1. stage'[Worker] \in {"search", "impacts", "exposures", "finish", "failing"}
    BY <1>3 DEF Enrich, Advance, Raise, Enter, Following
  <2> QED
    BY <1>3, <2>1 DEF Enrich
<1>4. ASSUME SearchScenes PROVE Repaired'
  <2>1. stage'[Worker] \in {"select", "retry", "failing"}
    BY <1>4 DEF SearchScenes, At, Advance, Following, RaiseTransient, Raise, Enter
  <2> QED
    BY <1>4, <2>1 DEF SearchScenes, At
<1>5. ASSUME SelectScenes PROVE Repaired'
  <2>1. \/ stage'[Worker] = "none"
        \/ stage'[Worker] = "prepare_before" /\ UNCHANGED force
    BY <1>5 DEF SelectScenes, Complete, Advance, Following, Enter
  <2>2. UNCHANGED request
    BY <1>5 DEF SelectScenes, Complete
  <2> QED
    BY <1>5, <2>1, <2>2 DEF SelectScenes
<1>6. ASSUME NEW p \in Procs, Operation(p) PROVE Repaired'
  BY <1>6, RepairedByOperation, WorkerOrCaller DEF Procs
<1>7. ASSUME FinishRun PROVE Repaired'
  <2>1. stage'[Worker] = "none"
    BY <1>7 DEF FinishRun, Complete, Enter
  <2> QED
    BY <2>1
<1>8. ASSUME RetryRun PROVE Repaired'
  <2>1. stage'[Worker] = "waiting"
    BY <1>8 DEF RetryRun, Complete, Enter
  <2> QED
    BY <2>1
<1>9. ASSUME EndRun PROVE Repaired'
  <2>1. stage'[Worker] = "none"
    BY <1>9 DEF EndRun, Complete, Enter
  <2> QED
    BY <2>1
<1>10. ASSUME NEW r \in Requests, EnqueueRun(r) PROVE Repaired'
  <2>1. stage'[Worker] = "waiting"
    BY <1>10 DEF EnqueueRun, Complete, Enter
  <2> QED
    BY <2>1
<1>11. ASSUME CancelJob PROVE Repaired'
  BY <1>11 DEF CancelJob
<1>12. ASSUME NEW c \in Callers, StartCall(c) PROVE Repaired'
  BY <1>12, <1>0
<1>13. ASSUME NEW s \in Scenes, Publish(s) PROVE Repaired'
  BY <1>13 DEF Publish
<1>14. ASSUME NextDay PROVE Repaired'
  BY <1>14 DEF NextDay
<1>15. ASSUME NEW p \in Procs, Crash(p) PROVE Repaired'
  <2>1. stage'[Worker] = "waiting"
    BY <1>15, <1>0 DEF Crash, Enter
  <2> QED
    BY <2>1
<1>16. ASSUME FilesLost PROVE Repaired'
  <2>1. UNCHANGED <<stage, pair, force, request>>
    BY <1>16 DEF FilesLost
  <2>2. \A s \in Scenes : Whole(s) => prepared'[s] \notin {"none", "processing", "failed"}
    BY <1>16 DEF FilesLost
  <2>3. stage[Worker] \in {"prepare_after", "analyse"}
        => pair[Worker][1] \in Scenes /\ pair[Worker][2] \in Scenes
    BY PairsOfTwo DEF TypeInv, Paired
  <2> QED
    BY <2>1, <2>2, <2>3
<1>17. CASE UNCHANGED vars
  BY <1>17 DEF vars
<1> HIDE DEF world, products, runRow, procs, local, history, searches, Repaired, Whole,
      WorkflowStages, ChosenStages, OperationStages, PrepareStages, EnrichStages
<1> QED
  BY WorkerOrCaller, <1>1, <1>2, <1>3, <1>4, <1>5, <1>6, <1>7, <1>8, <1>9, <1>10, <1>11,
     <1>12, <1>13, <1>14, <1>15, <1>16, <1>17
  DEF Next, Environment, WorkerStep

-----------------------------------------------------------------------------
(* Looking back.  As long as no day ends during a run and the limit cuts    *)
(* nothing off (~ moved), all searches of the run have the same window and  *)
(* return all that is in it.  Then a pair that an earlier execution of the  *)
(* run has chosen is found again, and its after scene is newer than the one *)
(* looked back to.                                                          *)
InWindow == Matches(published, request, SearchWindow(request, latestAfter, today))

LookBack ==
    /\ latestAfter # NoScene =>
           /\ latestAfter \in published
           /\ latestAfter \in skipped \/ \E p \in analysed : p[2] = latestAfter
    /\ (stage[Worker] # "none" /\ runPair # NoPair) =>
           /\ runPair[2] \in published
           /\ ~ moved => /\ runPair[1] \in InWindow /\ runPair[2] \in InWindow
                         /\ latestAfter \in InWindow => Precedes(runPair[2], latestAfter)
    /\ stage[Worker] = "select" =>
           /\ found \subseteq published /\ previous = latestAfter
           /\ ~ moved => /\ found \subseteq InWindow
                         /\ runPair # NoPair => runPair[1] \in found /\ runPair[2] \in found
                         /\ latestAfter \in InWindow => latestAfter \in found

(* Scenes published meanwhile are in the window too, but none of them is    *)
(* the one looked back to.                                                  *)
LEMMA LookBackGrows ==
  ASSUME TypeInv, TypeInv', LookBack, UNCHANGED <<today, request, latestAfter, runPair>>,
         published \subseteq published', analysed \subseteq analysed',
         skipped \subseteq skipped', moved => moved',
         stage'[Worker] # "none" => stage[Worker] # "none" \/ runPair = NoPair,
         stage'[Worker] = "select" => stage[Worker] = "select" /\ UNCHANGED <<found, previous>>
  PROVE  LookBack'
<1>1. InWindow \subseteq InWindow'
  BY DEF InWindow, Matches
<1>2. latestAfter \in InWindow' => latestAfter \in InWindow
  <2>1. published' \subseteq Scenes
    BY DEF TypeInv, TypeOK
  <2> QED
    BY <2>1, SceneAssumption DEF LookBack, InWindow, Matches
<1> HIDE DEF InWindow
<1> QED
  BY <1>1, <1>2 DEF LookBack

(* Unless the searches differ, an execution ends without new imagery only   *)
(* if no earlier one has chosen a pair.                                     *)
LEMMA NothingChosen ==
  ASSUME TypeInv, LookBack, ~ moved, stage[Worker] = "select",
         LET chosen == ChooseScenePair(found, previous)
         IN  chosen = NoPair \/ chosen[2] = previous
  PROVE  runPair = NoPair
<1> DEFINE chosen == ChooseScenePair(found, previous)
<1>1. /\ chosen # NoPair => /\ chosen \in Pairs /\ chosen[2] \in found
                            /\ \A t \in found \ {chosen[2]} : Precedes(chosen[2], t)
      /\ (\E s, t \in found : Acquired[s] < Acquired[t]) => chosen # NoPair
  BY ChosenPair DEF TypeInv, TypeOK
<1> HIDE DEF chosen
<1> SUFFICES ASSUME runPair # NoPair PROVE FALSE
  OBVIOUS
<1>2. runPair \in Pairs /\ runPair[1] \in found /\ runPair[2] \in found
  BY DEF TypeInv, TypeOK, LookBack
<1>3. chosen # NoPair
  BY <1>1, <1>2 DEF Pairs
<1>4. chosen[2] = latestAfter /\ latestAfter \in found
  BY <1>1, <1>3 DEF LookBack, chosen
<1>5. Precedes(runPair[2], latestAfter)
  BY <1>4 DEF LookBack
<1>6. runPair[2] = latestAfter \/ Precedes(latestAfter, runPair[2])
  BY <1>1, <1>2, <1>3, <1>4
<1>7. runPair[2] \in Scenes /\ latestAfter \in Scenes
  BY <1>2, <1>4 DEF TypeInv, TypeOK
<1> QED
  BY <1>5, <1>6, <1>7, PrecedesIsOrder

LEMMA LookBackKept ==
    TypeInv /\ TypeInv' /\ Delivered /\ LookBack /\ [Next]_vars
    => LookBack'
<1> SUFFICES ASSUME TypeInv, TypeInv', Delivered, LookBack, [Next]_vars
             PROVE  LookBack'
  OBVIOUS
<1>0. Positions /\ (step[Worker] = "gate" => stage[Worker] # "none")
  BY DEF TypeInv, TypeOK, Paired, Positions
<1> USE DEF Positions
<1> USE WorkerOrCaller, <1>0 DEF world, products, runRow, procs, local, history, searches
<1>1. ASSUME StartRun PROVE LookBack'
  <2>1. /\ UNCHANGED <<today, request, latestAfter, runPair>>
        /\ published \subseteq published' /\ analysed \subseteq analysed'
        /\ skipped \subseteq skipped' /\ (moved => moved')
    BY <1>1 DEF StartRun
  <2>2. /\ stage'[Worker] # "none" => stage[Worker] # "none" \/ runPair = NoPair
        /\ stage'[Worker] = "select" => stage[Worker] = "select" /\ UNCHANGED <<found, previous>>
    BY <1>1 DEF StartRun, Enter
  <2> QED
    BY <2>1, <2>2, LookBackGrows
<1>2. ASSUME Gate PROVE LookBack'
  <2>1. /\ UNCHANGED <<today, request, latestAfter, runPair>>
        /\ published \subseteq published' /\ analysed \subseteq analysed'
        /\ skipped \subseteq skipped' /\ (moved => moved')
    BY <1>2 DEF Gate
  <2>2. /\ stage'[Worker] # "none" => stage[Worker] # "none" \/ runPair = NoPair
        /\ stage'[Worker] = "select" => stage[Worker] = "select" /\ UNCHANGED <<found, previous>>
    BY <1>2 DEF Gate, Enter, Goto
  <2> QED
    BY <2>1, <2>2, LookBackGrows
<1>3. ASSUME Enrich PROVE LookBack'
  <2>1. /\ stage'[Worker] \in {"search", "impacts", "exposures", "finish", "failing"}
        /\ stage[Worker] # "none"
    BY <1>3 DEF Enrich, Advance, Raise, Enter, Following, EnrichStages
  <2>2. UNCHANGED <<today, published, request, latestAfter, runPair, analysed, moved, skipped>>
    BY <1>3 DEF Enrich
  <2> QED
    BY <2>1, <2>2, LookBackGrows
<1>4. ASSUME SearchScenes PROVE LookBack'
  <2>1. /\ UNCHANGED <<today, published, request, latestAfter, runPair, analysed, skipped>>
        /\ stage[Worker] = "search" /\ previous' = latestAfter
    BY <1>4 DEF SearchScenes, At
  <2>4. moved => moved'
    <3>1. UNCHANGED moved \/ \E some \in BOOLEAN : moved' = (moved \/ some)
      <4> DEFINE some == Cardinality(Matches(published, request,
                             SearchWindow(request, latestAfter, today))) > Limit
      <4>1. some \in BOOLEAN
        OBVIOUS
      <4>2. UNCHANGED moved \/ moved' = (moved \/ some)
        BY <1>4 DEF SearchScenes
      <4> HIDE DEF some
      <4> QED
        BY <4>1, <4>2
    <3>2. moved \in BOOLEAN
      BY DEF TypeInv, TypeOK
    <3> QED
      BY <3>1, <3>2
  <2>2. CASE stage'[Worker] # "select"
    BY <2>1, <2>2, <2>4, LookBackGrows
  <2>3. CASE stage'[Worker] = "select"
    <3>1. ~ RaiseTransient(Worker) /\ ~ Raise(Worker)
      BY <2>3, RaisedTransient, Raised
    <3>2. InWindow \in SUBSET Scenes /\ InWindow \subseteq published
      BY DEF InWindow, Matches, TypeInv, TypeOK
    <3>5. /\ found' \in SearchResults(InWindow, Limit)
          /\ moved' = (moved \/ Cardinality(InWindow) > Limit)
      BY <1>4, <3>1 DEF SearchScenes, InWindow
    <3>3. found' \subseteq InWindow /\ (~ moved' => ~ moved /\ found' = InWindow)
      BY <3>2, <3>5, Returned
    <3>4. InWindow' = InWindow
      BY <2>1 DEF InWindow
    <3> HIDE DEF InWindow
    <3> QED
      BY <2>1, <3>2, <3>3, <3>4 DEF LookBack
  <2> QED
    BY <2>2, <2>3
<1>5. ASSUME SelectScenes PROVE LookBack'
  <2> DEFINE chosen == ChooseScenePair(found, previous)
  <2>1. stage[Worker] = "select" /\ UNCHANGED <<today, published, request, analysed, moved>>
    BY <1>5 DEF SelectScenes, Complete
  <2>2. CASE /\ chosen = NoPair \/ chosen[2] = previous
             /\ Complete("no_new_imagery") /\ UNCHANGED runPair
             /\ skipped' = skipped \cup
                              (IF moved /\ runPair # NoPair THEN {runPair[2]} ELSE {})
    <3>1. runPair # NoPair => moved
      BY <2>1, <2>2, NothingChosen
    <3>2. /\ stage'[Worker] = "none"
          /\ latestAfter' = IF runPair = NoPair THEN latestAfter ELSE runPair[2]
      BY <2>2 DEF Complete, Enter
    <3>3. CASE runPair = NoPair
      BY <2>1, <2>2, <3>2, <3>3 DEF LookBack
    <3>4. CASE runPair # NoPair
      <4>1. latestAfter' = runPair[2] /\ runPair[2] \in skipped'
        BY <2>2, <3>1, <3>2, <3>4
      <4>2. runPair[2] \in published
        BY <2>1, <3>4 DEF LookBack
      <4> QED
        BY <2>1, <3>2, <4>1, <4>2 DEF LookBack
    <3> QED
      BY <3>3, <3>4
  <2>3. CASE /\ chosen # NoPair /\ chosen[2] # previous /\ runPair' = chosen
             /\ Advance(Worker) /\ UNCHANGED <<latestAfter, skipped>>
    <3>1. stage'[Worker] = "prepare_before"
      BY <2>1, <2>3 DEF Advance, Enter, Following
    <3>2. /\ chosen[1] \in found /\ chosen[2] \in found
          /\ \A t \in found \ {chosen[2]} : Precedes(chosen[2], t)
      BY <2>3, ChosenPair DEF TypeInv, TypeOK
    <3>3. InWindow' = InWindow
      BY <2>1, <2>3 DEF InWindow
    <3> HIDE DEF InWindow, chosen
    <3> QED
      BY <2>1, <2>3, <3>1, <3>2, <3>3 DEF LookBack
  <2> QED
    BY <1>5, <2>2, <2>3 DEF SelectScenes
<1>6. ASSUME NEW p \in Procs, Operation(p) PROVE LookBack'
  <2>1. Moved(p) /\ Positions
    BY <1>6, OperationMoves DEF TypeInv, TypeOK, Positions
  <2>2. /\ UNCHANGED <<today, published, request, latestAfter, runPair, found, previous>>
        /\ UNCHANGED <<moved, skipped>>
        /\ stage'[Worker] = "select" => stage[Worker] = "select"
        /\ stage'[Worker] # "none" => stage[Worker] # "none"
    BY <2>1 DEF Moved, Others, OperationStages, PrepareStages
  <2>3. analysed \subseteq analysed'
    BY <1>6 DEF Operation, ReadPrepared, BeginPreparing, FinishPreparing, ReadAnalysis,
         BeginAnalysis, FinishAnalysis, ReadEvents, DeleteEvents, StoreEvents, Summarise
  <2> QED
    BY <2>2, <2>3, LookBackGrows
<1>7. ASSUME FinishRun PROVE LookBack'
  <2>1. runPair \in analysed /\ stage'[Worker] = "none" /\ stage[Worker] # "none"
    BY <1>7 DEF FinishRun, Complete, Enter, Delivered
  <2>2. runPair # NoPair /\ latestAfter' = runPair[2]
    <3>1. runPair \in Pairs
      BY <2>1 DEF TypeInv, TypeOK
    <3> QED
      BY <1>7, <3>1, SceneAssumption DEF FinishRun, Complete, Pairs, NoPair
  <2>3. latestAfter' \in published
    BY <2>1, <2>2 DEF LookBack
  <2>4. UNCHANGED <<published, analysed>>
    BY <1>7 DEF FinishRun
  <2> QED
    BY <2>1, <2>2, <2>3, <2>4 DEF LookBack
<1>8. ASSUME RetryRun PROVE LookBack'
  <2>1. /\ UNCHANGED <<today, request, latestAfter, runPair>>
        /\ published \subseteq published' /\ analysed \subseteq analysed'
        /\ skipped \subseteq skipped' /\ (moved => moved')
    BY <1>8 DEF RetryRun
  <2>2. /\ stage'[Worker] # "none" => stage[Worker] # "none" \/ runPair = NoPair
        /\ stage'[Worker] = "select" => stage[Worker] = "select" /\ UNCHANGED <<found, previous>>
    BY <1>8 DEF RetryRun, Enter
  <2> QED
    BY <2>1, <2>2, LookBackGrows
<1>9. ASSUME EndRun PROVE LookBack'
  <2>1. /\ UNCHANGED <<today, request, latestAfter, runPair>>
        /\ published \subseteq published' /\ analysed \subseteq analysed'
        /\ skipped \subseteq skipped' /\ (moved => moved')
    BY <1>9 DEF EndRun
  <2>2. /\ stage'[Worker] # "none" => stage[Worker] # "none" \/ runPair = NoPair
        /\ stage'[Worker] = "select" => stage[Worker] = "select" /\ UNCHANGED <<found, previous>>
    BY <1>9 DEF EndRun, Enter
  <2> QED
    BY <2>1, <2>2, LookBackGrows
<1>10. ASSUME NEW r \in Requests, EnqueueRun(r) PROVE LookBack'
  <2>1. /\ runPair' = NoPair /\ stage'[Worker] = "waiting"
        /\ UNCHANGED <<latestAfter, published, analysed, skipped>>
    BY <1>10 DEF EnqueueRun, Enter
  <2> QED
    BY <2>1 DEF LookBack
<1>11. ASSUME CancelJob PROVE LookBack'
  <2>1. /\ UNCHANGED <<today, request, latestAfter, runPair>>
        /\ published \subseteq published' /\ analysed \subseteq analysed'
        /\ skipped \subseteq skipped' /\ (moved => moved')
    BY <1>11 DEF CancelJob
  <2>2. /\ stage'[Worker] # "none" => stage[Worker] # "none" \/ runPair = NoPair
        /\ stage'[Worker] = "select" => stage[Worker] = "select" /\ UNCHANGED <<found, previous>>
    BY <1>11 DEF CancelJob
  <2> QED
    BY <2>1, <2>2, LookBackGrows
<1>12. ASSUME NEW c \in Callers, StartCall(c) PROVE LookBack'
  <2>1. /\ UNCHANGED <<today, request, latestAfter, runPair>>
        /\ published \subseteq published' /\ analysed \subseteq analysed'
        /\ skipped \subseteq skipped' /\ (moved => moved')
    BY <1>12 DEF StartCall
  <2>2. /\ stage'[Worker] # "none" => stage[Worker] # "none" \/ runPair = NoPair
        /\ stage'[Worker] = "select" => stage[Worker] = "select" /\ UNCHANGED <<found, previous>>
    BY <1>12 DEF StartCall, Enter
  <2> QED
    BY <2>1, <2>2, LookBackGrows
<1>13. ASSUME NEW s \in Scenes, Publish(s) PROVE LookBack'
  <2>1. /\ UNCHANGED <<today, request, latestAfter, runPair>>
        /\ published \subseteq published' /\ analysed \subseteq analysed'
        /\ skipped \subseteq skipped' /\ (moved => moved')
    BY <1>13 DEF Publish
  <2>2. /\ stage'[Worker] # "none" => stage[Worker] # "none" \/ runPair = NoPair
        /\ stage'[Worker] = "select" => stage[Worker] = "select" /\ UNCHANGED <<found, previous>>
    BY <1>13 DEF Publish
  <2> QED
    BY <2>1, <2>2, LookBackGrows
<1>14. ASSUME NextDay PROVE LookBack'
  <2>1. /\ moved' = (moved \/ stage[Worker] # "none")
        /\ UNCHANGED <<stage, found, previous, latestAfter, runPair, published, analysed, skipped>>
    BY <1>14 DEF NextDay
  <2> HIDE DEF InWindow
  <2> QED
    BY <2>1 DEF LookBack
<1>15. ASSUME NEW p \in Procs, Crash(p) PROVE LookBack'
  <2>1. /\ UNCHANGED <<today, request, latestAfter, runPair>>
        /\ published \subseteq published' /\ analysed \subseteq analysed'
        /\ skipped \subseteq skipped' /\ (moved => moved')
    BY <1>15 DEF Crash
  <2>2. /\ stage'[Worker] # "none" => stage[Worker] # "none" \/ runPair = NoPair
        /\ stage'[Worker] = "select" => stage[Worker] = "select" /\ UNCHANGED <<found, previous>>
    BY <1>15 DEF Crash, Enter, Reset
  <2> QED
    BY <2>1, <2>2, LookBackGrows
<1>16. ASSUME FilesLost PROVE LookBack'
  <2>1. /\ UNCHANGED <<today, request, latestAfter, runPair>>
        /\ published \subseteq published' /\ analysed \subseteq analysed'
        /\ skipped \subseteq skipped' /\ (moved => moved')
    BY <1>16 DEF FilesLost
  <2>2. /\ stage'[Worker] # "none" => stage[Worker] # "none" \/ runPair = NoPair
        /\ stage'[Worker] = "select" => stage[Worker] = "select" /\ UNCHANGED <<found, previous>>
    BY <1>16 DEF FilesLost
  <2> QED
    BY <2>1, <2>2, LookBackGrows
<1>17. CASE UNCHANGED vars
  BY <1>17, LookBackGrows DEF vars
<1> HIDE DEF world, products, runRow, procs, local, history, searches
<1> QED
  BY WorkerOrCaller, <1>1, <1>2, <1>3, <1>4, <1>5, <1>6, <1>7, <1>8, <1>9, <1>10, <1>11,
     <1>12, <1>13, <1>14, <1>15, <1>16, <1>17
  DEF Next, Environment, WorkerStep

-----------------------------------------------------------------------------
(* Copies.  A process about to store the events of its pair has none of its *)
(* own in the table, or its DELETE has seen them.                           *)
Single ==
    /\ DuplicatesBounded
    /\ \A p \in Procs :
          /\ At(p, "generate", "compute") => seen[p] \/ rows[pair[p]][p] = 0
          /\ At(p, "generate", "store") => p \in doomed[p] \/ rows[pair[p]][p] = 0

(* Steps that touch no events and start no generation.                      *)
LEMMA SingleElsewhere ==
  ASSUME Single, NEW p \in Procs, Others(p),
         \A q \in Procs \ {p} : pair'[q] = pair[q] /\ seen'[q] = seen[q] /\ doomed'[q] = doomed[q],
         stage'[p] = "generate" => step'[p] \notin {"compute", "store"},
         UNCHANGED rows
  PROVE  Single'
  BY DEF Single, DuplicatesBounded, Others, At

LEMMA SingleOfOperation ==
  ASSUME TypeInv, Single, NEW p \in Procs, Operation(p)
  PROVE  Single'
<1>1. Moved(p) /\ Positions
  BY OperationMoves DEF TypeInv, TypeOK, Positions
<1>2. /\ Others(p) /\ UNCHANGED pair
      /\ stage[p] = "generate" => pair[p] \in Pairs
      /\ rows \in [Pairs -> [Procs -> Nat]] /\ seen \in [Procs -> BOOLEAN]
      /\ doomed \in [Procs -> SUBSET Procs]
  BY <1>1 DEF Moved, TypeInv, TypeOK, Paired
<1> USE DEF At, products, history, searches
<1>3. CASE ReadPrepared(p) \/ BeginPreparing(p) \/ FinishPreparing(p)
           \/ ReadAnalysis(p) \/ BeginAnalysis(p) \/ FinishAnalysis(p) \/ Summarise(p)
  <2>1. UNCHANGED <<rows, doomed>> /\ \A q \in Procs \ {p} : seen'[q] = seen[q]
    BY <1>2, <1>3 DEF ReadPrepared, BeginPreparing, FinishPreparing, ReadAnalysis,
         BeginAnalysis, FinishAnalysis, Summarise
  <2>2. stage'[p] = "generate" => step'[p] \notin {"compute", "store"}
    <3>1. CASE Advance(p) \/ Raise(p) \/ RaiseTransient(p)
      BY <1>1, <3>1 DEF Advance, Raise, RaiseTransient, Enter, Positions
    <3>2. CASE UNCHANGED stage /\ stage[p] # "generate"
      BY <3>2
    <3> QED
      BY <1>3, <3>1, <3>2 DEF ReadPrepared, BeginPreparing, FinishPreparing, ReadAnalysis,
           BeginAnalysis, FinishAnalysis, Summarise, Goto, PrepareStages
  <2> QED
    BY <1>2, <2>1, <2>2, SingleElsewhere
<1>4. CASE ReadEvents(p)
  <2>1. UNCHANGED <<rows, doomed>> /\ \A q \in Procs \ {p} : seen'[q] = seen[q]
    BY <1>2, <1>4 DEF ReadEvents
  <2>2. CASE Advance(p) \/ Raise(p)
    <3>1. stage'[p] = "generate" => step'[p] \notin {"compute", "store"}
      BY <1>1, <2>2 DEF Advance, Raise, Enter, Positions
    <3> QED
      BY <1>2, <2>1, <3>1, SingleElsewhere
  <2>3. CASE Goto(p, "compute") /\ seen' = [seen EXCEPT ![p] = Storers(pair[p]) # {}]
    <3>1. stage'[p] = "generate" /\ step'[p] = "compute" /\ pair[p] \in Pairs
      BY <1>1, <1>2, <1>4, <2>3, Went DEF ReadEvents, Steps
    <3>2. Storers(pair[p]) # {} => seen'[p]
      BY <1>2, <2>3, Zenon
    <3>3. seen'[p] \/ rows[pair[p]][p] = 0
      <4>1. rows[pair[p]][p] \in Nat
        BY <1>2, <3>1
      <4>2. rows[pair[p]][p] > 0 => Storers(pair[p]) # {}
        BY DEF Storers
      <4>3. rows[pair[p]][p] = 0 \/ rows[pair[p]][p] > 0
        BY <4>1
      <4> QED
        BY <3>2, <4>2, <4>3, Zenon
    <3> QED
      BY <1>2, <2>1, <3>1, <3>3 DEF Single, DuplicatesBounded, Others
  <2> QED
    BY <1>4, <2>2, <2>3 DEF ReadEvents
<1>5. CASE DeleteEvents(p)
  <2>1. /\ UNCHANGED <<rows, seen>> /\ \A q \in Procs \ {p} : doomed'[q] = doomed[q]
    BY <1>2, <1>5 DEF DeleteEvents
  <2>2. CASE Raise(p)
    <3>1. stage'[p] # "generate"
      BY <1>1, <2>2, Raised
    <3> QED
      BY <1>2, <2>1, <3>1, SingleElsewhere
  <2>3. CASE /\ doomed' = [doomed EXCEPT ![p] = IF seen[p] THEN Storers(pair[p]) ELSE {}]
             /\ Goto(p, "store")
    <3>1. stage'[p] = "generate" /\ step'[p] = "store" /\ pair[p] \in Pairs
      BY <1>1, <1>2, <1>5, <2>3, Went DEF DeleteEvents, Steps
    <3>2. doomed'[p] = IF seen[p] THEN Storers(pair[p]) ELSE {}
      BY <1>2, <2>3
    <3>3. p \in doomed'[p] \/ rows[pair[p]][p] = 0
      <4>1. seen[p] \/ rows[pair[p]][p] = 0
        BY <1>5 DEF DeleteEvents, Single
      <4> QED
        BY <1>2, <3>1, <3>2, <4>1 DEF Storers
    <3> QED
      BY <1>2, <2>1, <3>1, <3>3 DEF Single, DuplicatesBounded, Others
  <2> QED
    BY <1>5, <2>2, <2>3 DEF DeleteEvents
<1>6. CASE StoreEvents(p)
  <2>0. stage[p] = "generate" /\ step[p] = "store" /\ pair[p] \in Pairs /\ UNCHANGED seen
    BY <1>2, <1>6 DEF StoreEvents
  <2>1. \A q \in Procs \ {p} : /\ doomed'[q] \subseteq doomed[q]
                               /\ doomed[q] \ {p} \subseteq doomed'[q]
    BY <1>2, <1>6 DEF StoreEvents
  <2>2. ~ (stage'[p] = "generate" /\ step'[p] \in {"compute", "store"})
    BY <1>1, <1>6, Raised, Went DEF StoreEvents, Steps
  <2>3. rows' = rows \/ rows' = Stored(p)
    BY <1>6 DEF StoreEvents, Stored
  <2>4. p \in doomed[p] \/ rows[pair[p]][p] = 0
    BY <2>0 DEF Single
  <2>5. \A r \in Pairs : /\ rows'[r][p] <= 1
                         /\ \A q \in Procs \ {p} : /\ rows'[r][q] <= 1
                                                   /\ rows[r][q] = 0 => rows'[r][q] = 0
    <3>1. \A r \in Pairs, q \in Procs : rows[r][q] \in Nat /\ rows[r][q] <= 1
      BY <1>2 DEF Single, DuplicatesBounded
    <3>2. CASE rows' = rows
      BY <3>1, <3>2
    <3>3. CASE rows' = Stored(p)
      <4>1. \A r \in Pairs, q \in Procs :
               rows'[r][q] = IF r # pair[p] THEN rows[r][q]
                             ELSE (IF q \in doomed[p] THEN 0 ELSE rows[r][q])
                                  + (IF q = p THEN Count(r) ELSE 0)
        BY <1>2, <2>0, <3>3, StoredRows
      <4>2. \A r \in Pairs : Count(r) \in {0, 1}
        BY DEF Count
      <4> QED
        BY <2>4, <3>1, <4>1, <4>2
    <3> QED
      BY <2>3, <3>2, <3>3
  <2>6. \A q \in Procs \ {p} : stage[q] = "generate" => pair[q] \in Pairs
    BY DEF TypeInv, Paired
  <2>7. DuplicatesBounded'
    <3>1. ASSUME NEW r \in Pairs, NEW q \in Procs PROVE rows'[r][q] <= 1
      <4>1. q = p \/ q \in Procs \ {p}
        OBVIOUS
      <4> QED
        BY <2>5, <4>1, Zenon
    <3> QED
      BY <3>1 DEF DuplicatesBounded
  <2>8. ASSUME NEW q \in Procs \ {p}
        PROVE  /\ At(q, "generate", "compute")' => (seen[q] \/ rows[pair[q]][q] = 0)'
               /\ At(q, "generate", "store")' => (q \in doomed[q] \/ rows[pair[q]][q] = 0)'
    <3>1. stage'[q] = stage[q] /\ step'[q] = step[q] /\ UNCHANGED <<pair, seen>>
      BY <1>2, <2>0 DEF Others
    <3>2. At(q, "generate", "compute") => seen[q] \/ rows[pair[q]][q] = 0
      BY DEF Single
    <3>3. At(q, "generate", "store") => q \in doomed[q] \/ rows[pair[q]][q] = 0
      BY DEF Single
    <3>4. stage[q] = "generate" /\ rows[pair[q]][q] = 0 => rows'[pair[q]][q] = 0
      BY <2>5, <2>6, Zenon
    <3>5. q \in doomed[q] => q \in doomed'[q]
      BY <2>1
    <3> QED
      BY <3>1, <3>2, <3>3, <3>4, <3>5
  <2> QED
    BY <2>2, <2>7, <2>8 DEF Single
<1> QED
  BY <1>3, <1>4, <1>5, <1>6 DEF Operation

LEMMA SingleKept ==
    TypeInv /\ Single /\ [Next]_vars
    => Single'
<1> SUFFICES ASSUME TypeInv, Single, [Next]_vars
             PROVE  Single'
  OBVIOUS
<1>0. Positions /\ pair \in [Procs -> (Scenes \cup {NoScene}) \X (Scenes \cup {NoScene})]
  BY DEF TypeInv, TypeOK, Positions
<1>1. CASE Control
  <2>1. step'[Worker] \notin {"compute", "store"}
    BY <1>1, ControlMoves
  <2> QED
    BY <1>1, <2>1, ControlMoves, SingleElsewhere, WorkerOrCaller
<1>2. ASSUME NEW p \in Procs, Operation(p) PROVE Single'
  BY <1>2, SingleOfOperation
<1> USE <1>0 DEF world, products, runRow, procs, local, history, searches
<1>3. ASSUME NEW r \in Requests, EnqueueRun(r) PROVE Single'
  <2>1. Enter(Worker, "waiting") /\ UNCHANGED <<rows, pair, seen, doomed>>
    BY <1>3 DEF EnqueueRun
  <2>2. Others(Worker) /\ stage'[Worker] = "waiting"
    BY <2>1, Entered, WorkerOrCaller DEF Stages
  <2> QED
    BY <2>1, <2>2, SingleElsewhere, WorkerOrCaller
<1>4. ASSUME NEW c \in Callers, StartCall(c) PROVE Single'
  <2>1. UNCHANGED <<rows, seen, doomed>>
    BY <1>4 DEF StartCall
  <2>2. \E s \in Stages : \E q : Enter(c, s) /\ pair' = [pair EXCEPT ![c] = q]
    BY <1>4 DEF StartCall, Stages, PrepareStages, GatedStages
  <2>3. Others(c) /\ step'[c] \in {"gate", "read"} /\ \A q \in Procs \ {c} : pair'[q] = pair[q]
    BY <2>2, Entered, WorkerOrCaller
  <2>4. step'[c] \notin {"compute", "store"}
    BY <2>3
  <2> QED
    BY <2>1, <2>3, <2>4, SingleElsewhere, WorkerOrCaller
<1>5. ASSUME NEW p \in Procs, Crash(p) PROVE Single'
  <2>1. /\ Reset(p) /\ UNCHANGED rows
        /\ Enter(p, IF p = Worker THEN "waiting" ELSE "none")
    BY <1>5 DEF Crash
  <2>2. Others(p) /\ stage'[p] \in {"waiting", "none"}
    BY <2>1, Entered DEF Stages
  <2> QED
    BY <2>1, <2>2, Forgotten, SingleElsewhere DEF TypeInv
<1>6. CASE UNCHANGED <<stage, step, pair, seen, doomed, rows>>
  BY <1>6 DEF Single, DuplicatesBounded, At
<1> QED
  BY WorkerOrCaller, <1>1, <1>2, <1>3, <1>4, <1>5, <1>6
  DEF Next, Environment, WorkerStep, Control, CancelJob, Publish, NextDay, FilesLost, vars

-----------------------------------------------------------------------------
(* What every state satisfies.                                              *)
LEMMA Initially == Init => TypeInv /\ Delivered /\ Repaired /\ LookBack /\ Single
<1> SUFFICES ASSUME Init
             PROVE  TypeInv /\ Delivered /\ Repaired /\ LookBack /\ Single
  OBVIOUS
<1> USE WorkerOrCaller, PipelineAssumption DEF Init, PrepareStages, EnrichStages,
        ChosenStages,
      OperationStages, WorkflowStages
<1>1. TypeOK
  <2>1. /\ today \in 0 .. LastDay /\ attempt \in 0 .. MaxRetries /\ faults \in 0 .. MaxFaults
        /\ lateWork \in Nat /\ rows \in [Pairs -> [Procs -> Nat]]
    OBVIOUS
  <2>2. /\ prepared \in [Scenes -> ProductStatus] /\ analyses \in [Pairs -> ProductStatus]
        /\ stage \in [Procs -> Stages] /\ step \in [Procs -> Steps]
    BY DEF Stages, Steps, ProductStatus
  <2>3. /\ runPair \in Pairs \cup {NoPair}
        /\ pair \in [Procs -> (Scenes \cup {NoScene}) \X (Scenes \cup {NoScene})]
    BY DEF NoPair
  <2>4. /\ summary \in [Pairs -> BOOLEAN] /\ force \in [Procs -> BOOLEAN]
        /\ seen \in [Procs -> BOOLEAN] /\ warned \in BOOLEAN /\ moved \in BOOLEAN
        /\ doomed \in [Procs -> SUBSET Procs]
    OBVIOUS
  <2> QED
    BY <2>1, <2>2, <2>3, <2>4 DEF TypeOK
<1>2. Paired
  BY DEF Paired
<1>3. Delivered /\ Repaired /\ LookBack
  BY DEF Delivered, Repaired, LookBack
<1>4. Single
  BY DEF Single, DuplicatesBounded, At
<1> QED
  BY <1>1, <1>2, <1>3, <1>4 DEF TypeInv

LEMMA TypesInvariant == SafetySpec => []TypeInv
  BY Initially, TypesKept, PTL DEF SafetySpec

LEMMA DeliveredInvariant == SafetySpec => []Delivered
  BY Initially, DeliveredKept, TypesInvariant, PTL DEF SafetySpec

(* The model keeps its types; attempts never exceed the retries, and what   *)
(* is compared, analysed and vectorised are pairs in the order of time.     *)
THEOREM TypeCorrect == SafetySpec => []TypeOK
<1>1. TypeInv => TypeOK
  BY DEF TypeInv
<1> QED
  BY <1>1, TypesInvariant, PTL

(* A run that ended succeeded or partial has its pair analysed and the      *)
(* events of it stored and summarised, after any crashes, retries, reuse of *)
(* products and API calls on the same products.                             *)
THEOREM CompletedRunDeliversAlways == SafetySpec => []CompletedRunDelivers
<1>1. Delivered => CompletedRunDelivers
  BY DEF Delivered, CompletedRunDelivers
<1> QED
  BY <1>1, DeliveredInvariant, PTL

(* With force a run meets no scene that earlier errors, crashes or lost     *)
(* files have left unprepared, as long as no API call works on the scenes   *)
(* of the run: a forced preparation skips no row and repairs what it finds. *)
THEOREM ForcedRunFindsProductsAlone ==
  Callers = {} => (SafetySpec => []ForcedRunFindsProducts)
<1> SUFFICES ASSUME Callers = {} PROVE SafetySpec => []ForcedRunFindsProducts
  OBVIOUS
<1>1. TypeInv /\ Repaired /\ [Next]_vars => Repaired'
  BY RepairedKept
<1>2. Repaired => ForcedRunFindsProducts
  BY DEF Repaired, Whole, ForcedRunFindsProducts
<1> QED
  BY <1>1, <1>2, Initially, TypesInvariant, PTL DEF SafetySpec

(* The scene a run looks back to has been analysed as an after scene, or it *)
(* is the one of a run that chose it, was executed again on another day or  *)
(* with a search cut short, and then ended as no_new_imagery.  On no other  *)
(* way through crashes, retries, failed runs and cancellations is the point *)
(* of the next run moved to a scene that has not been analysed.             *)
THEOREM PreviousAfterAnalysedAlways == SafetySpec => []PreviousAfterAnalysed
<1>1. TypeInv /\ TypeInv' /\ Delivered /\ LookBack /\ [Next]_vars => LookBack'
  BY LookBackKept
<1>2. LookBack => PreviousAfterAnalysed
  BY DEF LookBack, PreviousAfterAnalysed
<1> QED
  BY <1>1, <1>2, Initially, TypesInvariant, DeliveredInvariant, PTL DEF SafetySpec

(* Nobody ever has the events of a pair stored twice, however many requests *)
(* and executions vectorise it at the same time and die on the way: the     *)
(* duplicates are at most one copy for each of them.                        *)
THEOREM DuplicatesBoundedAlways == SafetySpec => []DuplicatesBounded
<1>1. Single => DuplicatesBounded
  BY DEF Single
<1> QED
  BY <1>1, Initially, SingleKept, TypesInvariant, PTL DEF SafetySpec

-----------------------------------------------------------------------------
(* Cancellation.                                                            *)
(* Stages the worker may still start before it next looks at the job.       *)
StillToStart ==
    CASE step[Worker] = "gate" -> 0
      [] step[Worker] \in {"read", "begin"} /\ stage[Worker] = "prepare_before" -> 2
      [] step[Worker] = "compute" /\ stage[Worker] \in {"prepare_before", "generate"} -> 1
      [] step[Worker] \in {"read", "begin"} /\ stage[Worker] \in
             {"prepare_after", "analyse", "generate", "refresh", "search"} \cup EnrichStages -> 1
      [] OTHER -> 0

(* What a cancelled run has started and may still start; before the         *)
(* cancellation nothing counts.                                             *)
LateBound ==
    /\ stage \in [Procs -> Stages] /\ step \in [Procs -> Steps]
    /\ lateWork \in Nat /\ lateWork <= 2
    /\ job \in {"queued", "running"} => lateWork = 0
    /\ job = "cancelled" => lateWork + StillToStart <= 2
    /\ stage[Worker] # "none" => job \in {"queued", "running", "cancelled"}

(* Steps that are not the worker's leave what it still may start alone.     *)
LEMMA LateBoundStays ==
  ASSUME LateBound, stage' \in [Procs -> Stages], step' \in [Procs -> Steps],
         stage'[Worker] = stage[Worker], step'[Worker] = step[Worker],
         UNCHANGED <<job, lateWork>>
  PROVE  LateBound'
  BY DEF LateBound, StillToStart

(* From the commit of a cancel request on the worker starts at most one     *)
(* more stage of the run, which is two preparations at the most, over all   *)
(* its executions (_ensure_not_cancelled between the stages).               *)
THEOREM CancelBoundsWorkAlways == SafetySpec => []CancelBoundsWork
<1>1. Init => LateBound
  BY WorkerOrCaller DEF Init, LateBound, StillToStart, PrepareStages, GatedStages,
       EnrichStages, Stages, Steps, Final
<1>2. LateBound /\ [Next]_vars => LateBound'
  <2> SUFFICES ASSUME LateBound, [Next]_vars PROVE LateBound'
    OBVIOUS
  <2> USE DEF world, products, runRow, procs, local, history, searches
  <2>0. /\ Worker \in Procs /\ (\A c \in Callers : c \in Procs /\ c # Worker)
        /\ stage \in [Procs -> Stages] /\ step \in [Procs -> Steps] /\ lateWork \in Nat
    BY WorkerOrCaller DEF LateBound
  <2>1. ASSUME StartRun PROVE LateBound'
    BY <2>1, <2>0 DEF StartRun, Enter, LateBound, StillToStart, PrepareStages,
         GatedStages, EnrichStages, Stages, Steps, Final
  <2>2. ASSUME Gate PROVE LateBound'
    BY <2>2, <2>0 DEF Gate, Enter, Goto, LateBound, StillToStart, PrepareStages,
         GatedStages, EnrichStages, Stages, Steps, Final
  <2>3. ASSUME Enrich PROVE LateBound'
    <3>1. CASE Advance(Worker)
      BY <2>3, <2>0, <3>1 DEF Enrich, Advance, Enter, NoteWork, Following, LateBound,
           StillToStart, PrepareStages, GatedStages, EnrichStages, Stages, Steps, Final
    <3>2. CASE Raise(Worker)
      BY <2>3, <2>0, <3>2 DEF Enrich, Raise, Enter, NoteWork, LateBound,
           StillToStart, PrepareStages, GatedStages, EnrichStages, Stages, Steps, Final
    <3> QED
      BY <2>3, <3>1, <3>2 DEF Enrich
  <2>4. ASSUME SearchScenes PROVE LateBound'
    BY <2>4, <2>0 DEF SearchScenes, At, RaiseTransient, Raise, Advance, Enter, NoteWork,
         Following, LateBound, StillToStart, PrepareStages, GatedStages, EnrichStages,
         Stages, Steps, Final
  <2>5. ASSUME SelectScenes PROVE LateBound'
    BY <2>5, <2>0 DEF SelectScenes, Complete, Advance, Enter, Following, LateBound,
         StillToStart, PrepareStages, GatedStages, EnrichStages, Stages, Steps, Final
  <2>6. ASSUME FinishRun PROVE LateBound'
    BY <2>6, <2>0 DEF FinishRun, Complete, Enter, LateBound, StillToStart, PrepareStages,
         GatedStages, EnrichStages, Stages, Steps, Final
  <2>7. ASSUME RetryRun PROVE LateBound'
    BY <2>7, <2>0 DEF RetryRun, Enter, LateBound, StillToStart, PrepareStages,
         GatedStages, EnrichStages, Stages, Steps, Final
  <2>8. ASSUME EndRun PROVE LateBound'
    BY <2>8, <2>0 DEF EndRun, Enter, LateBound, StillToStart, PrepareStages, GatedStages,
         EnrichStages, Stages, Steps, Final
  <2>9. ASSUME NEW p \in Procs, ReadPrepared(p) PROVE LateBound'
    <3>1. CASE p = Worker
      BY <2>9, <2>0, <3>1 DEF ReadPrepared, Goto, Advance, Enter, Following, LateBound,
           StillToStart, PrepareStages, GatedStages, EnrichStages, Stages, Steps, Final
    <3>2. CASE p # Worker
      <4>1. /\ stage' \in [Procs -> Stages] /\ step' \in [Procs -> Steps]
            /\ UNCHANGED <<stage[Worker], step[Worker], job, lateWork>>
        BY <2>9, <2>0, <3>2 DEF ReadPrepared, Goto, Advance, Enter, Following, NoteWork,
             PrepareStages, GatedStages, EnrichStages, Stages, Steps, Final
      <4> QED
        BY <4>1, LateBoundStays
    <3> QED
      BY <3>1, <3>2
  <2>10. ASSUME NEW p \in Procs, BeginPreparing(p) PROVE LateBound'
    <3>1. CASE p = Worker
      BY <2>10, <2>0, <3>1 DEF BeginPreparing, Goto, Raise, Enter, NoteWork, LateBound,
           StillToStart, PrepareStages, GatedStages, EnrichStages, Stages, Steps, Final
    <3>2. CASE p # Worker
      <4>1. /\ stage' \in [Procs -> Stages] /\ step' \in [Procs -> Steps]
            /\ UNCHANGED <<stage[Worker], step[Worker], job, lateWork>>
        BY <2>10, <2>0, <3>2 DEF BeginPreparing, Goto, Raise, Enter, NoteWork,
             PrepareStages, GatedStages, EnrichStages, Stages, Steps, Final
      <4> QED
        BY <4>1, LateBoundStays
    <3> QED
      BY <3>1, <3>2
  <2>11. ASSUME NEW p \in Procs, FinishPreparing(p) PROVE LateBound'
    <3>1. CASE p = Worker
      BY <2>11, <2>0, <3>1 DEF FinishPreparing, RaiseTransient, Raise, Advance, Enter,
           Following, LateBound, StillToStart, PrepareStages, GatedStages, EnrichStages,
           Stages, Steps, Final
    <3>2. CASE p # Worker
      <4>1. /\ stage' \in [Procs -> Stages] /\ step' \in [Procs -> Steps]
            /\ UNCHANGED <<stage[Worker], step[Worker], job, lateWork>>
        BY <2>11, <2>0, <3>2 DEF FinishPreparing, RaiseTransient, Raise, Advance, Enter,
             Following, NoteWork, PrepareStages, GatedStages, EnrichStages, Stages, Steps,
             Final
      <4> QED
        BY <4>1, LateBoundStays
    <3> QED
      BY <3>1, <3>2
  <2>12. ASSUME NEW p \in Procs, ReadAnalysis(p) PROVE LateBound'
    <3>1. CASE p = Worker
      BY <2>12, <2>0, <3>1 DEF ReadAnalysis, At, Raise, Advance, Goto, Enter, Following,
           LateBound, StillToStart, PrepareStages, GatedStages, EnrichStages, Stages,
           Steps, Final
    <3>2. CASE p # Worker
      <4>1. /\ stage' \in [Procs -> Stages] /\ step' \in [Procs -> Steps]
            /\ UNCHANGED <<stage[Worker], step[Worker], job, lateWork>>
        BY <2>12, <2>0, <3>2 DEF ReadAnalysis, At, Raise, Advance, Goto, Enter, Following,
             NoteWork, PrepareStages, GatedStages, EnrichStages, Stages, Steps, Final
      <4> QED
        BY <4>1, LateBoundStays
    <3> QED
      BY <3>1, <3>2
  <2>13. ASSUME NEW p \in Procs, BeginAnalysis(p) PROVE LateBound'
    <3>1. CASE p = Worker
      BY <2>13, <2>0, <3>1 DEF BeginAnalysis, At, Raise, Goto, Enter, NoteWork, LateBound,
           StillToStart, PrepareStages, GatedStages, EnrichStages, Stages, Steps, Final
    <3>2. CASE p # Worker
      <4>1. /\ stage' \in [Procs -> Stages] /\ step' \in [Procs -> Steps]
            /\ UNCHANGED <<stage[Worker], step[Worker], job, lateWork>>
        BY <2>13, <2>0, <3>2 DEF BeginAnalysis, At, Raise, Goto, Enter, NoteWork,
             PrepareStages, GatedStages, EnrichStages, Stages, Steps, Final
      <4> QED
        BY <4>1, LateBoundStays
    <3> QED
      BY <3>1, <3>2
  <2>14. ASSUME NEW p \in Procs, FinishAnalysis(p) PROVE LateBound'
    <3>1. CASE p = Worker
      BY <2>14, <2>0, <3>1 DEF FinishAnalysis, At, Raise, Advance, Enter, Following,
           LateBound, StillToStart, PrepareStages, GatedStages, EnrichStages, Stages,
           Steps, Final
    <3>2. CASE p # Worker
      <4>1. /\ stage' \in [Procs -> Stages] /\ step' \in [Procs -> Steps]
            /\ UNCHANGED <<stage[Worker], step[Worker], job, lateWork>>
        BY <2>14, <2>0, <3>2 DEF FinishAnalysis, At, Raise, Advance, Enter, Following,
             NoteWork, PrepareStages, GatedStages, EnrichStages, Stages, Steps, Final
      <4> QED
        BY <4>1, LateBoundStays
    <3> QED
      BY <3>1, <3>2
  <2>15. ASSUME NEW p \in Procs, ReadEvents(p) PROVE LateBound'
    <3>1. CASE p = Worker
      BY <2>15, <2>0, <3>1 DEF ReadEvents, At, Raise, Advance, Goto, Enter, Following,
           LateBound, StillToStart, PrepareStages, GatedStages, EnrichStages, Stages,
           Steps, Final
    <3>2. CASE p # Worker
      <4>1. /\ stage' \in [Procs -> Stages] /\ step' \in [Procs -> Steps]
            /\ UNCHANGED <<stage[Worker], step[Worker], job, lateWork>>
        BY <2>15, <2>0, <3>2 DEF ReadEvents, At, Raise, Advance, Goto, Enter, Following,
             NoteWork, PrepareStages, GatedStages, EnrichStages, Stages, Steps, Final
      <4> QED
        BY <4>1, LateBoundStays
    <3> QED
      BY <3>1, <3>2
  <2>26. ASSUME NEW p \in Procs, DeleteEvents(p) PROVE LateBound'
    <3>1. CASE p = Worker
      BY <2>26, <2>0, <3>1 DEF DeleteEvents, At, Raise, Goto, Enter, NoteWork, LateBound,
           StillToStart, PrepareStages, GatedStages, EnrichStages, Stages, Steps, Final
    <3>2. CASE p # Worker
      <4>1. /\ stage' \in [Procs -> Stages] /\ step' \in [Procs -> Steps]
            /\ UNCHANGED <<stage[Worker], step[Worker], job, lateWork>>
        BY <2>26, <2>0, <3>2 DEF DeleteEvents, At, Raise, Goto, Enter, NoteWork,
             PrepareStages, GatedStages, EnrichStages, Stages, Steps, Final
      <4> QED
        BY <4>1, LateBoundStays
    <3> QED
      BY <3>1, <3>2
  <2>16. ASSUME NEW p \in Procs, StoreEvents(p) PROVE LateBound'
    <3>1. CASE p = Worker
      BY <2>16, <2>0, <3>1 DEF StoreEvents, At, Raise, Goto, Enter, NoteWork, LateBound,
           StillToStart, PrepareStages, GatedStages, EnrichStages, Stages, Steps, Final
    <3>2. CASE p # Worker
      <4>1. /\ stage' \in [Procs -> Stages] /\ step' \in [Procs -> Steps]
            /\ UNCHANGED <<stage[Worker], step[Worker], job, lateWork>>
        BY <2>16, <2>0, <3>2 DEF StoreEvents, At, Raise, Goto, Enter, NoteWork,
             PrepareStages, GatedStages, EnrichStages, Stages, Steps, Final
      <4> QED
        BY <4>1, LateBoundStays
    <3> QED
      BY <3>1, <3>2
  <2>17. ASSUME NEW p \in Procs, Summarise(p) PROVE LateBound'
    <3>1. CASE p = Worker
      BY <2>17, <2>0, <3>1 DEF Summarise, At, Raise, Advance, Enter, Following, LateBound,
           StillToStart, PrepareStages, GatedStages, EnrichStages, Stages, Steps, Final
    <3>2. CASE p # Worker
      <4>1. /\ stage' \in [Procs -> Stages] /\ step' \in [Procs -> Steps]
            /\ UNCHANGED <<stage[Worker], step[Worker], job, lateWork>>
        BY <2>17, <2>0, <3>2 DEF Summarise, At, Raise, Advance, Enter, Following, NoteWork,
             PrepareStages, GatedStages, EnrichStages, Stages, Steps, Final
      <4> QED
        BY <4>1, LateBoundStays
    <3> QED
      BY <3>1, <3>2
  <2>18. ASSUME NEW r \in Requests, EnqueueRun(r) PROVE LateBound'
    BY <2>18, <2>0 DEF EnqueueRun, Enter, LateBound, StillToStart, PrepareStages,
         GatedStages, EnrichStages, Stages, Steps, Final
  <2>19. ASSUME CancelJob PROVE LateBound'
    BY <2>19, <2>0 DEF CancelJob, LateBound, StillToStart, PrepareStages, GatedStages,
         EnrichStages, Stages, Steps, Final
  <2>20. ASSUME NEW c \in Callers, StartCall(c) PROVE LateBound'
    <3>1. /\ stage' \in [Procs -> Stages] /\ step' \in [Procs -> Steps]
          /\ UNCHANGED <<stage[Worker], step[Worker], job, lateWork>>
      BY <2>20, <2>0 DEF StartCall, Enter, PrepareStages, GatedStages, EnrichStages,
           Stages, Steps, Final
    <3> QED
      BY <3>1, LateBoundStays
  <2>21. ASSUME NEW s \in Scenes, Publish(s) PROVE LateBound'
    <3>1. UNCHANGED <<stage, step, job, lateWork>>
      BY <2>21 DEF Publish
    <3> QED
      BY <2>0, <3>1, LateBoundStays
  <2>22. ASSUME NextDay PROVE LateBound'
    <3>1. UNCHANGED <<stage, step, job, lateWork>>
      BY <2>22 DEF NextDay
    <3> QED
      BY <2>0, <3>1, LateBoundStays
  <2>23. ASSUME FilesLost PROVE LateBound'
    <3>1. UNCHANGED <<stage, step, job, lateWork>>
      BY <2>23 DEF FilesLost
    <3> QED
      BY <2>0, <3>1, LateBoundStays
  <2>24. ASSUME NEW p \in Procs, Crash(p) PROVE LateBound'
    <3>1. CASE p = Worker
      BY <2>24, <2>0, <3>1 DEF Crash, Enter, LateBound, StillToStart, PrepareStages,
           GatedStages, EnrichStages, Stages, Steps, Final
    <3>2. CASE p # Worker
      <4>1. /\ stage' \in [Procs -> Stages] /\ step' \in [Procs -> Steps]
            /\ UNCHANGED <<stage[Worker], step[Worker], job, lateWork>>
        BY <2>24, <2>0, <3>2 DEF Crash, Enter, PrepareStages, GatedStages, EnrichStages,
             Stages, Steps, Final
      <4> QED
        BY <4>1, LateBoundStays
    <3> QED
      BY <3>1, <3>2
  <2>25. CASE UNCHANGED vars
    BY <2>25, <2>0, LateBoundStays DEF vars
  <2> QED
    BY <2>0, <2>1, <2>2, <2>3, <2>4, <2>5, <2>6, <2>7, <2>8, <2>9, <2>10, <2>11, <2>12,
         <2>13, <2>14, <2>15, <2>16, <2>17, <2>18, <2>19, <2>20, <2>21, <2>22, <2>23,
         <2>24, <2>25, <2>26 DEF Next, Environment, WorkerStep, Operation
<1>3. LateBound => CancelBoundsWork
  BY DEF LateBound, CancelBoundsWork
<1> QED
  BY <1>1, <1>2, <1>3, PTL DEF SafetySpec
=============================================================================
