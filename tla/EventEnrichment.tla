--------------------------- MODULE EventEnrichment ---------------------------
(***************************************************************************)
(* The change events of one analysis and everything computed about them:    *)
(* generation from the change mask, the reviewer's status, impacts,         *)
(* exposures and semantics, and the datasets these are computed from.  API  *)
(* requests and the worker run the same service functions, each in a        *)
(* database session of its own.                                             *)
(*                                                                          *)
(* Every computation reads event.properties (one JSON column), adds its own *)
(* key to the copy and later writes the whole copy back; nothing locks the  *)
(* event in between.  Rows of a computation live in a table of their own    *)
(* and are replaced by DELETE and INSERT in the transaction of that write.  *)
(***************************************************************************)
EXTENDS Integers, FiniteSets

CONSTANTS Session,      \* requests or workers at work at one time
          Event,        \* identifiers an event may get
          Feature,      \* context features, units, classes, protected areas
          Remote,       \* events no feature touches
          MaskEvents,   \* regions of the change mask that become events
          MaxOps,       \* bound on the requests, reviews included
          MaxRefreshes  \* bound on the dataset refreshes

ASSUME EnrichmentAssumption ==
    /\ Remote \subseteq Event
    /\ IsFiniteSet(Event)
    /\ MaskEvents \in Nat
    /\ MaxOps \in Nat
    /\ MaxRefreshes \in Nat

Exposed  == {"population", "land_cover", "environment"}
Tables   == {"impact"} \cup Exposed
Datasets == {"context"} \cup Exposed
Keys     == Tables \cup {"exposure", "semantic"}

VARIABLES
    status, props,              \* change_events
    rows,                       \* the four tables of rows about events
    labelled,                   \* change_event_semantic_analyses
    generated,                  \* statistics.event_generation of the analysis, -1: none
    datasets,                   \* features stored for the monitor
    pc, job, todo, scope,       \* what each session is doing, on which events
    held, mem,                  \* event objects it has loaded, their properties
    found, doomed, tag,         \* what it will insert and delete, its number
    started, refreshed,         \* bounds
    overlapped, disturbed       \* history, read by properties only

events  == <<status, props>>
tables  == <<rows, labelled>>
local   == <<pc, job, todo, scope, held, mem, found, doomed, tag>>
bounds  == <<started, refreshed>>
history == <<overlapped, disturbed>>
vars    == <<events, tables, generated, datasets, local, bounds, history>>

Statuses == {"new", "reviewed"}  \* "reviewed" stands for every verdict
Live     == {e \in Event : status[e] \in Statuses}
Row      == Feature \X Event \X (1..MaxOps)
About(k, es) == {r \in rows[k] : r[2] \in es}

TypeOK ==
    /\ status \in [Event -> Statuses \cup {"unused", "deleted"}]
    /\ props \in [Event -> SUBSET Keys]
    /\ rows \in [Tables -> SUBSET Row]
    /\ labelled \subseteq Event
    /\ generated \in {-1, MaskEvents}
    /\ datasets \in [Datasets -> SUBSET Feature]
    /\ pc \in [Session -> {"idle", "next", "measure", "clear", "store", "snapshot",
                           "infer", "reinfer", "rebuild", "insert", "summarise"}]
    /\ job \in [Session -> {"none", "exposure", "semantic", "relabel", "generate"} \cup Tables]
    /\ todo \in [Session -> SUBSET Event]
    /\ scope \in [Session -> SUBSET Event]
    /\ held \in [Session -> SUBSET Event]
    /\ mem \in [Session -> [Event -> SUBSET Keys]]
    /\ found \in [Session -> SUBSET (Feature \X Event)]
    /\ doomed \in [Session -> SUBSET Row]
    /\ tag \in [Session -> 0..MaxOps]
    /\ started \in 0..MaxOps
    /\ refreshed \in 0..MaxRefreshes
    /\ overlapped \subseteq Event
    /\ disturbed \in BOOLEAN

(* The analysis has no events yet or those of one complete generation; the  *)
(* datasets are those of an earlier refresh of all four, if there was one.  *)
Init ==
    /\ \E old \in SUBSET Event :
           /\ Cardinality(old) \in {0, MaskEvents}
           /\ status = [e \in Event |-> IF e \in old THEN "new" ELSE "unused"]
           /\ generated = (IF old = {} THEN -1 ELSE MaskEvents)
    /\ \E fs \in SUBSET Feature : datasets = [d \in Datasets |-> fs]
    /\ props = [e \in Event |-> {}]
    /\ rows = [k \in Tables |-> {}]
    /\ labelled = {}
    /\ pc = [s \in Session |-> "idle"]
    /\ job = [s \in Session |-> "none"]
    /\ todo = [s \in Session |-> {}]
    /\ scope = [s \in Session |-> {}]
    /\ held = [s \in Session |-> {}]
    /\ mem = [s \in Session |-> [e \in Event |-> {}]]
    /\ found = [s \in Session |-> {}]
    /\ doomed = [s \in Session |-> {}]
    /\ tag = [s \in Session |-> 0]
    /\ started = 0
    /\ refreshed = 0
    /\ overlapped = {}
    /\ disturbed = FALSE

-----------------------------------------------------------------------------
(* Sessions.                                                                *)

(* Where session s goes next: its step, its job, the events left and the    *)
(* events the current write is about.                                       *)
Goto(s, p, j, left, sc) ==
    /\ pc' = [pc EXCEPT ![s] = p]
    /\ job' = [job EXCEPT ![s] = j]
    /\ todo' = [todo EXCEPT ![s] = left]
    /\ scope' = [scope EXCEPT ![s] = sc]

Rows(s, f, d) ==
    /\ found' = [found EXCEPT ![s] = f]
    /\ doomed' = [doomed EXCEPT ![s] = d]

(* Objects a query returned stay in the session while they are referenced   *)
(* and later queries of the session do not read them again.                 *)
Hold(s, es) ==
    /\ held' = [held EXCEPT ![s] = @ \cup es]
    /\ mem' = [mem EXCEPT ![s] = [e \in Event |->
                   IF e \in es \ held[s] THEN props[e] ELSE mem[s][e]]]

(* rollback() expires every object of the session; so does its end.         *)
Forget(s) ==
    /\ held' = [held EXCEPT ![s] = {}]
    /\ mem' = [mem EXCEPT ![s] = [e \in Event |-> {}]]

Rest(s) ==
    /\ Goto(s, "idle", "none", {}, {})
    /\ Rows(s, {}, {})
    /\ Forget(s)
    /\ tag' = [tag EXCEPT ![s] = 0]

(* After an event: the next of a bulk call, or the end of the call.         *)
Continue(s, j, left) ==
    IF left = {} THEN Rest(s)
    ELSE Goto(s, "next", j, left, {}) /\ Rows(s, {}, {}) /\ UNCHANGED <<held, mem, tag>>

(* A failed write: rolled back, and a bulk call goes on with its next event.*)
Fail(s) ==
    IF job[s] = "impact" \/ todo[s] = {} THEN Rest(s)
    ELSE /\ Goto(s, "next", IF job[s] \in Exposed THEN "exposure" ELSE job[s], todo[s], {})
         /\ Rows(s, {}, {})
         /\ Forget(s)
         /\ UNCHANGED tag

Start(s) ==
    /\ pc[s] = "idle"
    /\ started < MaxOps
    /\ started' = started + 1
    /\ tag' = [tag EXCEPT ![s] = started + 1]
    /\ UNCHANGED refreshed

(* Mutant: the key replaces the properties.                                 *)
CopyOfKey(s, e, key) == {key}

(* The properties session s writes for event e: its copy and one more key.  *)
Copy(s, e, key) == mem[s][e] \cup {key}

(* The UPDATE of the events in scope.  Only changed columns are written.    *)
WriteProps(s, key) ==
    /\ props' = [e \in Event |-> IF e \in scope[s] THEN Copy(s, e, key) ELSE props[e]]
    /\ overlapped' = overlapped \cup
           {e \in scope[s] : \E t \in Session \ {s} : e \in held[t]}

(* Mutant: the session goes on with the copy it loaded first.               *)
KeepCopyAsLoaded(s, key) == UNCHANGED <<held, mem>>

KeepCopy(s, key) ==
    /\ mem' = [mem EXCEPT ![s] = [e \in Event |->
                   IF e \in scope[s] THEN Copy(s, e, key) ELSE mem[s][e]]]
    /\ UNCHANGED held

-----------------------------------------------------------------------------
(* Rows about events: measured by spatial queries, then replaced.           *)

Touched(fs, es) == fs \X (es \ Remote)

Relationships(es)   == Touched(datasets["context"], es \cap Live)
PopulationUnits(es) == Touched(datasets["population"], es \cap Live)
LandCoverClasses(es) == Touched(datasets["land_cover"], es)
ProtectedAreas(es)  == Touched(datasets["environment"], es \cap Live)

Measure(s, k, f) ==
    /\ pc[s] = "measure"
    /\ job[s] = k
    /\ IF k = "impact" \/ scope[s] \subseteq Live
       THEN /\ Goto(s, "clear", k, todo[s], scope[s])
            /\ Rows(s, f, {})
            /\ UNCHANGED <<held, mem, tag>>
       ELSE Continue(s, "exposure", todo[s])
    /\ UNCHANGED <<events, tables, generated, datasets, bounds, history>>

MeasureImpact(s)      == Measure(s, "impact", Relationships(scope[s]))
MeasurePopulation(s)  == Measure(s, "population", PopulationUnits(scope[s]))
MeasureLandCover(s)   == Measure(s, "land_cover", LandCoverClasses(scope[s]))
MeasureEnvironment(s) == Measure(s, "environment", ProtectedAreas(scope[s]))

(* Mutant: the rows of earlier computations are not deleted.                *)
ClearNothing(s) ==
    /\ pc[s] = "clear"
    /\ Goto(s, "store", job[s], todo[s], scope[s])
    /\ Rows(s, found[s], {})
    /\ UNCHANGED <<held, mem, tag, events, tables, generated, datasets, bounds, history>>

(* The DELETE sees the rows committed before it; those another transaction  *)
(* commits later stay.                                                      *)
Clear(s) ==
    /\ pc[s] = "clear"
    /\ Goto(s, "store", job[s], todo[s], scope[s])
    /\ Rows(s, found[s], About(job[s], scope[s]))
    /\ UNCHANGED <<held, mem, tag, events, tables, generated, datasets, bounds, history>>

Kept(s)     == rows[job[s]] \ doomed[s]
Clashes(s)  == {p \in found[s] : \E r \in Kept(s) : r[1] = p[1] /\ r[2] = p[2]}
Fresh(s, f) == {<<p[1], p[2], tag[s]>> : p \in f}

(* INSERT and commit; next is what the call does after it.                  *)
Replace(s, k, f, next) ==
    /\ pc[s] = "store"
    /\ job[s] = k
    /\ scope[s] \subseteq Live
    /\ rows' = [rows EXCEPT ![k] = Kept(s) \cup Fresh(s, f)]
    /\ WriteProps(s, k)
    /\ next
    /\ UNCHANGED <<status, labelled, generated, datasets, bounds, disturbed>>

(* ON CONFLICT DO NOTHING: a clashing row of another computation stays.     *)
StoreImpact(s) == Replace(s, "impact", found[s] \ Clashes(s), Rest(s))

(* The exposure tables are written without it: a clash fails the write.     *)
StoreExposure(s, k, p, j) ==
    /\ Clashes(s) = {}
    /\ Replace(s, k, found[s],
               /\ Goto(s, p, j, todo[s], scope[s])
               /\ Rows(s, {}, {})
               /\ KeepCopy(s, k)
               /\ UNCHANGED tag)

StorePopulation(s)  == StoreExposure(s, "population", "measure", "land_cover")
StoreLandCover(s)   == StoreExposure(s, "land_cover", "measure", "environment")
StoreEnvironment(s) == StoreExposure(s, "environment", "snapshot", "exposure")

(* A write that cannot be done (the event is gone, a row exists) or that    *)
(* the database refuses.                                                    *)
WriteFails(s) ==
    /\ pc[s] \in {"store", "snapshot", "infer", "reinfer"}
    /\ Fail(s)
    /\ UNCHANGED <<events, tables, generated, datasets, bounds, history>>

-----------------------------------------------------------------------------
(* Impacts: one event, or all events of the analysis in one transaction.    *)

BeginImpact(s, es) ==
    /\ Start(s)
    /\ es # {}
    /\ datasets["context"] # {}  \* else the stored summary, or a conflict
    /\ Goto(s, "measure", "impact", {}, es)
    /\ Rows(s, {}, {})
    /\ Hold(s, es)
    /\ UNCHANGED <<events, tables, generated, datasets, history>>

RequestImpact(s)         == \E e \in Live : BeginImpact(s, {e})
RequestAnalysisImpact(s) == BeginImpact(s, Live)

-----------------------------------------------------------------------------
(* Exposures: population, land cover and environment in turn, each with its *)
(* own commit, then the snapshot that names them.                           *)

(* Each part is read from its rows or, if there are none, its own key.      *)
PartReadable(k, e, keys) == About(k, {e}) # {} \/ k \in keys
ExposureReadable(e, keys) ==
    /\ datasets["population"] # {}
    /\ \A k \in Exposed : PartReadable(k, e, keys)

DatasetsReady == \A d \in {"context", "population", "land_cover"} : datasets[d] # {}

BeginExposure(s, es) ==
    /\ Start(s)
    /\ es # {}
    /\ Goto(s, "next", "exposure", es, {})
    /\ Rows(s, {}, {})
    /\ Hold(s, es)
    /\ UNCHANGED <<events, tables, generated, datasets, history>>

RequestExposure(s)         == \E e \in Live : BeginExposure(s, {e})
RequestAnalysisExposure(s) == BeginExposure(s, Live)

Seen(s, e) == IF e \in held[s] THEN mem[s][e] ELSE props[e]

(* The first look at event e: gone, computed already, not computable, or    *)
(* computed now.  An object expired by a rollback whose row is gone raises. *)
NextExposure(s, e) ==
    LET left == todo[s] \ {e}
        readable == ExposureReadable(e, Seen(s, e))
    IN  /\ pc[s] = "next"
        /\ job[s] = "exposure"
        /\ CASE e \notin Live /\ e \notin held[s] -> Rest(s)
             [] e \notin Live /\ e \in held[s] -> Continue(s, "exposure", left)
             [] e \in Live /\ "exposure" \in Seen(s, e) /\ readable ->
                    Continue(s, "exposure", left)
             [] e \in Live /\ ~("exposure" \in Seen(s, e) /\ readable) /\ ~DatasetsReady ->
                    IF readable THEN Continue(s, "exposure", left) ELSE Rest(s)
             [] OTHER ->
                    /\ Goto(s, "measure", "population", left, {e})
                    /\ Rows(s, {}, {})
                    /\ Hold(s, {e})
                    /\ UNCHANGED tag
        /\ UNCHANGED <<events, tables, generated, datasets, bounds, history>>

PersistExposure(s) ==
    /\ pc[s] = "snapshot"
    /\ scope[s] \subseteq Live
    /\ WriteProps(s, "exposure")
    /\ IF todo[s] = {} THEN Rest(s)
       ELSE /\ Goto(s, "next", "exposure", todo[s], {})
            /\ Rows(s, {}, {})
            /\ KeepCopy(s, "exposure")
            /\ UNCHANGED tag
    /\ UNCHANGED <<status, tables, generated, datasets, bounds, disturbed>>

-----------------------------------------------------------------------------
(* Semantics: one row per event, and its label copied into the properties.  *)

RequestSemantics(s, es, j) ==
    /\ Start(s)
    /\ es # {}
    /\ Goto(s, "next", j, es, {})
    /\ Rows(s, {}, {})
    /\ UNCHANGED <<held, mem, events, tables, generated, datasets, history>>

RequestEventSemantics(s, j)    == \E e \in Live : RequestSemantics(s, {e}, j)
RequestAnalysisSemantics(s, j) == RequestSemantics(s, Live, j)

(* A stored row is reused unless the caller forces ("relabel").             *)
NextSemantics(s, e) ==
    /\ pc[s] = "next"
    /\ job[s] \in {"semantic", "relabel"}
    /\ IF e \in Live /\ (e \in labelled => job[s] = "relabel")
       THEN /\ Goto(s, IF e \in labelled THEN "reinfer" ELSE "infer", job[s],
                    todo[s] \ {e}, {e})
            /\ Rows(s, {}, {})
            /\ Hold(s, {e})
            /\ UNCHANGED tag
       ELSE Continue(s, job[s], todo[s] \ {e})
    /\ UNCHANGED <<events, tables, generated, datasets, bounds, history>>

(* Mutant: the label is committed without the row.                          *)
PersistSemanticsWithoutRow(s) ==
    /\ pc[s] \in {"infer", "reinfer"}
    /\ scope[s] \subseteq Live
    /\ WriteProps(s, "semantic")
    /\ Rest(s)
    /\ UNCHANGED <<status, tables, generated, datasets, bounds, disturbed>>

(* Row and properties in one transaction; a second row is refused.          *)
PersistSemantics(s) ==
    /\ pc[s] \in {"infer", "reinfer"}
    /\ scope[s] \subseteq Live
    /\ pc[s] = "infer" => scope[s] \cap labelled = {}
    /\ labelled' = labelled \cup scope[s]
    /\ WriteProps(s, "semantic")
    /\ IF todo[s] = {} THEN Rest(s)
       ELSE /\ Goto(s, "next", job[s], todo[s], {})
            /\ Rows(s, {}, {})
            /\ Forget(s)
            /\ UNCHANGED tag
    /\ UNCHANGED <<status, rows, generated, datasets, bounds, disturbed>>

-----------------------------------------------------------------------------
(* Generation of the events from the change mask, and the reviewer.         *)

(* Mutant: reviewed events are not counted.                                 *)
GenerationReusableUnreviewed == generated = Cardinality({e \in Live : status[e] = "new"})

GenerationReusable == generated = Cardinality(Live)

Generating(t) == job[t] = "generate"

(* A completed generation of as many events as are stored is answered from  *)
(* the table; anything else is generated anew.                              *)
RequestEvents(s) ==
    /\ Start(s)
    /\ ~GenerationReusable
    /\ Goto(s, "rebuild", "generate", {}, Live)
    /\ Rows(s, {}, {})
    /\ disturbed' = (disturbed \/ \E t \in Session \ {s} : Generating(t))
    /\ UNCHANGED <<held, mem, events, tables, generated, datasets, overlapped>>

(* DELETE of the analysis's events, if the first query returned any.        *)
DeleteEvents(s) ==
    /\ pc[s] = "rebuild"
    /\ Goto(s, "insert", "generate", IF scope[s] = {} THEN {} ELSE Live, {})
    /\ UNCHANGED <<held, mem, found, doomed, tag, events, tables, generated, datasets, bounds, history>>

(* INSERT and commit; what refers to a deleted event goes with it.          *)
InsertEvents(s, new) ==
    /\ pc[s] = "insert"
    /\ new \subseteq {e \in Event : status[e] = "unused"}
    /\ Cardinality(new) = MaskEvents
    /\ status' = [e \in Event |-> CASE e \in new -> "new"
                                    [] e \in todo[s] -> "deleted"
                                    [] OTHER -> status[e]]
    /\ rows' = [k \in Tables |-> rows[k] \ About(k, todo[s])]
    /\ labelled' = labelled \ todo[s]
    /\ props' = [e \in Event |-> IF e \in todo[s] THEN {} ELSE props[e]]
    /\ Goto(s, "summarise", "generate", {}, {})
    /\ UNCHANGED <<held, mem, found, doomed, tag, generated, datasets, bounds, history>>

(* Mutant: the summary counts what the table holds by then.                 *)
PersistGenerationCounted(s) ==
    /\ pc[s] = "summarise"
    /\ generated' = Cardinality(Live)
    /\ Rest(s)
    /\ UNCHANGED <<events, tables, datasets, bounds, history>>

(* Written from the statistics loaded at the start, in a second commit.     *)
PersistGeneration(s) ==
    /\ pc[s] = "summarise"
    /\ generated' = MaskEvents
    /\ Rest(s)
    /\ UNCHANGED <<events, tables, datasets, bounds, history>>

(* A forced analysis run replaces the statistics, and with them the summary.*)
Reanalyse ==
    /\ generated # -1
    /\ generated' = -1
    /\ disturbed' = TRUE
    /\ UNCHANGED <<events, tables, datasets, local, bounds, overlapped>>

Review(e, v) ==
    /\ e \in Live
    /\ started < MaxOps
    /\ started' = started + 1
    /\ status' = [status EXCEPT ![e] = v]
    /\ UNCHANGED <<props, tables, generated, datasets, local, refreshed, history>>

(* The process dies, or a query or provider call of it fails.               *)
Crash(s) ==
    /\ pc[s] # "idle"
    /\ disturbed' = (disturbed \/ pc[s] = "summarise")
    /\ Rest(s)
    /\ UNCHANGED <<events, tables, generated, datasets, bounds, overlapped>>

-----------------------------------------------------------------------------
(* Datasets.  A refresh adds and updates features and removes none; the     *)
(* land-cover source is one row, replaced.                                  *)

Refresh(d, stored) ==
    /\ refreshed < MaxRefreshes
    /\ stored # datasets[d]
    /\ refreshed' = refreshed + 1
    /\ datasets' = [datasets EXCEPT ![d] = stored]
    /\ UNCHANGED <<events, tables, generated, local, started, history>>

Upserted(d, fetched) == datasets[d] \cup fetched

RefreshContext     == \E fs \in SUBSET Feature : Refresh("context", Upserted("context", fs))
RefreshPopulation  == \E fs \in SUBSET Feature : Refresh("population", Upserted("population", fs))
RefreshLandCover   == \E f \in Feature : Refresh("land_cover", {f})
RefreshEnvironment == \E fs \in SUBSET Feature : Refresh("environment", Upserted("environment", fs))

-----------------------------------------------------------------------------
Requests(s) ==
    \/ RequestImpact(s)
    \/ RequestAnalysisImpact(s)
    \/ RequestExposure(s)
    \/ RequestAnalysisExposure(s)
    \/ \E j \in {"semantic", "relabel"} :
           RequestEventSemantics(s, j) \/ RequestAnalysisSemantics(s, j)
    \/ RequestEvents(s)

Rebuild(s) ==
    \/ DeleteEvents(s)
    \/ \E new \in SUBSET Event : InsertEvents(s, new)
    \/ PersistGeneration(s)

Compute(s) ==
    \/ MeasureImpact(s) \/ MeasurePopulation(s) \/ MeasureLandCover(s) \/ MeasureEnvironment(s)
    \/ Clear(s)
    \/ StoreImpact(s) \/ StorePopulation(s) \/ StoreLandCover(s) \/ StoreEnvironment(s)
    \/ PersistExposure(s)
    \/ PersistSemantics(s)
    \/ WriteFails(s)
    \/ \E e \in todo[s] : NextExposure(s, e) \/ NextSemantics(s, e)

Next ==
    \/ \E s \in Session : Requests(s) \/ Rebuild(s) \/ Compute(s) \/ Crash(s)
    \/ Reanalyse
    \/ \E e \in Event, v \in Statuses : Review(e, v)
    \/ RefreshContext \/ RefreshPopulation \/ RefreshLandCover \/ RefreshEnvironment

Spec == Init /\ [][Next]_vars

-----------------------------------------------------------------------------
(* What must hold.                                                          *)

(* Once an exposure is stored with an event it can be read back, so that a  *)
(* repeated request answers from it (compute_change_event_exposure), in     *)
(* whatever order other sessions overwrite the properties: the snapshot     *)
(* never outlives the parts it was made of.                                 *)
StoredExposureReadable ==
    \A e \in Live : "exposure" \in props[e] => ExposureReadable(e, props[e])

(* An event shown with a semantic label has the analysis row that explains  *)
(* it, also after regenerations and failed writes.                          *)
LabelHasRow == \A e \in Live : "semantic" \in props[e] => e \in labelled

(* The rows of one table about one event are those of one computation,      *)
(* never a mixture of two, unless two sessions held the event at once while *)
(* one of them wrote it.                                                    *)
RowsOfOneComputation ==
    \A e \in Live \ overlapped, k \in Tables :
        \A a, b \in About(k, {e}) : a[3] = b[3]

(* A key once written stays with the event, and what was computed stays     *)
(* visible, unless a session that held an older copy wrote it back.         *)
KeysLostOnlyByOverlap ==
    [][\A e \in (Live \cap Live') \ overlapped' : props[e] \subseteq props'[e]]_vars

(* Asking again for the events of an analysis neither removes nor adds any  *)
(* once a generation is complete ("idempotent by generation version"):      *)
(* reviews are lost only after the analysis was made again, a generation    *)
(* died before its summary, or two generations met.                         *)
CompleteGenerationStays ==
    [][generated # -1 /\ ~disturbed' => Live' = Live]_vars
==============================================================================
