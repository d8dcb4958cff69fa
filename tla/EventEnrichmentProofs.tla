------------------------ MODULE EventEnrichmentProofs ------------------------
(***************************************************************************)
(* Proofs about EventEnrichment, for any number of sessions, events,        *)
(* features, requests and refreshes.                                        *)
(***************************************************************************)
EXTENDS EventEnrichment, FiniteSetTheorems, TLAPS

Steps == {"idle", "next", "measure", "clear", "store", "snapshot",
          "infer", "reinfer", "rebuild", "insert", "summarise"}
JobNames == {"none", "exposure", "semantic", "relabel", "generate"} \cup Tables

(* Every call has a number, and what it measures a table.                   *)
Tagged ==
    \A s \in Session :
        /\ pc[s] # "idle" => tag[s] # 0
        /\ pc[s] \in {"measure", "clear", "store"} => job[s] \in Tables

TypeInv == TypeOK /\ Tagged

(* The part of it that is about the sessions.                               *)
LocalInv ==
    /\ pc \in [Session -> Steps]
    /\ job \in [Session -> JobNames]
    /\ todo \in [Session -> SUBSET Event]
    /\ scope \in [Session -> SUBSET Event]
    /\ held \in [Session -> SUBSET Event]
    /\ mem \in [Session -> [Event -> SUBSET Keys]]
    /\ found \in [Session -> SUBSET (Feature \X Event)]
    /\ doomed \in [Session -> SUBSET Row]
    /\ tag \in [Session -> 0..MaxOps]
    /\ Tagged

(* A step is one of these: actions that differ in the events or the table   *)
(* they are about only are taken together.                                  *)
StepKind ==
    \/ \E s \in Session :
           \/ \E es \in SUBSET Live :
                  \/ BeginImpact(s, es)
                  \/ BeginExposure(s, es)
                  \/ \E j \in {"semantic", "relabel"} : RequestSemantics(s, es, j)
           \/ RequestEvents(s)
           \/ DeleteEvents(s)
           \/ \E new \in SUBSET Event : InsertEvents(s, new)
           \/ PersistGeneration(s)
           \/ \E k \in Tables : \E f \in SUBSET (Feature \X scope[s]) : Measure(s, k, f)
           \/ Clear(s)
           \/ StoreImpact(s)
           \/ StorePopulation(s) \/ StoreLandCover(s) \/ StoreEnvironment(s)
           \/ PersistExposure(s)
           \/ PersistSemantics(s)
           \/ WriteFails(s)
           \/ \E e \in todo[s] : NextExposure(s, e) \/ NextSemantics(s, e)
           \/ Crash(s)
    \/ Reanalyse
    \/ \E e \in Event, v \in Statuses : Review(e, v)
    \/ \E d \in Datasets : \E stored \in SUBSET Feature : stored # {} /\ Refresh(d, stored)
    \/ UNCHANGED vars

(* The kinds are all of Next.                                               *)
LEMMA StepKinds == TypeOK /\ [Next]_vars => StepKind
<1> SUFFICES ASSUME TypeOK, [Next]_vars PROVE StepKind
  OBVIOUS
<1>1. ASSUME NEW s \in Session, Requests(s) PROVE StepKind
  <2>1. \A e \in Live : {e} \in SUBSET Live
    OBVIOUS
  <2>2. Live \in SUBSET Live
    OBVIOUS
  <2> QED
    BY <1>1, <2>1, <2>2
    DEF Requests, RequestImpact, RequestAnalysisImpact, RequestExposure, RequestAnalysisExposure,
        RequestEventSemantics, RequestAnalysisSemantics, StepKind
<1>2. ASSUME NEW s \in Session, Rebuild(s) PROVE StepKind
  BY <1>2 DEF Rebuild, StepKind
<1>3. ASSUME NEW s \in Session, Compute(s) PROVE StepKind
  <2>1. /\ Relationships(scope[s]) \in SUBSET (Feature \X scope[s])
        /\ PopulationUnits(scope[s]) \in SUBSET (Feature \X scope[s])
        /\ LandCoverClasses(scope[s]) \in SUBSET (Feature \X scope[s])
        /\ ProtectedAreas(scope[s]) \in SUBSET (Feature \X scope[s])
    BY DEF TypeOK, Relationships, PopulationUnits, LandCoverClasses, ProtectedAreas, Touched,
           Datasets, Exposed
  <2>2. ASSUME MeasureImpact(s) \/ MeasurePopulation(s) \/ MeasureLandCover(s)
                 \/ MeasureEnvironment(s)
        PROVE  \E k \in Tables : \E f \in SUBSET (Feature \X scope[s]) : Measure(s, k, f)
    <3>1. /\ "impact" \in Tables /\ "population" \in Tables
          /\ "land_cover" \in Tables /\ "environment" \in Tables
      BY DEF Tables, Exposed
    <3> QED
      BY <2>1, <2>2, <3>1
      DEF MeasureImpact, MeasurePopulation, MeasureLandCover, MeasureEnvironment
  <2> QED
    BY <1>3, <2>2 DEF Compute, StepKind
<1>4. ASSUME RefreshContext \/ RefreshPopulation \/ RefreshLandCover \/ RefreshEnvironment
      PROVE  \E d \in Datasets : \E stored \in SUBSET Feature : stored # {} /\ Refresh(d, stored)
  <2>1. CASE RefreshContext
    <3>1. PICK fs \in SUBSET Feature : Refresh("context", Upserted("context", fs))
      BY <2>1 DEF RefreshContext
    <3>2. datasets["context"] \subseteq Feature /\ "context" \in Datasets
      BY DEF TypeOK, Datasets, Exposed
    <3>3. Upserted("context", fs) \in SUBSET Feature
      BY <3>2 DEF Upserted
    <3>4. Upserted("context", fs) # {}
      BY <3>1 DEF Upserted, Refresh
    <3> QED
      BY <3>1, <3>2, <3>3, <3>4
  <2>2. CASE RefreshPopulation
    <3>1. PICK fs \in SUBSET Feature : Refresh("population", Upserted("population", fs))
      BY <2>2 DEF RefreshPopulation
    <3>2. datasets["population"] \subseteq Feature /\ "population" \in Datasets
      BY DEF TypeOK, Datasets, Exposed
    <3>3. Upserted("population", fs) \in SUBSET Feature
      BY <3>2 DEF Upserted
    <3>4. Upserted("population", fs) # {}
      BY <3>1 DEF Upserted, Refresh
    <3> QED
      BY <3>1, <3>2, <3>3, <3>4
  <2>3. CASE RefreshLandCover
    <3>1. PICK f \in Feature : Refresh("land_cover", {f})
      BY <2>3 DEF RefreshLandCover
    <3>2. {f} \in SUBSET Feature /\ {f} # {} /\ "land_cover" \in Datasets
      BY DEF Datasets, Exposed
    <3> QED
      BY <3>1, <3>2
  <2>4. CASE RefreshEnvironment
    <3>1. PICK fs \in SUBSET Feature : Refresh("environment", Upserted("environment", fs))
      BY <2>4 DEF RefreshEnvironment
    <3>2. datasets["environment"] \subseteq Feature /\ "environment" \in Datasets
      BY DEF TypeOK, Datasets, Exposed
    <3>3. Upserted("environment", fs) \in SUBSET Feature
      BY <3>2 DEF Upserted
    <3>4. Upserted("environment", fs) # {}
      BY <3>1 DEF Upserted, Refresh
    <3> QED
      BY <3>1, <3>2, <3>3, <3>4
  <2> QED
    BY <1>4, <2>1, <2>2, <2>3, <2>4
<1> QED
  BY <1>1, <1>2, <1>3, <1>4 DEF Next, StepKind

(* What the types say of the sessions.                                      *)
LEMMA LocalTypes == TypeInv => LocalInv
  BY DEF TypeInv, TypeOK, LocalInv, Steps, JobNames

(* The types of the sessions through each of the helpers of the actions.    *)
LEMMA RestTypes ==
  ASSUME LocalInv, EnrichmentAssumption, NEW s \in Session, Rest(s)
  PROVE  LocalInv'
  BY DEF LocalInv, Tagged, Rest, Goto, Rows, Forget, Steps, JobNames

LEMMA GotoTypes ==
  ASSUME LocalInv, NEW s \in Session, pc[s] # "idle", NEW p \in Steps, NEW j \in JobNames,
         p \in {"measure", "clear", "store"} => j \in Tables,
         NEW left \in SUBSET Event, NEW sc \in SUBSET Event,
         NEW f \in SUBSET (Feature \X Event), NEW d \in SUBSET Row,
         Goto(s, p, j, left, sc), Rows(s, f, d),
         held' \in [Session -> SUBSET Event],
         mem' \in [Session -> [Event -> SUBSET Keys]],
         UNCHANGED tag
  PROVE  LocalInv'
  BY DEF LocalInv, Tagged, Goto, Rows

LEMMA HoldTypes ==
  ASSUME TypeInv, NEW s \in Session, NEW es \in SUBSET Event, Hold(s, es)
  PROVE  /\ held' \in [Session -> SUBSET Event]
         /\ mem' \in [Session -> [Event -> SUBSET Keys]]
  BY DEF TypeInv, TypeOK, Hold

LEMMA ForgetTypes ==
  ASSUME TypeInv, NEW s \in Session, Forget(s)
  PROVE  /\ held' \in [Session -> SUBSET Event]
         /\ mem' \in [Session -> [Event -> SUBSET Keys]]
  BY DEF TypeInv, TypeOK, Forget

LEMMA KeepCopyTypes ==
  ASSUME TypeInv, NEW s \in Session, NEW k \in Keys, KeepCopy(s, k)
  PROVE  /\ held' \in [Session -> SUBSET Event]
         /\ mem' \in [Session -> [Event -> SUBSET Keys]]
  BY DEF TypeInv, TypeOK, KeepCopy, Copy

LEMMA ContinueTypes ==
  ASSUME TypeInv, EnrichmentAssumption, NEW s \in Session, pc[s] # "idle",
         NEW j \in JobNames, NEW left \in SUBSET Event, Continue(s, j, left)
  PROVE  LocalInv'
<1>1. CASE left = {}
  BY <1>1, LocalTypes, RestTypes DEF Continue
<1>2. CASE left # {}
  BY <1>2, LocalTypes, GotoTypes DEF Continue, LocalInv, Steps
<1> QED
  BY <1>1, <1>2

(* ... and through the actions that branch.                                 *)
LEMMA MeasureTypes ==
  ASSUME TypeInv, EnrichmentAssumption, NEW s \in Session, NEW k \in Tables,
         NEW f \in SUBSET (Feature \X scope[s]), Measure(s, k, f)
  PROVE  LocalInv'
<1>1. /\ LocalInv /\ pc[s] # "idle" /\ todo[s] \in SUBSET Event /\ scope[s] \in SUBSET Event
      /\ k \in JobNames /\ "clear" \in Steps /\ "exposure" \in JobNames
  BY LocalTypes DEF LocalInv, Measure, JobNames, Steps
<1>2. CASE k = "impact" \/ scope[s] \subseteq Live
  <2>1. f \in SUBSET (Feature \X Event) /\ {} \in SUBSET Row
    BY <1>1
  <2>2. /\ Goto(s, "clear", k, todo[s], scope[s]) /\ Rows(s, f, {})
        /\ UNCHANGED <<held, mem, tag>>
    BY <1>2 DEF Measure
  <2>3. /\ held' \in [Session -> SUBSET Event]
        /\ mem' \in [Session -> [Event -> SUBSET Keys]]
    BY <1>1, <2>2 DEF LocalInv
  <2> QED
    BY <1>1, <2>1, <2>2, <2>3, GotoTypes
<1>3. CASE ~ (k = "impact" \/ scope[s] \subseteq Live)
  BY <1>1, <1>3, ContinueTypes DEF Measure
<1> QED
  BY <1>2, <1>3

LEMMA FailTypes ==
  ASSUME TypeInv, EnrichmentAssumption, NEW s \in Session, pc[s] # "idle", Fail(s)
  PROVE  LocalInv'
<1>1. LocalInv /\ todo[s] \in SUBSET Event
  BY LocalTypes DEF LocalInv
<1>2. CASE job[s] = "impact" \/ todo[s] = {}
  BY <1>1, <1>2, RestTypes DEF Fail
<1>3. CASE ~ (job[s] = "impact" \/ todo[s] = {})
  <2> DEFINE j == IF job[s] \in Exposed THEN "exposure" ELSE job[s]
  <2>1. j \in JobNames /\ "next" \in Steps
    BY <1>1 DEF LocalInv, JobNames, Steps
  <2>2. /\ Goto(s, "next", j, todo[s], {}) /\ Rows(s, {}, {}) /\ Forget(s) /\ UNCHANGED tag
    BY <1>3 DEF Fail
  <2> QED
    BY <1>1, <2>1, <2>2, ForgetTypes, GotoTypes
<1> QED
  BY <1>2, <1>3

(* A session looks at the next event: it rests, goes on or takes it up.     *)
LEMMA NextExposureCases ==
  ASSUME NEW s \in Session, NEW e \in todo[s], NextExposure(s, e)
  PROVE  \/ Rest(s)
         \/ Continue(s, "exposure", todo[s] \ {e})
         \/ /\ e \in Live /\ DatasetsReady
            /\ Goto(s, "measure", "population", todo[s] \ {e}, {e})
            /\ Rows(s, {}, {}) /\ Hold(s, {e}) /\ UNCHANGED tag
  BY DEF NextExposure

(* ... of a semantic request likewise.                                      *)
LEMMA NextSemanticsCases ==
  ASSUME NEW s \in Session, NEW e \in todo[s], NextSemantics(s, e)
  PROVE  \/ Continue(s, job[s], todo[s] \ {e})
         \/ /\ e \in Live
            /\ \E p \in {"infer", "reinfer"} : Goto(s, p, job[s], todo[s] \ {e}, {e})
            /\ Rows(s, {}, {}) /\ Hold(s, {e}) /\ UNCHANGED tag
  BY DEF NextSemantics

LEMMA NextExposureTypes ==
  ASSUME TypeInv, EnrichmentAssumption, NEW s \in Session, NEW e \in todo[s], NextExposure(s, e)
  PROVE  LocalInv'
<1>1. /\ LocalInv /\ pc[s] # "idle" /\ todo[s] \ {e} \in SUBSET Event /\ {e} \in SUBSET Event
      /\ "exposure" \in JobNames
  BY LocalTypes DEF LocalInv, NextExposure, JobNames
<1>2. CASE Rest(s)
  BY <1>1, <1>2, RestTypes
<1>3. CASE Continue(s, "exposure", todo[s] \ {e})
  BY <1>1, <1>3, ContinueTypes
<1>4. CASE /\ Goto(s, "measure", "population", todo[s] \ {e}, {e})
           /\ Rows(s, {}, {}) /\ Hold(s, {e}) /\ UNCHANGED tag
  <2>1. "measure" \in Steps /\ "population" \in JobNames
    BY DEF Steps, JobNames, Tables, Exposed
  <2>2. "population" \in Tables
    BY DEF Tables, Exposed
  <2> QED
    BY <1>1, <1>4, <2>1, <2>2, HoldTypes, GotoTypes
<1> QED
  BY <1>2, <1>3, <1>4, NextExposureCases

LEMMA NextSemanticsTypes ==
  ASSUME TypeInv, EnrichmentAssumption, NEW s \in Session, NEW e \in todo[s], NextSemantics(s, e)
  PROVE  LocalInv'
<1>1. /\ LocalInv /\ pc[s] # "idle" /\ todo[s] \ {e} \in SUBSET Event /\ {e} \in SUBSET Event
      /\ job[s] \in JobNames
  BY LocalTypes DEF LocalInv, NextSemantics
<1>2. CASE Continue(s, job[s], todo[s] \ {e})
  BY <1>1, <1>2, ContinueTypes
<1>3. ASSUME NEW p \in {"infer", "reinfer"}, Goto(s, p, job[s], todo[s] \ {e}, {e}),
             Rows(s, {}, {}), Hold(s, {e}), UNCHANGED tag
      PROVE  LocalInv'
  <2>1. p \in Steps
    BY DEF Steps
  <2> QED
    BY <1>1, <1>3, <2>1, HoldTypes, GotoTypes
<1> QED
  BY <1>2, <1>3, NextSemanticsCases

(* A write of properties ends the call or takes it to another event.        *)
LEMMA PersistTypes ==
  ASSUME TypeInv, EnrichmentAssumption, NEW s \in Session,
         PersistExposure(s) \/ PersistSemantics(s)
  PROVE  LocalInv' /\ props' \in [Event -> SUBSET Keys] /\ overlapped' \subseteq Event
<1>1. /\ LocalInv /\ pc[s] # "idle" /\ todo[s] \in SUBSET Event /\ job[s] \in JobNames
      /\ "exposure" \in JobNames /\ "exposure" \in Keys /\ "next" \in Steps
  BY LocalTypes DEF LocalInv, PersistExposure, PersistSemantics, JobNames, Keys, Steps
<1>2. ASSUME Rest(s) PROVE LocalInv'
  BY <1>1, <1>2, RestTypes
<1>3. ASSUME Goto(s, "next", "exposure", todo[s], {}), Rows(s, {}, {}),
             KeepCopy(s, "exposure"), UNCHANGED tag
      PROVE  LocalInv'
  BY <1>1, <1>3, KeepCopyTypes, GotoTypes
<1>4. ASSUME Goto(s, "next", job[s], todo[s], {}), Rows(s, {}, {}), Forget(s), UNCHANGED tag
      PROVE  LocalInv'
  BY <1>1, <1>4, ForgetTypes, GotoTypes
<1>5. props' \in [Event -> SUBSET Keys] /\ overlapped' \subseteq Event
  <2>1. \E key \in Keys : WriteProps(s, key)
    BY DEF PersistExposure, PersistSemantics, Keys
  <2> QED
    BY <2>1 DEF TypeInv, TypeOK, WriteProps, Copy
<1> QED
  BY <1>2, <1>3, <1>4, <1>5 DEF PersistExposure, PersistSemantics

(* The types are kept.                                                      *)
LEMMA TypesKept ==
    TypeInv /\ [Next]_vars
    => TypeInv'
<1> SUFFICES ASSUME TypeInv, [Next]_vars
             PROVE  TypeInv'
  OBVIOUS
<1> USE EnrichmentAssumption DEF TypeInv, TypeOK, Tagged, Exposed, Tables, Datasets, Keys,
      Row, Statuses, Live, events, tables, local, bounds, history
<1>1. ASSUME NEW s \in Session, NEW es \in SUBSET Live, BeginImpact(s, es)
      PROVE  TypeInv'
  BY <1>1 DEF BeginImpact, Start, Goto, Rows, Hold
<1>2. ASSUME NEW s \in Session, NEW es \in SUBSET Live, BeginExposure(s, es)
      PROVE  TypeInv'
  BY <1>2 DEF BeginExposure, Start, Goto, Rows, Hold
<1>3. ASSUME NEW s \in Session, NEW es \in SUBSET Live, NEW j \in {"semantic", "relabel"},
            RequestSemantics(s, es, j)
      PROVE  TypeInv'
  BY <1>3 DEF RequestSemantics, Start, Goto, Rows
<1>4. ASSUME NEW s \in Session, RequestEvents(s) PROVE TypeInv'
  BY <1>4 DEF RequestEvents, Start, Goto, Rows
<1>5. ASSUME NEW s \in Session, DeleteEvents(s) PROVE TypeInv'
  BY <1>5 DEF DeleteEvents, Goto
<1>6. ASSUME NEW s \in Session, NEW new \in SUBSET Event, InsertEvents(s, new)
      PROVE  TypeInv'
  BY <1>6 DEF InsertEvents, Goto, About
<1>7. ASSUME NEW s \in Session, PersistGeneration(s) PROVE TypeInv'
  BY <1>7 DEF PersistGeneration, Rest, Goto, Rows, Forget
<1>8. ASSUME NEW s \in Session, NEW k \in Tables, NEW f \in SUBSET (Feature \X scope[s]),
            Measure(s, k, f)
      PROVE  TypeInv'
  BY <1>8, MeasureTypes DEF Measure, LocalInv, Steps, JobNames
<1>9. ASSUME NEW s \in Session, Clear(s) PROVE TypeInv'
  <2>1. About(job[s], scope[s]) \in SUBSET Row
    BY <1>9 DEF Clear, About
  <2> QED
    BY <1>9, <2>1 DEF Clear, Goto, Rows
<1>10. ASSUME NEW s \in Session, StoreImpact(s) PROVE TypeInv'
  BY <1>10 DEF StoreImpact, Replace, WriteProps, Rest, Goto, Rows, Forget, Kept, Clashes,
     Fresh, Copy
<1>11. ASSUME NEW s \in Session, StorePopulation(s) PROVE TypeInv'
  BY <1>11 DEF StorePopulation, StoreExposure, Replace, WriteProps, KeepCopy, Goto, Rows,
     Kept, Fresh, Copy
<1>12. ASSUME NEW s \in Session, StoreLandCover(s) PROVE TypeInv'
  BY <1>12 DEF StoreLandCover, StoreExposure, Replace, WriteProps, KeepCopy, Goto, Rows,
     Kept, Fresh, Copy
<1>13. ASSUME NEW s \in Session, StoreEnvironment(s) PROVE TypeInv'
  BY <1>13 DEF StoreEnvironment, StoreExposure, Replace, WriteProps, KeepCopy, Goto, Rows,
     Kept, Fresh, Copy
<1>14. ASSUME NEW s \in Session, PersistExposure(s) PROVE TypeInv'
  BY <1>14, PersistTypes DEF PersistExposure, LocalInv, Steps, JobNames
<1>15. ASSUME NEW s \in Session, PersistSemantics(s) PROVE TypeInv'
  BY <1>15, PersistTypes DEF PersistSemantics, LocalInv, Steps, JobNames
<1>16. ASSUME NEW s \in Session, WriteFails(s) PROVE TypeInv'
  BY <1>16, FailTypes DEF WriteFails, LocalInv, Steps, JobNames
<1>17. ASSUME NEW s \in Session, NEW e \in todo[s], NextExposure(s, e)
      PROVE  TypeInv'
  BY <1>17, NextExposureTypes DEF NextExposure, LocalInv, Steps, JobNames
<1>18. ASSUME NEW s \in Session, NEW e \in todo[s], NextSemantics(s, e)
      PROVE  TypeInv'
  BY <1>18, NextSemanticsTypes DEF NextSemantics, LocalInv, Steps, JobNames
<1>19. ASSUME NEW s \in Session, Crash(s) PROVE TypeInv'
  BY <1>19 DEF Crash, Rest, Goto, Rows, Forget
<1>20. ASSUME Reanalyse PROVE TypeInv'
  BY <1>20 DEF Reanalyse
<1>21. ASSUME NEW e \in Event, NEW v \in Statuses, Review(e, v) PROVE TypeInv'
  BY <1>21 DEF Review
<1>22. ASSUME NEW d \in Datasets, NEW stored \in SUBSET Feature, stored # {},
            Refresh(d, stored)
      PROVE  TypeInv'
  BY <1>22 DEF Refresh
<1>23. CASE UNCHANGED vars
  BY <1>23 DEF vars
<1> HIDE DEF TypeInv, TypeOK, Tagged, Exposed, Tables, Datasets, Keys, Row, Statuses, Live,
      events, tables, local, bounds, history
<1> QED
  BY <1>1, <1>2, <1>3, <1>4, <1>5, <1>6, <1>7, <1>8, <1>9, <1>10, <1>11, <1>12, <1>13,
     <1>14, <1>15, <1>16, <1>17, <1>18, <1>19, <1>20, <1>21, <1>22, <1>23, StepKinds
  DEF StepKind, TypeInv

-----------------------------------------------------------------------------
(* Labels.  A label somebody has read or stored is explained by a row or    *)
(* belongs to an event that is gone for good.                               *)
Explained(e) == status[e] = "deleted" \/ (e \in Live /\ e \in labelled)

LabelsKnown ==
    \A e \in Event :
        /\ "semantic" \in props[e] => Explained(e)
        /\ \A t \in Session : "semantic" \in mem[t][e] => Explained(e)

(* Copies are made of copies; only rows of deleted events go.               *)
LEMMA LabelsKept ==
    TypeInv /\ LabelsKnown /\ [Next]_vars
    => LabelsKnown'
<1> SUFFICES ASSUME TypeInv, LabelsKnown, [Next]_vars
             PROVE  LabelsKnown'
  OBVIOUS
<1>0. /\ status \in [Event -> Statuses \cup {"unused", "deleted"}]
      /\ props \in [Event -> SUBSET Keys]
      /\ scope \in [Session -> SUBSET Event]
      /\ mem \in [Session -> [Event -> SUBSET Keys]]
  BY DEF TypeInv, TypeOK, Steps, JobNames
<1> USE <1>0 DEF LabelsKnown, Explained, Live, Statuses, events, tables, local, history
<1>1. ASSUME NEW s \in Session, NEW es \in SUBSET Live, BeginImpact(s, es)
      PROVE  LabelsKnown'
  BY <1>1 DEF BeginImpact, Start, Hold
<1>2. ASSUME NEW s \in Session, NEW es \in SUBSET Live, BeginExposure(s, es)
      PROVE  LabelsKnown'
  BY <1>2 DEF BeginExposure, Start, Hold
<1>3. ASSUME NEW s \in Session, NEW es \in SUBSET Live, NEW j \in {"semantic", "relabel"},
            RequestSemantics(s, es, j)
      PROVE  LabelsKnown'
  BY <1>3 DEF RequestSemantics, Start
<1>4. ASSUME NEW s \in Session, RequestEvents(s) PROVE LabelsKnown'
  BY <1>4 DEF RequestEvents, Start
<1>5. ASSUME NEW s \in Session, DeleteEvents(s) PROVE LabelsKnown'
  BY <1>5 DEF DeleteEvents
<1>6. ASSUME NEW s \in Session, NEW new \in SUBSET Event, InsertEvents(s, new)
      PROVE  LabelsKnown'
  BY <1>6 DEF InsertEvents, About
<1>7. ASSUME NEW s \in Session, PersistGeneration(s) PROVE LabelsKnown'
  BY <1>7 DEF PersistGeneration, Rest, Forget
<1>8. ASSUME NEW s \in Session, NEW k \in Tables, NEW f \in SUBSET (Feature \X scope[s]),
            Measure(s, k, f)
      PROVE  LabelsKnown'
  BY <1>8 DEF Measure, Continue, Rest, Forget
<1>9. ASSUME NEW s \in Session, Clear(s) PROVE LabelsKnown'
  BY <1>9 DEF Clear
<1>10. ASSUME NEW s \in Session, StoreImpact(s) PROVE LabelsKnown'
  BY <1>10 DEF StoreImpact, Replace, WriteProps, Rest, Forget, Copy
<1>11. ASSUME NEW s \in Session, StorePopulation(s) PROVE LabelsKnown'
  BY <1>11 DEF StorePopulation, StoreExposure, Replace, WriteProps, KeepCopy,
     Copy
<1>12. ASSUME NEW s \in Session, StoreLandCover(s) PROVE LabelsKnown'
  BY <1>12 DEF StoreLandCover, StoreExposure, Replace, WriteProps, KeepCopy,
     Copy
<1>13. ASSUME NEW s \in Session, StoreEnvironment(s) PROVE LabelsKnown'
  BY <1>13 DEF StoreEnvironment, StoreExposure, Replace, WriteProps, KeepCopy,
     Copy
<1>14. ASSUME NEW s \in Session, PersistExposure(s) PROVE LabelsKnown'
  BY <1>14 DEF PersistExposure, WriteProps, KeepCopy, Rest, Forget, Copy
<1>15. ASSUME NEW s \in Session, PersistSemantics(s) PROVE LabelsKnown'
  BY <1>15 DEF PersistSemantics, WriteProps, Rest, Forget, Copy
<1>16. ASSUME NEW s \in Session, WriteFails(s) PROVE LabelsKnown'
  BY <1>16 DEF WriteFails, Fail, Rest, Forget
<1>17. ASSUME NEW s \in Session, NEW e \in todo[s], NextExposure(s, e)
      PROVE  LabelsKnown'
  <2>1. UNCHANGED <<events, tables, generated, datasets, bounds, history>> /\ e \in todo[s]
    BY <1>17 DEF NextExposure
  <2>2. CASE Rest(s)
    BY <2>1, <2>2 DEF Rest, Forget
  <2>3. CASE Continue(s, "exposure", todo[s] \ {e})
    <3>1. CASE todo[s] \ {e} = {}
      BY <2>1, <2>3, <3>1 DEF Continue, Rest, Forget
    <3>2. CASE todo[s] \ {e} # {}
      BY <2>1, <2>3, <3>2 DEF Continue
    <3> QED
      BY <3>1, <3>2
  <2>4. CASE /\ e \in Live /\ DatasetsReady
             /\ Goto(s, "measure", "population", todo[s] \ {e}, {e})
             /\ Rows(s, {}, {}) /\ Hold(s, {e}) /\ UNCHANGED tag
    BY <2>1, <2>4 DEF Hold, DatasetsReady
  <2> QED
    BY <1>17, <2>2, <2>3, <2>4, NextExposureCases
<1>18. ASSUME NEW s \in Session, NEW e \in todo[s], NextSemantics(s, e)
      PROVE  LabelsKnown'
  <2>1. UNCHANGED <<events, tables, generated, datasets, bounds, history>> /\ e \in todo[s]
    BY <1>18 DEF NextSemantics
  <2>2. CASE Continue(s, job[s], todo[s] \ {e})
    <3>1. CASE todo[s] \ {e} = {}
      BY <2>1, <2>2, <3>1 DEF Continue, Rest, Forget
    <3>2. CASE todo[s] \ {e} # {}
      BY <1>18, <2>1, <2>2, <3>2 DEF NextSemantics, Continue
    <3> QED
      BY <3>1, <3>2
  <2>3. CASE /\ e \in Live
             /\ \E p \in {"infer", "reinfer"} : Goto(s, p, job[s], todo[s] \ {e}, {e})
             /\ Rows(s, {}, {}) /\ Hold(s, {e}) /\ UNCHANGED tag
    BY <1>18, <2>1, <2>3 DEF Hold
  <2> QED
    BY <1>18, <2>2, <2>3, NextSemanticsCases
<1>19. ASSUME NEW s \in Session, Crash(s) PROVE LabelsKnown'
  BY <1>19 DEF Crash, Rest, Forget
<1>20. ASSUME Reanalyse PROVE LabelsKnown'
  BY <1>20 DEF Reanalyse
<1>21. ASSUME NEW e \in Event, NEW v \in Statuses, Review(e, v) PROVE LabelsKnown'
  BY <1>21 DEF Review
<1>22. ASSUME NEW d \in Datasets, NEW stored \in SUBSET Feature, stored # {},
            Refresh(d, stored)
      PROVE  LabelsKnown'
  BY <1>22 DEF Refresh
<1>23. CASE UNCHANGED vars
  BY <1>23 DEF vars
<1> HIDE DEF LabelsKnown, Explained, Live, Statuses, events, tables, local, history
<1> QED
  BY <1>1, <1>2, <1>3, <1>4, <1>5, <1>6, <1>7, <1>8, <1>9, <1>10, <1>11, <1>12, <1>13,
     <1>14, <1>15, <1>16, <1>17, <1>18, <1>19, <1>20, <1>21, <1>22, <1>23, StepKinds
  DEF StepKind, TypeInv

-----------------------------------------------------------------------------
(* Properties.  The copy a session writes back has everything the event     *)
(* has, unless another session was at the event while it was written.       *)
CopiesCurrent ==
    /\ \A t \in Session : \A e \in held[t] \ overlapped : props[e] \subseteq mem[t][e]
    /\ \A t \in Session :
           pc[t] \in {"measure", "clear", "store", "snapshot", "infer", "reinfer"}
           => scope[t] \subseteq held[t]

(* A writer keeps its copy as it wrote it; whoever else holds it, overlaps. *)
LEMMA CopiesKept ==
    TypeInv /\ CopiesCurrent /\ [Next]_vars
    => CopiesCurrent'
<1> SUFFICES ASSUME TypeInv, CopiesCurrent, [Next]_vars
             PROVE  CopiesCurrent'
  OBVIOUS
<1>0. /\ props \in [Event -> SUBSET Keys]
      /\ pc \in [Session -> Steps]
      /\ scope \in [Session -> SUBSET Event]
      /\ held \in [Session -> SUBSET Event]
      /\ mem \in [Session -> [Event -> SUBSET Keys]]
  BY DEF TypeInv, TypeOK, Steps, JobNames
<1> USE <1>0 DEF CopiesCurrent, Live, events, tables, local, history
<1>1. ASSUME NEW s \in Session, NEW es \in SUBSET Live, BeginImpact(s, es)
      PROVE  CopiesCurrent'
  BY <1>1 DEF BeginImpact, Start, Goto, Hold
<1>2. ASSUME NEW s \in Session, NEW es \in SUBSET Live, BeginExposure(s, es)
      PROVE  CopiesCurrent'
  BY <1>2 DEF BeginExposure, Start, Goto, Hold
<1>3. ASSUME NEW s \in Session, NEW es \in SUBSET Live, NEW j \in {"semantic", "relabel"},
            RequestSemantics(s, es, j)
      PROVE  CopiesCurrent'
  BY <1>3 DEF RequestSemantics, Start, Goto
<1>4. ASSUME NEW s \in Session, RequestEvents(s) PROVE CopiesCurrent'
  BY <1>4 DEF RequestEvents, Start, Goto
<1>5. ASSUME NEW s \in Session, DeleteEvents(s) PROVE CopiesCurrent'
  BY <1>5 DEF DeleteEvents, Goto
<1>6. ASSUME NEW s \in Session, NEW new \in SUBSET Event, InsertEvents(s, new)
      PROVE  CopiesCurrent'
  BY <1>6 DEF InsertEvents, Goto, About
<1>7. ASSUME NEW s \in Session, PersistGeneration(s) PROVE CopiesCurrent'
  BY <1>7 DEF PersistGeneration, Rest, Goto, Forget
<1>8. ASSUME NEW s \in Session, NEW k \in Tables, NEW f \in SUBSET (Feature \X scope[s]),
            Measure(s, k, f)
      PROVE  CopiesCurrent'
  <2>1. CASE k = "impact" \/ scope[s] \subseteq Live
    BY <1>8, <2>1 DEF Measure, Continue, Rest, Goto, Forget
  <2>2. CASE k # "impact" /\ ~ (scope[s] \subseteq Live) /\ todo[s] = {}
    BY <1>8, <2>2 DEF Measure, Continue, Rest, Goto, Forget
  <2>3. CASE k # "impact" /\ ~ (scope[s] \subseteq Live) /\ todo[s] # {}
    BY <1>8, <2>3 DEF Measure, Continue, Rest, Goto, Forget
  <2> QED
    BY <2>1, <2>2, <2>3
<1>9. ASSUME NEW s \in Session, Clear(s) PROVE CopiesCurrent'
  BY <1>9 DEF Clear, Goto
<1>10. ASSUME NEW s \in Session, StoreImpact(s) PROVE CopiesCurrent'
  BY <1>10 DEF StoreImpact, Replace, WriteProps, Rest, Goto, Forget, Copy
<1>11. ASSUME NEW s \in Session, StorePopulation(s) PROVE CopiesCurrent'
  BY <1>11 DEF StorePopulation, StoreExposure, Replace, WriteProps, KeepCopy, Goto,
     Copy
<1>12. ASSUME NEW s \in Session, StoreLandCover(s) PROVE CopiesCurrent'
  BY <1>12 DEF StoreLandCover, StoreExposure, Replace, WriteProps, KeepCopy, Goto,
     Copy
<1>13. ASSUME NEW s \in Session, StoreEnvironment(s) PROVE CopiesCurrent'
  BY <1>13 DEF StoreEnvironment, StoreExposure, Replace, WriteProps, KeepCopy, Goto,
     Copy
<1>14. ASSUME NEW s \in Session, PersistExposure(s) PROVE CopiesCurrent'
  <2>1. ASSUME NEW t \in Session \ {s}, NEW e \in held'[t] \ overlapped'
        PROVE  props'[e] \subseteq mem'[t][e]
    <3>1. held'[t] = held[t] /\ mem'[t] = mem[t]
      BY <1>14 DEF PersistExposure, KeepCopy, Rest, Forget
    <3>2. e \notin scope[s] /\ e \notin overlapped /\ e \in Event
      BY <1>14, <3>1, <2>1 DEF PersistExposure, WriteProps
    <3>3. props'[e] = props[e]
      BY <1>14, <3>2 DEF PersistExposure, WriteProps
    <3> QED
      BY <3>1, <3>2, <3>3, <2>1
  <2>2. ASSUME NEW e \in held'[s] \ overlapped'
        PROVE  props'[e] \subseteq mem'[s][e]
    <3>1. CASE todo[s] = {}
      BY <1>14, <2>2, <3>1 DEF PersistExposure, Rest, Forget
    <3>2. CASE todo[s] # {}
      <4>1. held' = held /\ e \in Event /\ e \notin overlapped
        BY <1>14, <2>2, <3>2 DEF PersistExposure, KeepCopy, WriteProps
      <4>2. mem'[s][e] = IF e \in scope[s] THEN Copy(s, e, "exposure") ELSE mem[s][e]
        BY <1>14, <3>2, <4>1 DEF PersistExposure, KeepCopy
      <4>3. props'[e] = IF e \in scope[s] THEN Copy(s, e, "exposure") ELSE props[e]
        BY <1>14, <4>1 DEF PersistExposure, WriteProps
      <4> QED
        BY <2>2, <4>1, <4>2, <4>3
    <3> QED
      BY <3>1, <3>2
  <2>3. ASSUME NEW t \in Session,
               pc'[t] \in {"measure", "clear", "store", "snapshot", "infer", "reinfer"}
        PROVE  scope'[t] \subseteq held'[t]
    BY <1>14, <2>3 DEF PersistExposure, KeepCopy, Rest, Forget, Goto
  <2> QED
    BY <2>1, <2>2, <2>3
<1>15. ASSUME NEW s \in Session, PersistSemantics(s) PROVE CopiesCurrent'
  <2>1. ASSUME NEW t \in Session \ {s}, NEW e \in held'[t] \ overlapped'
        PROVE  props'[e] \subseteq mem'[t][e]
    <3>1. held'[t] = held[t] /\ mem'[t] = mem[t]
      BY <1>15 DEF PersistSemantics, Rest, Forget
    <3>2. e \notin scope[s] /\ e \notin overlapped /\ e \in Event
      BY <1>15, <3>1, <2>1 DEF PersistSemantics, WriteProps
    <3>3. props'[e] = props[e]
      BY <1>15, <3>2 DEF PersistSemantics, WriteProps
    <3> QED
      BY <3>1, <3>2, <3>3, <2>1
  <2>2. ASSUME NEW e \in held'[s] \ overlapped'
        PROVE  props'[e] \subseteq mem'[s][e]
    BY <1>15, <2>2 DEF PersistSemantics, Rest, Forget
  <2>3. ASSUME NEW t \in Session,
               pc'[t] \in {"measure", "clear", "store", "snapshot", "infer", "reinfer"}
        PROVE  scope'[t] \subseteq held'[t]
    BY <1>15, <2>3 DEF PersistSemantics, Rest, Forget, Goto
  <2> QED
    BY <2>1, <2>2, <2>3
<1>16. ASSUME NEW s \in Session, WriteFails(s) PROVE CopiesCurrent'
  <2>1. CASE job[s] = "impact" \/ todo[s] = {}
    BY ZenonT(60), <1>16, <2>1 DEF WriteFails, Fail, Rest, Goto, Forget
  <2>2. CASE ~ (job[s] = "impact" \/ todo[s] = {})
    BY ZenonT(60), <1>16, <2>2 DEF WriteFails, Fail, Rest, Goto, Forget
  <2> QED
    BY <2>1, <2>2
<1>17. ASSUME NEW s \in Session, NEW e \in todo[s], NextExposure(s, e)
      PROVE  CopiesCurrent'
  <2>1. UNCHANGED <<events, tables, generated, datasets, bounds, history>> /\ e \in todo[s]
    BY <1>17 DEF NextExposure
  <2>2. CASE Rest(s)
    BY <2>1, <2>2 DEF Rest, Goto, Forget
  <2>3. CASE Continue(s, "exposure", todo[s] \ {e})
    <3>1. CASE todo[s] \ {e} = {}
      BY SMTT(20), <2>1, <2>3, <3>1 DEF Continue, Rest, Goto, Forget
    <3>2. CASE todo[s] \ {e} # {}
      BY <2>1, <2>3, <3>2 DEF Continue, Goto
    <3> QED
      BY <3>1, <3>2
  <2>4. CASE /\ e \in Live /\ DatasetsReady
             /\ Goto(s, "measure", "population", todo[s] \ {e}, {e})
             /\ Rows(s, {}, {}) /\ Hold(s, {e}) /\ UNCHANGED tag
    BY <2>1, <2>4 DEF Goto, Hold, DatasetsReady
  <2> QED
    BY <1>17, <2>2, <2>3, <2>4, NextExposureCases
<1>18. ASSUME NEW s \in Session, NEW e \in todo[s], NextSemantics(s, e)
      PROVE  CopiesCurrent'
  <2>1. UNCHANGED <<events, tables, generated, datasets, bounds, history>> /\ e \in todo[s]
    BY <1>18 DEF NextSemantics
  <2>2. CASE Continue(s, job[s], todo[s] \ {e})
    <3>1. CASE todo[s] \ {e} = {}
      BY SMTT(20), <2>1, <2>2, <3>1 DEF Continue, Rest, Goto, Forget
    <3>2. CASE todo[s] \ {e} # {}
      BY <1>18, <2>1, <2>2, <3>2 DEF NextSemantics, Continue, Goto
    <3> QED
      BY <3>1, <3>2
  <2>3. CASE /\ e \in Live
             /\ \E p \in {"infer", "reinfer"} : Goto(s, p, job[s], todo[s] \ {e}, {e})
             /\ Rows(s, {}, {}) /\ Hold(s, {e}) /\ UNCHANGED tag
    BY <1>18, <2>1, <2>3 DEF Goto, Hold
  <2> QED
    BY <1>18, <2>2, <2>3, NextSemanticsCases
<1>19. ASSUME NEW s \in Session, Crash(s) PROVE CopiesCurrent'
  BY <1>19 DEF Crash, Rest, Goto, Forget
<1>20. ASSUME Reanalyse PROVE CopiesCurrent'
  BY <1>20 DEF Reanalyse
<1>21. ASSUME NEW e \in Event, NEW v \in Statuses, Review(e, v) PROVE CopiesCurrent'
  BY <1>21 DEF Review
<1>22. ASSUME NEW d \in Datasets, NEW stored \in SUBSET Feature, stored # {},
            Refresh(d, stored)
      PROVE  CopiesCurrent'
  BY <1>22 DEF Refresh
<1>23. CASE UNCHANGED vars
  BY <1>23 DEF vars
<1> HIDE DEF CopiesCurrent, Live, events, tables, local, history
<1> QED
  BY <1>1, <1>2, <1>3, <1>4, <1>5, <1>6, <1>7, <1>8, <1>9, <1>10, <1>11, <1>12, <1>13,
     <1>14, <1>15, <1>16, <1>17, <1>18, <1>19, <1>20, <1>21, <1>22, <1>23, StepKinds
  DEF StepKind, TypeInv

-----------------------------------------------------------------------------
(* Exposures.  The snapshot key comes with the keys of its three parts, in  *)
(* every copy, since a session goes on with the copy it has written.        *)
Measures(t) == pc[t] \in {"measure", "clear", "store"} /\ job[t] \in Exposed

Done(t) == IF pc[t] = "snapshot" THEN Exposed
           ELSE IF Measures(t) /\ job[t] = "environment" THEN {"population", "land_cover"}
           ELSE IF Measures(t) /\ job[t] = "land_cover" THEN {"population"}
           ELSE {}

Together(keys) == "exposure" \in keys => Exposed \subseteq keys /\ datasets["population"] # {}

Snapshots ==
    /\ \A e \in Event : Together(props[e])
    /\ \A t \in Session, e \in Event : Together(mem[t][e])

PartsInWork ==
    /\ \A t \in Session :
           Measures(t) \/ pc[t] = "snapshot" => datasets["population"] # {}
    /\ \A t \in Session : \A e \in scope[t] : Done(t) \subseteq mem[t][e]

ExposureParts == Snapshots /\ PartsInWork

(* A session without events in work has nothing to keep together.           *)
LEMMA PartsLetGo ==
  ASSUME TypeInv, PartsInWork, NEW s \in Session, NEW p \in {"idle", "next"}, NEW j, NEW left,
         Goto(s, p, j, left, {}), \A t \in Session \ {s} : mem'[t] = mem[t], UNCHANGED datasets
  PROVE  PartsInWork'
<1>1. /\ pc \in [Session -> Steps] /\ job \in [Session -> JobNames]
      /\ scope \in [Session -> SUBSET Event]
  BY LocalTypes DEF LocalInv
<1>2. ASSUME NEW t \in Session \ {s}
      PROVE  pc'[t] = pc[t] /\ job'[t] = job[t] /\ scope'[t] = scope[t] /\ mem'[t] = mem[t]
  BY <1>1 DEF Goto
<1>3. pc'[s] = p /\ scope'[s] = {}
  BY <1>1 DEF Goto
<1>4. ASSUME NEW t \in Session, Measures(t)' \/ pc'[t] = "snapshot"
      PROVE  datasets'["population"] # {}
  BY <1>2, <1>3, <1>4 DEF PartsInWork, Measures
<1>5. ASSUME NEW t \in Session, NEW e \in scope'[t]
      PROVE  Done(t)' \subseteq mem'[t][e]
  BY <1>2, <1>3, <1>5 DEF PartsInWork, Measures, Done
<1> QED
  BY <1>4, <1>5 DEF PartsInWork

(* Only the snapshot adds its key, and to copies that have the parts.       *)
LEMMA PropsWritten ==
  ASSUME TypeInv, ExposureParts, NEW s \in Session, NEW key \in Keys, WriteProps(s, key),
         key = "exposure" => pc[s] = "snapshot", UNCHANGED datasets
  PROVE  \A e \in Event : Together(props[e])'
<1>1. /\ props \in [Event -> SUBSET Keys] /\ scope[s] \in SUBSET Event
      /\ mem[s] \in [Event -> SUBSET Keys]
  BY DEF TypeInv, TypeOK
<1> SUFFICES ASSUME NEW e \in Event PROVE Together(props[e])'
  OBVIOUS
<1>2. CASE e \in scope[s]
  <2>1. props'[e] = mem[s][e] \cup {key}
    BY <1>1, <1>2 DEF WriteProps, Copy
  <2>2. CASE key = "exposure"
    <3>1. Exposed \subseteq mem[s][e] /\ datasets["population"] # {}
      BY <1>2, <2>2 DEF ExposureParts, PartsInWork, Done
    <3> QED
      BY <2>1, <3>1 DEF Together
  <2>3. CASE key # "exposure"
    <3>1. Together(mem[s][e])
      BY DEF ExposureParts, Snapshots
    <3> QED
      BY <2>1, <2>3, <3>1 DEF Together
  <2> QED
    BY <2>2, <2>3
<1>3. CASE e \notin scope[s]
  BY <1>1, <1>3 DEF WriteProps, ExposureParts, Snapshots, Together
<1> QED
  BY <1>2, <1>3

(* Keys are added in the order of the exposure tables and never taken out.  *)
LEMMA PartsKept ==
    TypeInv /\ ExposureParts /\ [Next]_vars
    => ExposureParts'
<1> SUFFICES ASSUME TypeInv, ExposureParts, [Next]_vars
             PROVE  ExposureParts'
  OBVIOUS
<1>0. /\ props \in [Event -> SUBSET Keys]
      /\ pc \in [Session -> Steps]
      /\ job \in [Session -> JobNames]
      /\ scope \in [Session -> SUBSET Event]
      /\ mem \in [Session -> [Event -> SUBSET Keys]]
      /\ datasets \in [Datasets -> SUBSET Feature]
  BY DEF TypeInv, TypeOK, Steps, JobNames
<1> USE <1>0 DEF ExposureParts, Exposed, Datasets, Live, events, tables, local, bounds,
      history
<1>1. ASSUME NEW s \in Session, NEW es \in SUBSET Live, BeginImpact(s, es)
      PROVE  ExposureParts'
  BY <1>1 DEF BeginImpact, Start, Goto, Hold, Snapshots, PartsInWork, Together,
     Measures, Done
<1>2. ASSUME NEW s \in Session, NEW es \in SUBSET Live, BeginExposure(s, es)
      PROVE  ExposureParts'
  BY <1>2 DEF BeginExposure, Start, Goto, Hold, Snapshots, PartsInWork, Together,
     Measures, Done
<1>3. ASSUME NEW s \in Session, NEW es \in SUBSET Live, NEW j \in {"semantic", "relabel"},
            RequestSemantics(s, es, j)
      PROVE  ExposureParts'
  BY <1>3 DEF RequestSemantics, Start, Goto, Snapshots, PartsInWork, Together,
     Measures, Done
<1>4. ASSUME NEW s \in Session, RequestEvents(s) PROVE ExposureParts'
  BY <1>4 DEF RequestEvents, Start, Goto, Snapshots, PartsInWork, Together, Measures,
     Done
<1>5. ASSUME NEW s \in Session, DeleteEvents(s) PROVE ExposureParts'
  BY <1>5 DEF DeleteEvents, Goto, Snapshots, PartsInWork, Together, Measures, Done
<1>6. ASSUME NEW s \in Session, NEW new \in SUBSET Event, InsertEvents(s, new)
      PROVE  ExposureParts'
  BY <1>6 DEF InsertEvents, Goto, About, Snapshots, PartsInWork, Together, Measures, Done
<1>7. ASSUME NEW s \in Session, PersistGeneration(s) PROVE ExposureParts'
  BY <1>7 DEF PersistGeneration, Rest, Goto, Forget, Snapshots, PartsInWork, Together,
     Measures, Done
<1>8. ASSUME NEW s \in Session, NEW k \in Tables, NEW f \in SUBSET (Feature \X scope[s]),
            Measure(s, k, f)
      PROVE  ExposureParts'
  <2>1. CASE k = "impact" \/ scope[s] \subseteq Live
    BY <1>8, <2>1 DEF Measure, Goto, Snapshots, PartsInWork, Together, Measures, Done
  <2>2. CASE ~ (k = "impact" \/ scope[s] \subseteq Live)
    <3>1. CASE todo[s] = {}
      <4>1. Snapshots'
        BY <1>8, <2>2, <3>1 DEF Measure, Continue, Rest, Forget, Snapshots, Together
      <4>2. (\A t \in Session \ {s} : mem'[t] = mem[t]) /\ UNCHANGED datasets
        BY <1>8, <2>2, <3>1 DEF Measure, Continue, Rest, Forget, Snapshots, Together
      <4>3. Goto(s, "idle", "none", {}, {})
        BY <1>8, <2>2, <3>1 DEF Measure, Continue, Rest, Forget, Snapshots, Together
      <4> QED
        BY <4>1, <4>2, <4>3, PartsLetGo
    <3>2. CASE todo[s] # {}
      <4>1. Snapshots'
        BY <1>8, <2>2, <3>2 DEF Measure, Continue, Snapshots, Together
      <4>2. (\A t \in Session \ {s} : mem'[t] = mem[t]) /\ UNCHANGED datasets
        BY <1>8, <2>2, <3>2 DEF Measure, Continue, Snapshots, Together
      <4>3. Goto(s, "next", "exposure", todo[s], {})
        BY <1>8, <2>2, <3>2 DEF Measure, Continue, Snapshots, Together
      <4> QED
        BY <4>1, <4>2, <4>3, PartsLetGo
    <3> QED
      BY <3>1, <3>2
  <2> QED
    BY <2>1, <2>2
<1>9. ASSUME NEW s \in Session, Clear(s) PROVE ExposureParts'
  BY <1>9 DEF Clear, Goto, Snapshots, PartsInWork, Together, Measures, Done
<1>10. ASSUME NEW s \in Session, StoreImpact(s) PROVE ExposureParts'
  BY <1>10 DEF StoreImpact, Replace, WriteProps, Rest, Goto, Forget, Copy, Snapshots,
     PartsInWork, Together, Measures, Done
<1>11. ASSUME NEW s \in Session, StorePopulation(s) PROVE ExposureParts'
  BY <1>11 DEF StorePopulation, StoreExposure, Replace, WriteProps, KeepCopy, Goto,
     Copy, Snapshots, PartsInWork, Together, Measures, Done
<1>12. ASSUME NEW s \in Session, StoreLandCover(s) PROVE ExposureParts'
  BY <1>12 DEF StoreLandCover, StoreExposure, Replace, WriteProps, KeepCopy, Goto,
     Copy, Snapshots, PartsInWork, Together, Measures, Done
<1>13. ASSUME NEW s \in Session, StoreEnvironment(s) PROVE ExposureParts'
  BY <1>13 DEF StoreEnvironment, StoreExposure, Replace, WriteProps, KeepCopy, Goto,
     Copy, Snapshots, PartsInWork, Together, Measures, Done
<1>14. ASSUME NEW s \in Session, PersistExposure(s) PROVE ExposureParts'
  <2>1. CASE todo[s] = {}
    <3>1. Snapshots'
      <4>1. \A e \in Event : Together(props[e])'
        BY <1>14, <2>1, PropsWritten DEF PersistExposure, Keys
      <4>2. \A t \in Session, e \in Event :
                mem'[t][e] \in {mem[t][e], props'[e], {}}
        BY <1>14, <2>1 DEF PersistExposure, Rest, Forget
      <4>3. Snapshots /\ UNCHANGED datasets
        BY <1>14, <2>1 DEF PersistExposure
      <4>4. ASSUME NEW t \in Session, NEW e \in Event PROVE Together(mem[t][e])'
        <5>1. CASE mem'[t][e] = mem[t][e]
          BY <4>3, <5>1 DEF Snapshots, Together
        <5>2. CASE mem'[t][e] = props'[e]
          BY <4>1, <5>2 DEF Together
        <5>3. CASE mem'[t][e] = {}
          BY <5>3 DEF Together
        <5> QED
          BY <4>2, <5>1, <5>2, <5>3
      <4> QED
        BY <4>1, <4>4 DEF Snapshots
    <3>2. (\A t \in Session \ {s} : mem'[t] = mem[t]) /\ UNCHANGED datasets
      BY <1>14, <2>1
      DEF PersistExposure, WriteProps, Copy, Rest, Forget, Snapshots, Together, PartsInWork,
          Done
    <3>3. Goto(s, "idle", "none", {}, {})
      BY <1>14, <2>1
      DEF PersistExposure, WriteProps, Copy, Rest, Forget, Snapshots, Together, PartsInWork,
          Done
    <3> QED
      BY <3>1, <3>2, <3>3, PartsLetGo
  <2>2. CASE todo[s] # {}
    <3>1. Snapshots'
      <4>1. \A e \in Event : Together(props[e])'
        BY <1>14, <2>2, PropsWritten DEF PersistExposure, Keys
      <4>2. \A t \in Session, e \in Event :
                mem'[t][e] \in {mem[t][e], props'[e], {}}
        BY <1>14, <2>2 DEF PersistExposure, KeepCopy, Copy, WriteProps
      <4>3. Snapshots /\ UNCHANGED datasets
        BY <1>14, <2>2 DEF PersistExposure
      <4>4. ASSUME NEW t \in Session, NEW e \in Event PROVE Together(mem[t][e])'
        <5>1. CASE mem'[t][e] = mem[t][e]
          BY <4>3, <5>1 DEF Snapshots, Together
        <5>2. CASE mem'[t][e] = props'[e]
          BY <4>1, <5>2 DEF Together
        <5>3. CASE mem'[t][e] = {}
          BY <5>3 DEF Together
        <5> QED
          BY <4>2, <5>1, <5>2, <5>3
      <4> QED
        BY <4>1, <4>4 DEF Snapshots
    <3>2. (\A t \in Session \ {s} : mem'[t] = mem[t]) /\ UNCHANGED datasets
      BY <1>14, <2>2
      DEF PersistExposure, WriteProps, KeepCopy, Copy, Snapshots, Together, PartsInWork, Done
    <3>3. Goto(s, "next", "exposure", todo[s], {})
      BY <1>14, <2>2
      DEF PersistExposure, WriteProps, KeepCopy, Copy, Snapshots, Together, PartsInWork, Done
    <3> QED
      BY <3>1, <3>2, <3>3, PartsLetGo
  <2> QED
    BY <2>1, <2>2
<1>15. ASSUME NEW s \in Session, PersistSemantics(s) PROVE ExposureParts'
  <2>1. CASE todo[s] = {}
    <3>1. Snapshots'
      <4>1. \A e \in Event : Together(props[e])'
        BY <1>15, <2>1, PropsWritten DEF PersistSemantics, Keys
      <4>2. \A t \in Session, e \in Event :
                mem'[t][e] \in {mem[t][e], props'[e], {}}
        BY <1>15, <2>1 DEF PersistSemantics, Rest, Forget
      <4>3. Snapshots /\ UNCHANGED datasets
        BY <1>15, <2>1 DEF PersistSemantics
      <4>4. ASSUME NEW t \in Session, NEW e \in Event PROVE Together(mem[t][e])'
        <5>1. CASE mem'[t][e] = mem[t][e]
          BY <4>3, <5>1 DEF Snapshots, Together
        <5>2. CASE mem'[t][e] = props'[e]
          BY <4>1, <5>2 DEF Together
        <5>3. CASE mem'[t][e] = {}
          BY <5>3 DEF Together
        <5> QED
          BY <4>2, <5>1, <5>2, <5>3
      <4> QED
        BY <4>1, <4>4 DEF Snapshots
    <3>2. (\A t \in Session \ {s} : mem'[t] = mem[t]) /\ UNCHANGED datasets
      BY <1>15, <2>1 DEF PersistSemantics, WriteProps, Copy, Rest, Forget, Snapshots, Together
    <3>3. Goto(s, "idle", "none", {}, {})
      BY <1>15, <2>1 DEF PersistSemantics, WriteProps, Copy, Rest, Forget, Snapshots, Together
    <3> QED
      BY <3>1, <3>2, <3>3, PartsLetGo
  <2>2. CASE todo[s] # {}
    <3>1. Snapshots'
      <4>1. \A e \in Event : Together(props[e])'
        BY <1>15, <2>2, PropsWritten DEF PersistSemantics, Keys
      <4>2. \A t \in Session, e \in Event :
                mem'[t][e] \in {mem[t][e], props'[e], {}}
        BY <1>15, <2>2 DEF PersistSemantics, Forget
      <4>3. Snapshots /\ UNCHANGED datasets
        BY <1>15, <2>2 DEF PersistSemantics
      <4>4. ASSUME NEW t \in Session, NEW e \in Event PROVE Together(mem[t][e])'
        <5>1. CASE mem'[t][e] = mem[t][e]
          BY <4>3, <5>1 DEF Snapshots, Together
        <5>2. CASE mem'[t][e] = props'[e]
          BY <4>1, <5>2 DEF Together
        <5>3. CASE mem'[t][e] = {}
          BY <5>3 DEF Together
        <5> QED
          BY <4>2, <5>1, <5>2, <5>3
      <4> QED
        BY <4>1, <4>4 DEF Snapshots
    <3>2. (\A t \in Session \ {s} : mem'[t] = mem[t]) /\ UNCHANGED datasets
      BY <1>15, <2>2 DEF PersistSemantics, WriteProps, Copy, Forget, Snapshots, Together
    <3>3. Goto(s, "next", job[s], todo[s], {})
      BY <1>15, <2>2 DEF PersistSemantics, WriteProps, Copy, Forget, Snapshots, Together
    <3> QED
      BY <3>1, <3>2, <3>3, PartsLetGo
  <2> QED
    BY <2>1, <2>2
<1>16. ASSUME NEW s \in Session, WriteFails(s) PROVE ExposureParts'
  <2>1. CASE job[s] = "impact" \/ todo[s] = {}
    <3>1. Snapshots'
      BY <1>16, <2>1 DEF WriteFails, Fail, Rest, Forget, Snapshots, Together
    <3>2. (\A t \in Session \ {s} : mem'[t] = mem[t]) /\ UNCHANGED datasets
      BY <1>16, <2>1 DEF WriteFails, Fail, Rest, Forget, Snapshots, Together
    <3>3. Goto(s, "idle", "none", {}, {})
      BY <1>16, <2>1 DEF WriteFails, Fail, Rest, Forget, Snapshots, Together
    <3> QED
      BY <3>1, <3>2, <3>3, PartsLetGo
  <2>2. CASE ~ (job[s] = "impact" \/ todo[s] = {})
    <3>1. Snapshots'
      BY <1>16, <2>2 DEF WriteFails, Fail, Forget, Snapshots, Together
    <3>2. (\A t \in Session \ {s} : mem'[t] = mem[t]) /\ UNCHANGED datasets
      BY <1>16, <2>2 DEF WriteFails, Fail, Forget, Snapshots, Together
    <3>3. Goto(s, "next", IF job[s] \in Exposed THEN "exposure" ELSE job[s], todo[s], {})
      BY <1>16, <2>2 DEF WriteFails, Fail, Forget, Snapshots, Together
    <3> QED
      BY <3>1, <3>2, <3>3, PartsLetGo
  <2> QED
    BY <2>1, <2>2
<1>17. ASSUME NEW s \in Session, NEW e \in todo[s], NextExposure(s, e)
      PROVE  ExposureParts'
  <2>1. UNCHANGED <<events, datasets>>
    BY <1>17 DEF NextExposure
  <2>2. ASSUME Rest(s) PROVE ExposureParts'
    <3>1. Snapshots'
      BY <2>1, <2>2 DEF Rest, Forget, Snapshots, Together
    <3>2. (\A t \in Session \ {s} : mem'[t] = mem[t]) /\ UNCHANGED datasets
      BY <2>1, <2>2 DEF Rest, Forget, Snapshots, Together
    <3>3. Goto(s, "idle", "none", {}, {})
      BY <2>1, <2>2 DEF Rest, Forget, Snapshots, Together
    <3> QED
      BY <3>1, <3>2, <3>3, PartsLetGo
  <2>3. CASE Continue(s, "exposure", todo[s] \ {e})
    <3>1. CASE todo[s] \ {e} = {}
      BY <2>2, <2>3, <3>1 DEF Continue
    <3>2. CASE todo[s] \ {e} # {}
      <4>1. Snapshots'
        BY <2>1, <2>3, <3>2 DEF Continue, Snapshots, Together
      <4>2. (\A t \in Session \ {s} : mem'[t] = mem[t]) /\ UNCHANGED datasets
        BY <2>1, <2>3, <3>2 DEF Continue, Snapshots, Together
      <4>3. Goto(s, "next", "exposure", todo[s] \ {e}, {})
        BY <2>1, <2>3, <3>2 DEF Continue, Snapshots, Together
      <4> QED
        BY <4>1, <4>2, <4>3, PartsLetGo
    <3> QED
      BY <3>1, <3>2
  <2>4. CASE /\ e \in Live /\ DatasetsReady
             /\ Goto(s, "measure", "population", todo[s] \ {e}, {e})
             /\ Rows(s, {}, {}) /\ Hold(s, {e}) /\ UNCHANGED tag
    BY <2>1, <2>4
    DEF Goto, Hold, DatasetsReady, Snapshots, PartsInWork, Together, Measures, Done
  <2> QED
    BY <1>17, <2>2, <2>3, <2>4, NextExposureCases
<1>18. ASSUME NEW s \in Session, NEW e \in todo[s], NextSemantics(s, e)
      PROVE  ExposureParts'
  <2>1. UNCHANGED <<events, datasets>>
    BY <1>18 DEF NextSemantics
  <2>2. CASE Continue(s, job[s], todo[s] \ {e})
    <3>1. CASE todo[s] \ {e} = {}
      <4>1. Snapshots'
        BY <2>1, <2>2, <3>1 DEF Continue, Rest, Forget, Snapshots, Together
      <4>2. (\A t \in Session \ {s} : mem'[t] = mem[t]) /\ UNCHANGED datasets
        BY <2>1, <2>2, <3>1 DEF Continue, Rest, Forget, Snapshots, Together
      <4>3. Goto(s, "idle", "none", {}, {})
        BY <2>1, <2>2, <3>1 DEF Continue, Rest, Forget, Snapshots, Together
      <4> QED
        BY <4>1, <4>2, <4>3, PartsLetGo
    <3>2. CASE todo[s] \ {e} # {}
      <4>1. Snapshots'
        BY <2>1, <2>2, <3>2 DEF Continue, Snapshots, Together
      <4>2. (\A t \in Session \ {s} : mem'[t] = mem[t]) /\ UNCHANGED datasets
        BY <2>1, <2>2, <3>2 DEF Continue, Snapshots, Together
      <4>3. Goto(s, "next", job[s], todo[s] \ {e}, {})
        BY <2>1, <2>2, <3>2 DEF Continue, Snapshots, Together
      <4> QED
        BY <4>1, <4>2, <4>3, PartsLetGo
    <3> QED
      BY <3>1, <3>2
  <2>3. CASE /\ e \in Live
             /\ \E p \in {"infer", "reinfer"} : Goto(s, p, job[s], todo[s] \ {e}, {e})
             /\ Rows(s, {}, {}) /\ Hold(s, {e}) /\ UNCHANGED tag
    BY <1>18, <2>1, <2>3 DEF Goto, Hold, Snapshots, PartsInWork, Together, Measures, Done
  <2> QED
    BY <1>18, <2>2, <2>3, NextSemanticsCases
<1>19. ASSUME NEW s \in Session, Crash(s) PROVE ExposureParts'
  BY <1>19 DEF Crash, Rest, Goto, Forget, Snapshots, PartsInWork, Together, Measures,
     Done
<1>20. ASSUME Reanalyse PROVE ExposureParts'
  BY <1>20 DEF Reanalyse, Snapshots, PartsInWork, Together, Measures, Done
<1>21. ASSUME NEW e \in Event, NEW v \in Statuses, Review(e, v) PROVE ExposureParts'
  BY <1>21 DEF Review, Snapshots, PartsInWork, Together, Measures, Done
<1>22. ASSUME NEW d \in Datasets, NEW stored \in SUBSET Feature, stored # {},
            Refresh(d, stored)
      PROVE  ExposureParts'
  BY <1>22 DEF Refresh, Snapshots, PartsInWork, Together, Measures, Done
<1>23. CASE UNCHANGED vars
  BY <1>23 DEF vars, Snapshots, PartsInWork, Together, Measures, Done
<1> HIDE DEF ExposureParts, Exposed, Datasets, Live, events, tables, local, bounds, history
<1> QED
  BY <1>1, <1>2, <1>3, <1>4, <1>5, <1>6, <1>7, <1>8, <1>9, <1>10, <1>11, <1>12, <1>13,
     <1>14, <1>15, <1>16, <1>17, <1>18, <1>19, <1>20, <1>21, <1>22, <1>23, StepKinds
  DEF StepKind, TypeInv

-----------------------------------------------------------------------------
(* Rows.  What a session is about to delete is all there is, unless another *)
(* session has written rows about the event since.                          *)
FoundInScope ==
    \A t \in Session : pc[t] \in {"clear", "store"} => found[t] \subseteq Feature \X scope[t]

DoomedComplete ==
    \A t \in Session : pc[t] = "store" =>
        \A e \in scope[t] \ overlapped : About(job[t], {e}) \subseteq doomed[t]

OneTag ==
    \A e \in Event \ overlapped, k \in Tables :
        \A a, b \in About(k, {e}) : a[3] = b[3]

RowsApart == FoundInScope /\ DoomedComplete /\ OneTag

(* The DELETE and INSERT of one computation.                                *)
LEMMA RowsReplaced ==
  ASSUME TypeInv, CopiesCurrent, RowsApart, NEW s \in Session, NEW k \in Tables,
         NEW f \in SUBSET found[s], NEW key,
         pc[s] = "store", job[s] = k, WriteProps(s, key),
         rows' = [rows EXCEPT ![k] = Kept(s) \cup Fresh(s, f)],
         pc'[s] # "store",
         \A t \in Session \ {s} : /\ pc'[t] = pc[t] /\ job'[t] = job[t]
                                  /\ scope'[t] = scope[t] /\ doomed'[t] = doomed[t]
  PROVE  DoomedComplete' /\ OneTag'
<1>1. /\ rows \in [Tables -> SUBSET Row] /\ found[s] \subseteq Feature \X scope[s]
      /\ scope[s] \subseteq Event
  BY DEF TypeInv, TypeOK, RowsApart, FoundInScope
<1>2. rows'[k] = (rows[k] \ doomed[s]) \cup Fresh(s, f)
  BY <1>1 DEF Kept
<1>3. \A l \in Tables \ {k} : rows'[l] = rows[l]
  BY <1>1
<1>4. overlapped \subseteq overlapped'
  BY DEF WriteProps
<1>5. \A r \in Fresh(s, f) : r[2] \in scope[s] /\ r[3] = tag[s]
  BY <1>1 DEF Fresh
<1>6. ASSUME NEW e \in Event \ overlapped', NEW l \in Tables, NEW a \in rows'[l], NEW b \in rows'[l],
             a[2] = e, b[2] = e
      PROVE  a[3] = b[3]
  <2>1. CASE l # k \/ e \notin scope[s]
    <3>1. a \in rows[l] /\ b \in rows[l]
      BY <1>2, <1>3, <1>5, <1>6, <2>1
    <3> QED
      BY <1>4, <1>6, <3>1 DEF RowsApart, OneTag, About
  <2>2. CASE l = k /\ e \in scope[s]
    <3>1. \A r \in rows[k] : r[2] = e => r \in doomed[s]
      BY <1>4, <1>6, <2>2 DEF RowsApart, DoomedComplete, About
    <3>2. a \in Fresh(s, f) /\ b \in Fresh(s, f)
      BY <1>2, <1>6, <2>2, <3>1
    <3> QED
      BY <1>5, <3>2
  <2> QED
    BY <2>1, <2>2
<1>7. ASSUME NEW t \in Session, pc'[t] = "store", NEW e \in scope'[t] \ overlapped',
             NEW r \in rows'[job'[t]], r[2] = e
      PROVE  r \in doomed'[t]
  <2>1. t # s /\ pc[t] = "store" /\ job'[t] = job[t] /\ scope'[t] = scope[t] /\ doomed'[t] = doomed[t]
    BY <1>7
  <2>2. e \in held[t] /\ job[t] \in Tables
    BY <1>7, <2>1 DEF CopiesCurrent, TypeInv, Tagged
  <2>3. e \notin scope[s]
    BY <1>7, <2>1, <2>2 DEF WriteProps
  <2>4. r \in rows[job[t]]
    BY <1>2, <1>3, <1>5, <1>7, <2>1, <2>2, <2>3
  <2> QED
    BY <1>4, <1>7, <2>1, <2>4 DEF RowsApart, DoomedComplete, About
<1> QED
  BY <1>6, <1>7 DEF DoomedComplete, OneTag, About

(* Only a clear and a store touch what a session will delete and write.     *)
LEMMA RowsKept ==
    TypeInv /\ CopiesCurrent /\ RowsApart /\ [Next]_vars
    => RowsApart'
<1> SUFFICES ASSUME TypeInv, CopiesCurrent, RowsApart, [Next]_vars
             PROVE  RowsApart'
  OBVIOUS
<1>0. /\ pc \in [Session -> Steps]
      /\ job \in [Session -> JobNames]
      /\ scope \in [Session -> SUBSET Event]
      /\ found \in [Session -> SUBSET (Feature \X Event)]
      /\ doomed \in [Session -> SUBSET Row]
      /\ rows \in [Tables -> SUBSET Row]
  BY DEF TypeInv, TypeOK, Steps, JobNames
<1> USE <1>0 DEF Live, events, tables, local, bounds, history
<1>1. ASSUME NEW s \in Session, NEW es \in SUBSET Live, BeginImpact(s, es)
      PROVE  RowsApart'
  BY <1>1 DEF BeginImpact, Start, Goto, Rows, RowsApart, FoundInScope, DoomedComplete,
     OneTag, About
<1>2. ASSUME NEW s \in Session, NEW es \in SUBSET Live, BeginExposure(s, es)
      PROVE  RowsApart'
  BY <1>2 DEF BeginExposure, Start, Goto, Rows, RowsApart, FoundInScope,
     DoomedComplete, OneTag, About
<1>3. ASSUME NEW s \in Session, NEW es \in SUBSET Live, NEW j \in {"semantic", "relabel"},
            RequestSemantics(s, es, j)
      PROVE  RowsApart'
  BY <1>3 DEF RequestSemantics, Start, Goto, Rows, RowsApart, FoundInScope, DoomedComplete,
     OneTag, About
<1>4. ASSUME NEW s \in Session, RequestEvents(s) PROVE RowsApart'
  BY <1>4 DEF RequestEvents, Start, Goto, Rows, RowsApart, FoundInScope, DoomedComplete,
     OneTag, About
<1>5. ASSUME NEW s \in Session, DeleteEvents(s) PROVE RowsApart'
  BY <1>5 DEF DeleteEvents, Goto, RowsApart, FoundInScope, DoomedComplete, OneTag, About
<1>6. ASSUME NEW s \in Session, NEW new \in SUBSET Event, InsertEvents(s, new)
      PROVE  RowsApart'
  <2>1. \A k \in Tables : rows'[k] \subseteq rows[k]
    BY <1>6 DEF InsertEvents
  <2>2. \A t \in Session :
            pc'[t] \in {"clear", "store"} =>
                /\ pc'[t] = pc[t] /\ job'[t] = job[t] /\ scope'[t] = scope[t]
                /\ found'[t] = found[t] /\ doomed'[t] = doomed[t] /\ job[t] \in Tables
    BY <1>6 DEF InsertEvents, Goto, TypeInv, Tagged
  <2>3. overlapped' = overlapped
    BY <1>6 DEF InsertEvents
  <2>4. FoundInScope'
    BY <2>2 DEF RowsApart, FoundInScope
  <2>5. DoomedComplete'
    BY <2>1, <2>2, <2>3 DEF RowsApart, DoomedComplete, About
  <2>6. OneTag'
    BY <2>1, <2>3 DEF RowsApart, OneTag, About
  <2> QED
    BY <2>4, <2>5, <2>6 DEF RowsApart
<1>7. ASSUME NEW s \in Session, PersistGeneration(s) PROVE RowsApart'
  BY <1>7 DEF PersistGeneration, Rest, Goto, Rows, RowsApart, FoundInScope,
     DoomedComplete, OneTag, About
<1>8. ASSUME NEW s \in Session, NEW k \in Tables, NEW f \in SUBSET (Feature \X scope[s]),
            Measure(s, k, f)
      PROVE  RowsApart'
  <2>1. CASE k = "impact" \/ scope[s] \subseteq Live
    BY <1>8, <2>1 DEF Measure, Continue, Rest, Goto, Rows, RowsApart, FoundInScope,
       DoomedComplete, OneTag, About
  <2>2. CASE k # "impact" /\ ~ (scope[s] \subseteq Live) /\ todo[s] = {}
    BY <1>8, <2>2 DEF Measure, Continue, Rest, Goto, Rows, RowsApart, FoundInScope,
       DoomedComplete, OneTag, About
  <2>3. CASE k # "impact" /\ ~ (scope[s] \subseteq Live) /\ todo[s] # {}
    BY <1>8, <2>3 DEF Measure, Continue, Rest, Goto, Rows, RowsApart, FoundInScope,
       DoomedComplete, OneTag, About
  <2> QED
    BY <2>1, <2>2, <2>3
<1>9. ASSUME NEW s \in Session, Clear(s) PROVE RowsApart'
  BY <1>9 DEF Clear, Goto, Rows, RowsApart, FoundInScope, DoomedComplete, OneTag, About
<1>10. ASSUME NEW s \in Session, StoreImpact(s) PROVE RowsApart'
  <2>1. /\ pc[s] = "store" /\ job[s] = "impact" /\ WriteProps(s, "impact")
        /\ rows' = [rows EXCEPT !["impact"] = Kept(s) \cup Fresh(s, found[s] \ Clashes(s))]
    BY <1>10 DEF StoreImpact, Replace
  <2>2. /\ pc'[s] \notin {"clear", "store"}
        /\ \A t \in Session \ {s} :
               /\ pc'[t] = pc[t] /\ job'[t] = job[t] /\ scope'[t] = scope[t]
               /\ found'[t] = found[t] /\ doomed'[t] = doomed[t]
    BY <1>10 DEF StoreImpact, Replace, Rest, Goto, Rows
  <2>3. found[s] \ Clashes(s) \in SUBSET found[s] /\ "impact" \in Tables
    BY DEF Tables, Exposed
  <2>4. DoomedComplete' /\ OneTag'
    BY <2>1, <2>2, <2>3, RowsReplaced
  <2>5. FoundInScope'
    BY <2>2 DEF RowsApart, FoundInScope
  <2> QED
    BY <2>4, <2>5 DEF RowsApart
<1>11. ASSUME NEW s \in Session, StorePopulation(s) PROVE RowsApart'
  <2>1. /\ pc[s] = "store" /\ job[s] = "population" /\ WriteProps(s, "population")
        /\ rows' = [rows EXCEPT !["population"] = Kept(s) \cup Fresh(s, found[s])]
    BY <1>11 DEF StorePopulation, StoreExposure, Replace
  <2>2. /\ pc'[s] \notin {"clear", "store"}
        /\ \A t \in Session \ {s} :
               /\ pc'[t] = pc[t] /\ job'[t] = job[t] /\ scope'[t] = scope[t]
               /\ found'[t] = found[t] /\ doomed'[t] = doomed[t]
    BY <1>11 DEF StorePopulation, StoreExposure, Replace, Goto, Rows
  <2>3. found[s] \in SUBSET found[s] /\ "population" \in Tables
    BY DEF Tables, Exposed
  <2>4. DoomedComplete' /\ OneTag'
    BY <2>1, <2>2, <2>3, RowsReplaced
  <2>5. FoundInScope'
    BY <2>2 DEF RowsApart, FoundInScope
  <2> QED
    BY <2>4, <2>5 DEF RowsApart
<1>12. ASSUME NEW s \in Session, StoreLandCover(s) PROVE RowsApart'
  <2>1. /\ pc[s] = "store" /\ job[s] = "land_cover" /\ WriteProps(s, "land_cover")
        /\ rows' = [rows EXCEPT !["land_cover"] = Kept(s) \cup Fresh(s, found[s])]
    BY <1>12 DEF StoreLandCover, StoreExposure, Replace
  <2>2. /\ pc'[s] \notin {"clear", "store"}
        /\ \A t \in Session \ {s} :
               /\ pc'[t] = pc[t] /\ job'[t] = job[t] /\ scope'[t] = scope[t]
               /\ found'[t] = found[t] /\ doomed'[t] = doomed[t]
    BY <1>12 DEF StoreLandCover, StoreExposure, Replace, Goto, Rows
  <2>3. found[s] \in SUBSET found[s] /\ "land_cover" \in Tables
    BY DEF Tables, Exposed
  <2>4. DoomedComplete' /\ OneTag'
    BY <2>1, <2>2, <2>3, RowsReplaced
  <2>5. FoundInScope'
    BY <2>2 DEF RowsApart, FoundInScope
  <2> QED
    BY <2>4, <2>5 DEF RowsApart
<1>13. ASSUME NEW s \in Session, StoreEnvironment(s) PROVE RowsApart'
  <2>1. /\ pc[s] = "store" /\ job[s] = "environment" /\ WriteProps(s, "environment")
        /\ rows' = [rows EXCEPT !["environment"] = Kept(s) \cup Fresh(s, found[s])]
    BY <1>13 DEF StoreEnvironment, StoreExposure, Replace
  <2>2. /\ pc'[s] \notin {"clear", "store"}
        /\ \A t \in Session \ {s} :
               /\ pc'[t] = pc[t] /\ job'[t] = job[t] /\ scope'[t] = scope[t]
               /\ found'[t] = found[t] /\ doomed'[t] = doomed[t]
    BY <1>13 DEF StoreEnvironment, StoreExposure, Replace, Goto, Rows
  <2>3. found[s] \in SUBSET found[s] /\ "environment" \in Tables
    BY DEF Tables, Exposed
  <2>4. DoomedComplete' /\ OneTag'
    BY <2>1, <2>2, <2>3, RowsReplaced
  <2>5. FoundInScope'
    BY <2>2 DEF RowsApart, FoundInScope
  <2> QED
    BY <2>4, <2>5 DEF RowsApart
<1>14. ASSUME NEW s \in Session, PersistExposure(s) PROVE RowsApart'
  <2>1. CASE todo[s] = {}
    BY <1>14, <2>1 DEF PersistExposure, WriteProps, Rest, Goto, Rows,
       RowsApart, FoundInScope, DoomedComplete, OneTag, About
  <2>2. CASE todo[s] # {}
    BY <1>14, <2>2 DEF PersistExposure, WriteProps, Rest, Goto, Rows,
       RowsApart, FoundInScope, DoomedComplete, OneTag, About
  <2> QED
    BY <2>1, <2>2
<1>15. ASSUME NEW s \in Session, PersistSemantics(s) PROVE RowsApart'
  <2>1. CASE todo[s] = {}
    BY <1>15, <2>1 DEF PersistSemantics, WriteProps, Rest, Goto, Rows, RowsApart,
       FoundInScope, DoomedComplete, OneTag, About
  <2>2. CASE todo[s] # {}
    BY <1>15, <2>2 DEF PersistSemantics, WriteProps, Rest, Goto, Rows, RowsApart,
       FoundInScope, DoomedComplete, OneTag, About
  <2> QED
    BY <2>1, <2>2
<1>16. ASSUME NEW s \in Session, WriteFails(s) PROVE RowsApart'
  <2>1. CASE job[s] = "impact" \/ todo[s] = {}
    BY <1>16, <2>1 DEF WriteFails, Fail, Rest, Goto, Rows, RowsApart, FoundInScope,
       DoomedComplete, OneTag, About
  <2>2. CASE ~ (job[s] = "impact" \/ todo[s] = {})
    BY <1>16, <2>2 DEF WriteFails, Fail, Rest, Goto, Rows, RowsApart, FoundInScope,
       DoomedComplete, OneTag, About
  <2> QED
    BY <2>1, <2>2
<1>17. ASSUME NEW s \in Session, NEW e \in todo[s], NextExposure(s, e)
      PROVE  RowsApart'
  <2>1. UNCHANGED <<events, tables, generated, datasets, bounds, history>> /\ e \in todo[s]
    BY <1>17 DEF NextExposure
  <2>2. CASE Rest(s)
    BY <2>1, <2>2 DEF Rest, Goto, Rows, RowsApart, FoundInScope, DoomedComplete, OneTag, About
  <2>3. CASE Continue(s, "exposure", todo[s] \ {e})
    <3>1. CASE todo[s] \ {e} = {}
      BY <2>1, <2>3, <3>1
      DEF Continue, Rest, Goto, Rows, RowsApart, FoundInScope, DoomedComplete, OneTag, About
    <3>2. CASE todo[s] \ {e} # {}
      BY <2>1, <2>3, <3>2
      DEF Continue, Goto, Rows, RowsApart, FoundInScope, DoomedComplete, OneTag, About
    <3> QED
      BY <3>1, <3>2
  <2>4. CASE /\ e \in Live /\ DatasetsReady
             /\ Goto(s, "measure", "population", todo[s] \ {e}, {e})
             /\ Rows(s, {}, {}) /\ Hold(s, {e}) /\ UNCHANGED tag
    BY <2>1, <2>4
    DEF Goto, Rows, DatasetsReady, RowsApart, FoundInScope, DoomedComplete, OneTag, About
  <2> QED
    BY <1>17, <2>2, <2>3, <2>4, NextExposureCases
<1>18. ASSUME NEW s \in Session, NEW e \in todo[s], NextSemantics(s, e)
      PROVE  RowsApart'
  <2>1. UNCHANGED <<events, tables, generated, datasets, bounds, history>> /\ e \in todo[s]
    BY <1>18 DEF NextSemantics
  <2>2. CASE Continue(s, job[s], todo[s] \ {e})
    <3>1. CASE todo[s] \ {e} = {}
      BY <2>1, <2>2, <3>1
      DEF Continue, Rest, Goto, Rows, RowsApart, FoundInScope, DoomedComplete, OneTag, About
    <3>2. CASE todo[s] \ {e} # {}
      BY <1>18, <2>1, <2>2, <3>2
      DEF NextSemantics, Continue, Goto, Rows, RowsApart, FoundInScope, DoomedComplete, OneTag,
          About
    <3> QED
      BY <3>1, <3>2
  <2>3. CASE /\ e \in Live
             /\ \E p \in {"infer", "reinfer"} : Goto(s, p, job[s], todo[s] \ {e}, {e})
             /\ Rows(s, {}, {}) /\ Hold(s, {e}) /\ UNCHANGED tag
    BY <1>18, <2>1, <2>3 DEF Goto, Rows, RowsApart, FoundInScope, DoomedComplete, OneTag, About
  <2> QED
    BY <1>18, <2>2, <2>3, NextSemanticsCases
<1>19. ASSUME NEW s \in Session, Crash(s) PROVE RowsApart'
  BY <1>19 DEF Crash, Rest, Goto, Rows, RowsApart, FoundInScope, DoomedComplete,
     OneTag, About
<1>20. ASSUME Reanalyse PROVE RowsApart'
  BY <1>20 DEF Reanalyse, RowsApart, FoundInScope, DoomedComplete, OneTag, About
<1>21. ASSUME NEW e \in Event, NEW v \in Statuses, Review(e, v) PROVE RowsApart'
  BY <1>21 DEF Review, RowsApart, FoundInScope, DoomedComplete, OneTag, About
<1>22. ASSUME NEW d \in Datasets, NEW stored \in SUBSET Feature, stored # {},
            Refresh(d, stored)
      PROVE  RowsApart'
  BY <1>22 DEF Refresh, RowsApart, FoundInScope, DoomedComplete, OneTag, About
<1>23. CASE UNCHANGED vars
  BY <1>23 DEF vars, RowsApart, FoundInScope, DoomedComplete, OneTag, About
<1> HIDE DEF Live, events, tables, local, bounds, history
<1> QED
  BY <1>1, <1>2, <1>3, <1>4, <1>5, <1>6, <1>7, <1>8, <1>9, <1>10, <1>11, <1>12, <1>13,
     <1>14, <1>15, <1>16, <1>17, <1>18, <1>19, <1>20, <1>21, <1>22, <1>23, StepKinds
  DEF StepKind, TypeInv

-----------------------------------------------------------------------------
(* Generations.  While nothing disturbed them there is one at a time, and   *)
(* none that is needed once the summary of a complete one is stored.        *)
GenerateSteps == {"rebuild", "insert", "summarise"}

Generators == \A t \in Session : Generating(t) <=> pc[t] \in GenerateSteps

Undisturbed ==
    /\ generated # -1 => Cardinality(Live) = MaskEvents
    /\ generated # -1 => \A t \in Session : ~ Generating(t)
    /\ \A t, u \in Session : Generating(t) /\ Generating(u) => t = u
    /\ \A t \in Session : pc[t] = "rebuild" => scope[t] = Live
    /\ \A t \in Session : pc[t] = "insert" => todo[t] = Live
    /\ \A t \in Session : pc[t] = "summarise" => Cardinality(Live) = MaskEvents

Generations == Generators /\ (~ disturbed => Undisturbed)

(* A session that does not generate, or no longer does, is in nobody's way. *)
LEMMA OtherWork ==
  ASSUME TypeInv, Generations, NEW s \in Session, NEW p \in Steps \ GenerateSteps,
         NEW j \in JobNames \ {"generate"}, NEW left, NEW sc, Goto(s, p, j, left, sc),
         UNCHANGED <<status, generated>>, disturbed => disturbed', disturbed' \in BOOLEAN
  PROVE  Generations'
<1>1. /\ pc \in [Session -> Steps] /\ job \in [Session -> JobNames]
      /\ todo \in [Session -> SUBSET Event] /\ scope \in [Session -> SUBSET Event]
  BY LocalTypes DEF LocalInv
<1>2. \A t \in Session \ {s} : /\ pc'[t] = pc[t] /\ job'[t] = job[t]
                               /\ todo'[t] = todo[t] /\ scope'[t] = scope[t]
  BY <1>1 DEF Goto
<1>3. pc'[s] \notin GenerateSteps /\ job'[s] # "generate"
  BY <1>1 DEF Goto
<1>4. Live' = Live
  BY DEF Live
<1>5. Generators'
  BY <1>2, <1>3 DEF Generations, Generators, Generating
<1>6. ~ disturbed' => Undisturbed'
  BY <1>2, <1>3, <1>4 DEF Generations, Undisturbed, Generating, GenerateSteps
<1> QED
  BY <1>5, <1>6 DEF Generations

(* One generation at a time, from the request to the summary.               *)
LEMMA GenerationsKept ==
    TypeInv /\ Generations /\ [Next]_vars
    => Generations'
<1> SUFFICES ASSUME TypeInv, Generations, [Next]_vars
             PROVE  Generations'
  OBVIOUS
<1>0. /\ pc \in [Session -> Steps]
      /\ job \in [Session -> JobNames]
      /\ todo \in [Session -> SUBSET Event]
      /\ scope \in [Session -> SUBSET Event]
      /\ generated \in {-1, MaskEvents}
      /\ disturbed \in BOOLEAN
  BY DEF TypeInv, TypeOK, Steps, JobNames
<1> USE <1>0 DEF events, tables, local, bounds, history, Tables, Exposed, JobNames
<1>1. ASSUME NEW s \in Session, NEW es \in SUBSET Live, BeginImpact(s, es)
      PROVE  Generations'
  <2>1. Live' = Live
    BY <1>1 DEF BeginImpact, Live
  <2> QED
    BY <1>1, <2>1
    DEF BeginImpact, Start, Goto, Generations, Generators, Undisturbed, Generating,
        GenerateSteps
<1>2. ASSUME NEW s \in Session, NEW es \in SUBSET Live, BeginExposure(s, es)
      PROVE  Generations'
  <2>1. Live' = Live
    BY <1>2 DEF BeginExposure, Live
  <2> QED
    BY <1>2, <2>1
    DEF BeginExposure, Start, Goto, Generations, Generators, Undisturbed, Generating,
        GenerateSteps
<1>3. ASSUME NEW s \in Session, NEW es \in SUBSET Live, NEW j \in {"semantic", "relabel"},
            RequestSemantics(s, es, j)
      PROVE  Generations'
  <2>1. Live' = Live
    BY <1>3 DEF RequestSemantics, Live
  <2> QED
    BY <1>3, <2>1
    DEF RequestSemantics, Start, Goto, Generations, Generators, Undisturbed, Generating,
        GenerateSteps
<1>4. ASSUME NEW s \in Session, RequestEvents(s) PROVE Generations'
  <2>1. Live' = Live
    BY <1>4 DEF RequestEvents, Live
  <2> QED
    BY <1>4, <2>1
    DEF RequestEvents, Start, Goto, Generations, Generators, Undisturbed, Generating,
        GenerateSteps, GenerationReusable
<1>5. ASSUME NEW s \in Session, DeleteEvents(s) PROVE Generations'
  <2>1. Live' = Live
    BY <1>5 DEF DeleteEvents, Live
  <2> QED
    BY <1>5, <2>1
    DEF DeleteEvents, Goto, Generations, Generators, Undisturbed, Generating, GenerateSteps
<1>6. ASSUME NEW s \in Session, NEW new \in SUBSET Event, InsertEvents(s, new)
      PROVE  Generations'
  <2>1. /\ pc' = [pc EXCEPT ![s] = "summarise"] /\ job' = [job EXCEPT ![s] = "generate"]
        /\ pc[s] = "insert" /\ UNCHANGED <<generated, disturbed>>
    BY <1>6 DEF InsertEvents, Goto
  <2>2. Generators'
    BY <2>1 DEF Generations, Generators, Generating, GenerateSteps
  <2>3. ASSUME ~ disturbed PROVE Undisturbed'
    <3>1. Undisturbed /\ Generating(s) /\ todo[s] = Live
      BY <2>1, <2>3 DEF Generations, Generators, Undisturbed, GenerateSteps
    <3>2. \A t \in Session \ {s} : ~ Generating(t) /\ pc[t] \notin GenerateSteps
      BY <3>1 DEF Generations, Generators, Undisturbed
    <3>3. Live' = new
      <4>1. \A e \in new : e \notin Live
        BY <1>6 DEF InsertEvents, Live, Statuses
      <4>2. \A e \in Event : status'[e] = IF e \in new THEN "new"
                                         ELSE IF e \in Live THEN "deleted" ELSE status[e]
        BY <1>6, <3>1, <4>1 DEF InsertEvents
      <4> QED
        BY <4>2 DEF Live, Statuses
    <3>4. Cardinality(Live') = MaskEvents
      BY <1>6, <3>3 DEF InsertEvents
    <3>5. generated' = -1
      BY <2>1, <3>1 DEF Undisturbed
    <3> QED
      BY <2>1, <3>2, <3>4, <3>5 DEF Undisturbed, Generating, GenerateSteps
  <2> QED
    BY <2>1, <2>2, <2>3 DEF Generations
<1>7. ASSUME NEW s \in Session, PersistGeneration(s) PROVE Generations'
  <2>1. Live' = Live
    BY <1>7 DEF PersistGeneration, Live
  <2> QED
    BY <1>7, <2>1
    DEF PersistGeneration, Rest, Goto, Generations, Generators, Undisturbed, Generating,
        GenerateSteps
<1>8. ASSUME NEW s \in Session, NEW k \in Tables, NEW f \in SUBSET (Feature \X scope[s]),
            Measure(s, k, f)
      PROVE  Generations'
  <2>1. CASE k = "impact" \/ scope[s] \subseteq Live
    <3>1. /\ Goto(s, "clear", k, todo[s], scope[s])
          /\ UNCHANGED <<status, generated, disturbed>>
          /\ disturbed \in BOOLEAN
      BY <1>8, <2>1 DEF Measure
    <3> QED
      BY <3>1, OtherWork DEF Steps, GenerateSteps, JobNames, Tables, Exposed
  <2>2. CASE ~ (k = "impact" \/ scope[s] \subseteq Live)
    <3>1. CASE todo[s] = {}
      <4>1. /\ Goto(s, "idle", "none", {}, {})
            /\ UNCHANGED <<status, generated, disturbed>>
            /\ disturbed \in BOOLEAN
        BY <1>8, <2>2, <3>1 DEF Measure, Continue, Rest
      <4> QED
        BY <4>1, OtherWork DEF Steps, GenerateSteps, JobNames, Tables, Exposed
    <3>2. CASE todo[s] # {}
      <4>1. /\ Goto(s, "next", "exposure", todo[s], {})
            /\ UNCHANGED <<status, generated, disturbed>>
            /\ disturbed \in BOOLEAN
        BY <1>8, <2>2, <3>2 DEF Measure, Continue
      <4> QED
        BY <4>1, OtherWork DEF Steps, GenerateSteps, JobNames, Tables, Exposed
    <3> QED
      BY <3>1, <3>2
  <2> QED
    BY <2>1, <2>2
<1>9. ASSUME NEW s \in Session, Clear(s) PROVE Generations'
  <2>1. Live' = Live
    BY <1>9 DEF Clear, Live
  <2> QED
    BY <1>9, <2>1
    DEF Clear, Goto, Generations, Generators, Undisturbed, Generating, GenerateSteps
<1>10. ASSUME NEW s \in Session, StoreImpact(s) PROVE Generations'
  <2>1. Live' = Live
    BY <1>10 DEF StoreImpact, Live, Replace
  <2> QED
    BY <1>10, <2>1
    DEF StoreImpact, Replace, Rest, Goto, Generations, Generators, Undisturbed, Generating,
        GenerateSteps
<1>11. ASSUME NEW s \in Session, StorePopulation(s) PROVE Generations'
  <2>1. Live' = Live
    BY <1>11 DEF StorePopulation, Live, StoreExposure, Replace
  <2> QED
    BY <1>11, <2>1
    DEF StorePopulation, StoreExposure, Replace, Goto, Generations, Generators, Undisturbed,
        Generating, GenerateSteps
<1>12. ASSUME NEW s \in Session, StoreLandCover(s) PROVE Generations'
  <2>1. Live' = Live
    BY <1>12 DEF StoreLandCover, Live, StoreExposure, Replace
  <2> QED
    BY <1>12, <2>1
    DEF StoreLandCover, StoreExposure, Replace, Goto, Generations, Generators, Undisturbed,
        Generating, GenerateSteps
<1>13. ASSUME NEW s \in Session, StoreEnvironment(s) PROVE Generations'
  <2>1. Live' = Live
    BY <1>13 DEF StoreEnvironment, Live, StoreExposure, Replace
  <2> QED
    BY <1>13, <2>1
    DEF StoreEnvironment, StoreExposure, Replace, Goto, Generations, Generators, Undisturbed,
        Generating, GenerateSteps
<1>14. ASSUME NEW s \in Session, PersistExposure(s) PROVE Generations'
  <2>0. job[s] # "generate"
    BY <1>14 DEF PersistExposure, Generations, Generators, Generating, GenerateSteps
  <2>1. CASE todo[s] = {}
    <3>1. /\ Goto(s, "idle", "none", {}, {})
          /\ UNCHANGED <<status, generated, disturbed>>
          /\ disturbed \in BOOLEAN
      BY <1>14, <2>1 DEF PersistExposure, Rest
    <3> QED
      BY <3>1, OtherWork DEF Steps, GenerateSteps, JobNames, Tables, Exposed
  <2>2. CASE todo[s] # {}
    <3>1. /\ Goto(s, "next", "exposure", todo[s], {})
          /\ UNCHANGED <<status, generated, disturbed>>
          /\ disturbed \in BOOLEAN
      BY <1>14, <2>2 DEF PersistExposure
    <3> QED
      BY <2>0, <3>1, OtherWork DEF Steps, GenerateSteps, JobNames, Tables, Exposed
  <2> QED
    BY <2>1, <2>2
<1>15. ASSUME NEW s \in Session, PersistSemantics(s) PROVE Generations'
  <2>0. job[s] # "generate"
    BY <1>15 DEF PersistSemantics, Generations, Generators, Generating, GenerateSteps
  <2>1. CASE todo[s] = {}
    <3>1. /\ Goto(s, "idle", "none", {}, {})
          /\ UNCHANGED <<status, generated, disturbed>>
          /\ disturbed \in BOOLEAN
      BY <1>15, <2>1 DEF PersistSemantics, Rest
    <3> QED
      BY <3>1, OtherWork DEF Steps, GenerateSteps, JobNames, Tables, Exposed
  <2>2. CASE todo[s] # {}
    <3>1. /\ Goto(s, "next", job[s], todo[s], {})
          /\ UNCHANGED <<status, generated, disturbed>>
          /\ disturbed \in BOOLEAN
      BY <1>15, <2>2 DEF PersistSemantics
    <3> QED
      BY <2>0, <3>1, OtherWork DEF Steps, GenerateSteps, JobNames, Tables, Exposed
  <2> QED
    BY <2>1, <2>2
<1>16. ASSUME NEW s \in Session, WriteFails(s) PROVE Generations'
  <2>0. job[s] # "generate"
    BY <1>16 DEF WriteFails, Generations, Generators, Generating, GenerateSteps
  <2>1. CASE job[s] = "impact" \/ todo[s] = {}
    <3>1. /\ Goto(s, "idle", "none", {}, {})
          /\ UNCHANGED <<status, generated, disturbed>>
          /\ disturbed \in BOOLEAN
      BY <1>16, <2>1 DEF WriteFails, Fail, Rest
    <3> QED
      BY <3>1, OtherWork DEF Steps, GenerateSteps, JobNames, Tables, Exposed
  <2>2. CASE ~ (job[s] = "impact" \/ todo[s] = {})
    <3>1. /\ Goto(s, "next", IF job[s] \in Exposed THEN "exposure" ELSE job[s], todo[s], {})
          /\ UNCHANGED <<status, generated, disturbed>>
          /\ disturbed \in BOOLEAN
      BY <1>16, <2>2 DEF WriteFails, Fail
    <3> QED
      BY <2>0, <3>1, OtherWork DEF Steps, GenerateSteps, JobNames, Tables, Exposed
  <2> QED
    BY <2>1, <2>2
<1>17. ASSUME NEW s \in Session, NEW e \in todo[s], NextExposure(s, e)
      PROVE  Generations'
  <2>1. UNCHANGED <<status, generated, disturbed>> /\ disturbed \in BOOLEAN
    BY <1>17 DEF NextExposure
  <2>2. ASSUME Rest(s) PROVE Generations'
    <3>1. /\ Goto(s, "idle", "none", {}, {})
          /\ UNCHANGED <<status, generated, disturbed>>
          /\ disturbed \in BOOLEAN
      BY <2>1, <2>2 DEF Rest
    <3> QED
      BY <3>1, OtherWork DEF Steps, GenerateSteps, JobNames, Tables, Exposed
  <2>3. CASE Continue(s, "exposure", todo[s] \ {e})
    <3>1. CASE todo[s] \ {e} = {}
      BY <2>2, <2>3, <3>1 DEF Continue
    <3>2. CASE todo[s] \ {e} # {}
      <4>1. /\ Goto(s, "next", "exposure", todo[s] \ {e}, {})
            /\ UNCHANGED <<status, generated, disturbed>>
            /\ disturbed \in BOOLEAN
        BY <2>1, <2>3, <3>2 DEF Continue
      <4> QED
        BY <4>1, OtherWork DEF Steps, GenerateSteps, JobNames, Tables, Exposed
    <3> QED
      BY <3>1, <3>2
  <2>4. CASE Goto(s, "measure", "population", todo[s] \ {e}, {e})
    BY <2>1, <2>4, OtherWork DEF Steps, GenerateSteps, JobNames, Tables, Exposed
  <2> QED
    BY <1>17, <2>2, <2>3, <2>4, NextExposureCases
<1>18. ASSUME NEW s \in Session, NEW e \in todo[s], NextSemantics(s, e)
      PROVE  Generations'
  <2>1. UNCHANGED <<status, generated, disturbed>> /\ disturbed \in BOOLEAN /\ job[s] \in {"semantic", "relabel"}
    BY <1>18 DEF NextSemantics
  <2>2. CASE Continue(s, job[s], todo[s] \ {e})
    <3>1. CASE todo[s] \ {e} = {}
      <4>1. /\ Goto(s, "idle", "none", {}, {})
            /\ UNCHANGED <<status, generated, disturbed>>
            /\ disturbed \in BOOLEAN
        BY <2>1, <2>2, <3>1 DEF Continue, Rest
      <4> QED
        BY <4>1, OtherWork DEF Steps, GenerateSteps, JobNames, Tables, Exposed
    <3>2. CASE todo[s] \ {e} # {}
      <4>1. /\ Goto(s, "next", job[s], todo[s] \ {e}, {})
            /\ UNCHANGED <<status, generated, disturbed>>
            /\ disturbed \in BOOLEAN
        BY <2>1, <2>2, <3>2 DEF Continue
      <4> QED
        BY <2>1, <4>1, OtherWork DEF Steps, GenerateSteps, JobNames, Tables, Exposed
    <3> QED
      BY <3>1, <3>2
  <2>3. ASSUME NEW p \in {"infer", "reinfer"}, Goto(s, p, job[s], todo[s] \ {e}, {e})
        PROVE  Generations'
    BY <2>1, <2>3, OtherWork DEF Steps, GenerateSteps, JobNames, Tables, Exposed
  <2> QED
    BY <1>18, <2>2, <2>3, NextSemanticsCases
<1>19. ASSUME NEW s \in Session, Crash(s) PROVE Generations'
  <2>1. Live' = Live
    BY <1>19 DEF Crash, Live
  <2> QED
    BY <1>19, <2>1
    DEF Crash, Rest, Goto, Generations, Generators, Undisturbed, Generating, GenerateSteps
<1>20. ASSUME Reanalyse PROVE Generations'
  <2>1. Live' = Live
    BY <1>20 DEF Reanalyse, Live
  <2> QED
    BY <1>20, <2>1
    DEF Reanalyse, Generations, Generators, Undisturbed, Generating, GenerateSteps
<1>21. ASSUME NEW e \in Event, NEW v \in Statuses, Review(e, v) PROVE Generations'
  <2>1. Live' = Live
    BY <1>21 DEF Review, Live, Statuses
  <2> QED
    BY <1>21, <2>1 DEF Review, Generations, Generators, Undisturbed, Generating, GenerateSteps
<1>22. ASSUME NEW d \in Datasets, NEW stored \in SUBSET Feature, stored # {},
            Refresh(d, stored)
      PROVE  Generations'
  <2>1. Live' = Live /\ UNCHANGED <<generated, local, disturbed>>
    BY <1>22 DEF Refresh, Live
  <2> QED
    BY <2>1 DEF Generations, Generators, Undisturbed, Generating, GenerateSteps
<1>23. CASE UNCHANGED vars
  BY <1>23 DEF vars, Generations, Generators, Undisturbed, Generating, GenerateSteps, Live
<1> HIDE DEF events, tables, local, bounds, history, Tables, Exposed, JobNames
<1> QED
  BY <1>1, <1>2, <1>3, <1>4, <1>5, <1>6, <1>7, <1>8, <1>9, <1>10, <1>11, <1>12, <1>13,
     <1>14, <1>15, <1>16, <1>17, <1>18, <1>19, <1>20, <1>21, <1>22, <1>23, StepKinds
  DEF StepKind, TypeInv

-----------------------------------------------------------------------------
(* What a step does to the properties and to the set of events.             *)
EventsStay == generated # -1 /\ ~ disturbed' => Live' = Live

KeysKept == \A e \in (Live \cap Live') \ overlapped' : props[e] \subseteq props'[e]

(* A writer's copy has the keys of the event.                               *)
LEMMA KeysStay ==
    TypeInv /\ CopiesCurrent /\ [Next]_vars
    => KeysKept
<1> SUFFICES ASSUME TypeInv, CopiesCurrent, [Next]_vars
             PROVE  KeysKept
  OBVIOUS
<1>0. /\ props \in [Event -> SUBSET Keys]
      /\ scope \in [Session -> SUBSET Event]
  BY DEF TypeInv, TypeOK, Steps, JobNames
<1> USE <1>0 DEF events, tables, local, bounds, history
<1>1. ASSUME NEW s \in Session, NEW es \in SUBSET Live, BeginImpact(s, es)
      PROVE  KeysKept
  BY <1>1 DEF BeginImpact, KeysKept
<1>2. ASSUME NEW s \in Session, NEW es \in SUBSET Live, BeginExposure(s, es)
      PROVE  KeysKept
  BY <1>2 DEF BeginExposure, KeysKept
<1>3. ASSUME NEW s \in Session, NEW es \in SUBSET Live, NEW j \in {"semantic", "relabel"},
            RequestSemantics(s, es, j)
      PROVE  KeysKept
  BY <1>3 DEF RequestSemantics, KeysKept
<1>4. ASSUME NEW s \in Session, RequestEvents(s) PROVE KeysKept
  BY <1>4 DEF RequestEvents, KeysKept
<1>5. ASSUME NEW s \in Session, DeleteEvents(s) PROVE KeysKept
  BY <1>5 DEF DeleteEvents, KeysKept
<1>6. ASSUME NEW s \in Session, NEW new \in SUBSET Event, InsertEvents(s, new)
      PROVE  KeysKept
  <2>1. ASSUME NEW e \in Live, e \in Live' PROVE props'[e] = props[e]
    <3>1. e \notin new
      BY <1>6 DEF InsertEvents, Live, Statuses
    <3>2. e \notin todo[s]
      BY <1>6, <2>1, <3>1 DEF InsertEvents, Live, Statuses
    <3> QED
      BY <1>6, <3>2 DEF InsertEvents, Live
  <2> QED
    BY <2>1 DEF KeysKept
<1>7. ASSUME NEW s \in Session, PersistGeneration(s) PROVE KeysKept
  BY <1>7 DEF PersistGeneration, KeysKept
<1>8. ASSUME NEW s \in Session, NEW k \in Tables, NEW f \in SUBSET (Feature \X scope[s]),
            Measure(s, k, f)
      PROVE  KeysKept
  BY <1>8 DEF Measure, KeysKept
<1>9. ASSUME NEW s \in Session, Clear(s) PROVE KeysKept
  BY <1>9 DEF Clear, KeysKept
<1>10. ASSUME NEW s \in Session, StoreImpact(s) PROVE KeysKept
  <2>1. WriteProps(s, "impact") /\ scope[s] \subseteq held[s] /\ overlapped' = overlapped \cup
            {e \in scope[s] : \E t \in Session \ {s} : e \in held[t]}
    BY <1>10 DEF StoreImpact, Replace, WriteProps, CopiesCurrent
  <2>2. ASSUME NEW e \in Event \ overlapped' PROVE props[e] \subseteq props'[e]
    <3>1. CASE e \in scope[s]
      BY <2>1, <2>2, <3>1 DEF WriteProps, Copy, CopiesCurrent
    <3>2. CASE e \notin scope[s]
      BY <2>1, <3>2 DEF WriteProps
    <3> QED
      BY <3>1, <3>2
  <2> QED
    BY <2>2 DEF KeysKept, Live
<1>11. ASSUME NEW s \in Session, StorePopulation(s) PROVE KeysKept
  <2>1. WriteProps(s, "population") /\ scope[s] \subseteq held[s] /\ overlapped' = overlapped \cup
            {e \in scope[s] : \E t \in Session \ {s} : e \in held[t]}
    BY <1>11 DEF StorePopulation, StoreExposure, Replace, WriteProps, CopiesCurrent
  <2>2. ASSUME NEW e \in Event \ overlapped' PROVE props[e] \subseteq props'[e]
    <3>1. CASE e \in scope[s]
      BY <2>1, <2>2, <3>1 DEF WriteProps, Copy, CopiesCurrent
    <3>2. CASE e \notin scope[s]
      BY <2>1, <3>2 DEF WriteProps
    <3> QED
      BY <3>1, <3>2
  <2> QED
    BY <2>2 DEF KeysKept, Live
<1>12. ASSUME NEW s \in Session, StoreLandCover(s) PROVE KeysKept
  <2>1. WriteProps(s, "land_cover") /\ scope[s] \subseteq held[s] /\ overlapped' = overlapped \cup
            {e \in scope[s] : \E t \in Session \ {s} : e \in held[t]}
    BY <1>12 DEF StoreLandCover, StoreExposure, Replace, WriteProps, CopiesCurrent
  <2>2. ASSUME NEW e \in Event \ overlapped' PROVE props[e] \subseteq props'[e]
    <3>1. CASE e \in scope[s]
      BY <2>1, <2>2, <3>1 DEF WriteProps, Copy, CopiesCurrent
    <3>2. CASE e \notin scope[s]
      BY <2>1, <3>2 DEF WriteProps
    <3> QED
      BY <3>1, <3>2
  <2> QED
    BY <2>2 DEF KeysKept, Live
<1>13. ASSUME NEW s \in Session, StoreEnvironment(s) PROVE KeysKept
  <2>1. WriteProps(s, "environment") /\ scope[s] \subseteq held[s] /\ overlapped' = overlapped \cup
            {e \in scope[s] : \E t \in Session \ {s} : e \in held[t]}
    BY <1>13 DEF StoreEnvironment, StoreExposure, Replace, WriteProps, CopiesCurrent
  <2>2. ASSUME NEW e \in Event \ overlapped' PROVE props[e] \subseteq props'[e]
    <3>1. CASE e \in scope[s]
      BY <2>1, <2>2, <3>1 DEF WriteProps, Copy, CopiesCurrent
    <3>2. CASE e \notin scope[s]
      BY <2>1, <3>2 DEF WriteProps
    <3> QED
      BY <3>1, <3>2
  <2> QED
    BY <2>2 DEF KeysKept, Live
<1>14. ASSUME NEW s \in Session, PersistExposure(s) PROVE KeysKept
  <2>1. WriteProps(s, "exposure") /\ scope[s] \subseteq held[s] /\ overlapped' = overlapped \cup
            {e \in scope[s] : \E t \in Session \ {s} : e \in held[t]}
    BY <1>14 DEF PersistExposure, WriteProps, CopiesCurrent
  <2>2. ASSUME NEW e \in Event \ overlapped' PROVE props[e] \subseteq props'[e]
    <3>1. CASE e \in scope[s]
      BY <2>1, <2>2, <3>1 DEF WriteProps, Copy, CopiesCurrent
    <3>2. CASE e \notin scope[s]
      BY <2>1, <3>2 DEF WriteProps
    <3> QED
      BY <3>1, <3>2
  <2> QED
    BY <2>2 DEF KeysKept, Live
<1>15. ASSUME NEW s \in Session, PersistSemantics(s) PROVE KeysKept
  <2>1. WriteProps(s, "semantic") /\ scope[s] \subseteq held[s] /\ overlapped' = overlapped \cup
            {e \in scope[s] : \E t \in Session \ {s} : e \in held[t]}
    BY <1>15 DEF PersistSemantics, WriteProps, CopiesCurrent
  <2>2. ASSUME NEW e \in Event \ overlapped' PROVE props[e] \subseteq props'[e]
    <3>1. CASE e \in scope[s]
      BY <2>1, <2>2, <3>1 DEF WriteProps, Copy, CopiesCurrent
    <3>2. CASE e \notin scope[s]
      BY <2>1, <3>2 DEF WriteProps
    <3> QED
      BY <3>1, <3>2
  <2> QED
    BY <2>2 DEF KeysKept, Live
<1>16. ASSUME NEW s \in Session, WriteFails(s) PROVE KeysKept
  BY <1>16 DEF WriteFails, KeysKept
<1>17. ASSUME NEW s \in Session, NEW e \in todo[s], NextExposure(s, e)
      PROVE  KeysKept
  BY <1>17 DEF NextExposure, KeysKept
<1>18. ASSUME NEW s \in Session, NEW e \in todo[s], NextSemantics(s, e)
      PROVE  KeysKept
  BY <1>18 DEF NextSemantics, KeysKept
<1>19. ASSUME NEW s \in Session, Crash(s) PROVE KeysKept
  BY <1>19 DEF Crash, KeysKept
<1>20. ASSUME Reanalyse PROVE KeysKept
  BY <1>20 DEF Reanalyse, KeysKept
<1>21. ASSUME NEW e \in Event, NEW v \in Statuses, Review(e, v) PROVE KeysKept
  BY <1>21 DEF Review, KeysKept
<1>22. ASSUME NEW d \in Datasets, NEW stored \in SUBSET Feature, stored # {},
            Refresh(d, stored)
      PROVE  KeysKept
  BY <1>22 DEF Refresh, KeysKept
<1>23. CASE UNCHANGED vars
  BY <1>23 DEF vars, KeysKept
<1> HIDE DEF events, tables, local, bounds, history
<1> QED
  BY <1>1, <1>2, <1>3, <1>4, <1>5, <1>6, <1>7, <1>8, <1>9, <1>10, <1>11, <1>12, <1>13,
     <1>14, <1>15, <1>16, <1>17, <1>18, <1>19, <1>20, <1>21, <1>22, <1>23, StepKinds
  DEF StepKind, TypeInv

(* Only a generation changes the set, and there is none.                    *)
LEMMA LiveStays ==
    TypeInv /\ Generations /\ [Next]_vars
    => EventsStay
<1> SUFFICES ASSUME TypeInv, Generations, [Next]_vars
             PROVE  EventsStay
  OBVIOUS
<1>0. /\ status \in [Event -> Statuses \cup {"unused", "deleted"}]
  BY DEF TypeInv, TypeOK, Steps, JobNames
<1> USE <1>0 DEF events, tables, local, bounds, history
<1>1. ASSUME NEW s \in Session, NEW es \in SUBSET Live, BeginImpact(s, es)
      PROVE  EventsStay
  BY <1>1 DEF BeginImpact, EventsStay, Live
<1>2. ASSUME NEW s \in Session, NEW es \in SUBSET Live, BeginExposure(s, es)
      PROVE  EventsStay
  BY <1>2 DEF BeginExposure, EventsStay, Live
<1>3. ASSUME NEW s \in Session, NEW es \in SUBSET Live, NEW j \in {"semantic", "relabel"},
            RequestSemantics(s, es, j)
      PROVE  EventsStay
  BY <1>3 DEF RequestSemantics, EventsStay, Live
<1>4. ASSUME NEW s \in Session, RequestEvents(s) PROVE EventsStay
  BY <1>4 DEF RequestEvents, EventsStay, Live
<1>5. ASSUME NEW s \in Session, DeleteEvents(s) PROVE EventsStay
  BY <1>5 DEF DeleteEvents, EventsStay, Live
<1>6. ASSUME NEW s \in Session, NEW new \in SUBSET Event, InsertEvents(s, new)
      PROVE  EventsStay
  <2>1. Generating(s) /\ disturbed' = disturbed
    BY <1>6 DEF InsertEvents, Generations, Generators, GenerateSteps
  <2> QED
    BY <2>1 DEF EventsStay, Generations, Undisturbed
<1>7. ASSUME NEW s \in Session, PersistGeneration(s) PROVE EventsStay
  BY <1>7 DEF PersistGeneration, EventsStay, Live
<1>8. ASSUME NEW s \in Session, NEW k \in Tables, NEW f \in SUBSET (Feature \X scope[s]),
            Measure(s, k, f)
      PROVE  EventsStay
  BY <1>8 DEF Measure, EventsStay, Live
<1>9. ASSUME NEW s \in Session, Clear(s) PROVE EventsStay
  BY <1>9 DEF Clear, EventsStay, Live
<1>10. ASSUME NEW s \in Session, StoreImpact(s) PROVE EventsStay
  BY <1>10 DEF StoreImpact, Replace, EventsStay, Live
<1>11. ASSUME NEW s \in Session, StorePopulation(s) PROVE EventsStay
  BY <1>11 DEF StorePopulation, StoreExposure, Replace, EventsStay, Live
<1>12. ASSUME NEW s \in Session, StoreLandCover(s) PROVE EventsStay
  BY <1>12 DEF StoreLandCover, StoreExposure, Replace, EventsStay, Live
<1>13. ASSUME NEW s \in Session, StoreEnvironment(s) PROVE EventsStay
  BY <1>13 DEF StoreEnvironment, StoreExposure, Replace, EventsStay, Live
<1>14. ASSUME NEW s \in Session, PersistExposure(s) PROVE EventsStay
  BY <1>14 DEF PersistExposure, EventsStay, Live
<1>15. ASSUME NEW s \in Session, PersistSemantics(s) PROVE EventsStay
  BY <1>15 DEF PersistSemantics, EventsStay, Live
<1>16. ASSUME NEW s \in Session, WriteFails(s) PROVE EventsStay
  BY <1>16 DEF WriteFails, EventsStay, Live
<1>17. ASSUME NEW s \in Session, NEW e \in todo[s], NextExposure(s, e)
      PROVE  EventsStay
  BY <1>17 DEF NextExposure, EventsStay, Live
<1>18. ASSUME NEW s \in Session, NEW e \in todo[s], NextSemantics(s, e)
      PROVE  EventsStay
  BY <1>18 DEF NextSemantics, EventsStay, Live
<1>19. ASSUME NEW s \in Session, Crash(s) PROVE EventsStay
  BY <1>19 DEF Crash, EventsStay, Live
<1>20. ASSUME Reanalyse PROVE EventsStay
  BY <1>20 DEF Reanalyse, EventsStay, Live
<1>21. ASSUME NEW e \in Event, NEW v \in Statuses, Review(e, v) PROVE EventsStay
  BY <1>21 DEF Review, EventsStay, Live, Statuses
<1>22. ASSUME NEW d \in Datasets, NEW stored \in SUBSET Feature, stored # {},
            Refresh(d, stored)
      PROVE  EventsStay
  BY <1>22 DEF Refresh, EventsStay, Live
<1>23. CASE UNCHANGED vars
  BY <1>23 DEF vars, EventsStay, Live
<1> HIDE DEF events, tables, local, bounds, history
<1> QED
  BY <1>1, <1>2, <1>3, <1>4, <1>5, <1>6, <1>7, <1>8, <1>9, <1>10, <1>11, <1>12, <1>13,
     <1>14, <1>15, <1>16, <1>17, <1>18, <1>19, <1>20, <1>21, <1>22, <1>23, StepKinds
  DEF StepKind, TypeInv

-----------------------------------------------------------------------------
(* Everything together.                                                     *)
Sound == /\ LabelsKnown
         /\ CopiesCurrent
         /\ ExposureParts
         /\ RowsApart
         /\ Generations

(* No session is at work, and an earlier generation was complete.           *)
LEMMA Initially == Init => TypeInv /\ Sound
<1> SUFFICES ASSUME Init PROVE TypeInv /\ Sound
  OBVIOUS
<1>1. PICK old \in SUBSET Event :
          /\ Cardinality(old) \in {0, MaskEvents}
          /\ status = [e \in Event |-> IF e \in old THEN "new" ELSE "unused"]
          /\ generated = IF old = {} THEN -1 ELSE MaskEvents
  BY DEF Init
<1>2. TypeInv
  <2>1. Tagged
    BY DEF Init, Tagged
  <2>2. /\ status \in [Event -> Statuses \cup {"unused", "deleted"}]
        /\ generated \in {-1, MaskEvents}
    BY <1>1 DEF Statuses
  <2>3. LocalInv
    BY <2>1, EnrichmentAssumption DEF Init, LocalInv, Steps, JobNames
  <2>4. datasets \in [Datasets -> SUBSET Feature]
    BY DEF Init
  <2>5. /\ props \in [Event -> SUBSET Keys] /\ rows \in [Tables -> SUBSET Row]
        /\ labelled \subseteq Event /\ overlapped \subseteq Event /\ disturbed \in BOOLEAN
    BY DEF Init
  <2>6. started \in 0..MaxOps /\ refreshed \in 0..MaxRefreshes
    BY EnrichmentAssumption DEF Init
  <2> QED
    BY <2>1, <2>2, <2>3, <2>4, <2>5, <2>6 DEF TypeInv, TypeOK, LocalInv, Steps, JobNames
<1>3. LabelsKnown /\ CopiesCurrent
  BY DEF Init, LabelsKnown, CopiesCurrent
<1>4. ExposureParts
  BY DEF Init, ExposureParts, Snapshots, PartsInWork, Together, Measures, Done
<1>5. RowsApart
  BY DEF Init, RowsApart, FoundInScope, DoomedComplete, OneTag, About
<1>6. Generators /\ \A t \in Session : ~ Generating(t) /\ pc[t] \notin GenerateSteps
  BY DEF Init, Generators, Generating, GenerateSteps
<1>7. Live = old
  BY <1>1 DEF Live, Statuses
<1>8. old # {} => Cardinality(old) # 0
  BY FS_EmptySet, FS_Subset, EnrichmentAssumption
<1>9. Generations
  BY <1>1, <1>6, <1>7, <1>8 DEF Generations, Undisturbed, GenerateSteps
<1> QED
  BY <1>2, <1>3, <1>4, <1>5, <1>9 DEF Sound

(* All of it holds in every state.                                          *)
LEMMA SoundInvariant == Spec => [](TypeInv /\ Sound)
<1>1. TypeInv /\ Sound /\ [Next]_vars => (TypeInv /\ Sound)'
  BY TypesKept, LabelsKept, CopiesKept, PartsKept, RowsKept, GenerationsKept DEF Sound
<1> QED
  BY <1>1, Initially, PTL DEF Spec

(* The model keeps its types.                                               *)
THEOREM TypeCorrect == Spec => []TypeOK
<1>1. TypeInv => TypeOK
  BY DEF TypeInv
<1> QED
  BY <1>1, SoundInvariant, PTL

(* A label never outlives the analysis row it comes from, although sessions *)
(* write back whole copies of the properties that may be old: only the      *)
(* deletion of the event removes the row, and an event does not come back.  *)
THEOREM LabelHasRowAlways == Spec => []LabelHasRow
<1>1. Sound => LabelHasRow
  BY DEF Sound, LabelsKnown, Explained, LabelHasRow, Live, Statuses
<1> QED
  BY <1>1, SoundInvariant, PTL

(* A stored exposure can be read back: a copy with the snapshot has its     *)
(* parts, and no refresh empties the population dataset.                    *)
THEOREM StoredExposureReadableAlways == Spec => []StoredExposureReadable
<1>1. Sound => StoredExposureReadable
  BY DEF Sound, ExposureParts, Snapshots, Together, StoredExposureReadable, ExposureReadable,
         PartReadable, Live
<1> QED
  BY <1>1, SoundInvariant, PTL

(* DELETE and INSERT leave the rows of one computation, unless two sessions *)
(* were at the event.                                                       *)
THEOREM RowsOfOneComputationAlways == Spec => []RowsOfOneComputation
<1>1. Sound => RowsOfOneComputation
  BY DEF Sound, RowsApart, OneTag, RowsOfOneComputation, Live
<1> QED
  BY <1>1, SoundInvariant, PTL

(* Keys of the JSON column are lost to nothing but overlapping sessions:    *)
(* otherwise the copy written back has all the event has.                   *)
THEOREM KeysLostOnlyByOverlapAlways == Spec => KeysLostOnlyByOverlap
<1>1. TypeInv /\ Sound /\ [Next]_vars
      => [\A e \in (Live \cap Live') \ overlapped' : props[e] \subseteq props'[e]]_vars
  BY KeysStay DEF Sound, KeysKept
<1> QED
  BY <1>1, SoundInvariant, PTL DEF Spec, KeysLostOnlyByOverlap

(* A complete generation is answered from the table: no request removes or  *)
(* adds events until the analysis is made again or a generation is cut off. *)
THEOREM CompleteGenerationStaysAlways == Spec => CompleteGenerationStays
<1>1. TypeInv /\ Sound /\ [Next]_vars => [generated # -1 /\ ~disturbed' => Live' = Live]_vars
  BY LiveStays DEF Sound, EventsStay
<1> QED
  BY <1>1, SoundInvariant, PTL DEF Spec, CompleteGenerationStays
==============================================================================
