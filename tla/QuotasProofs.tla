----------------------------- MODULE QuotasProofs -----------------------------
(***************************************************************************)
(* Proofs about Quotas, for any number of requests, monitors, limits,       *)
(* changes and outages.                                                     *)
(***************************************************************************)
EXTENDS Quotas, FiniteSetTheorems, TLAPS

(* The model keeps its types: every request is at a step of its own route,  *)
(* and only monitors that exist have a job in work.                         *)
THEOREM TypeCorrect == Spec => []TypeOK
<1>1. Init => TypeOK
  BY QuotasAssumption DEF Init, TypeOK, Quota, Daily, RateLimited, Kind
<1>2. TypeOK /\ [Next]_vars => TypeOK'
  <2> SUFFICES ASSUME TypeOK, [Next]_vars PROVE TypeOK'
    OBVIOUS
  <2> USE QuotasAssumption
      DEF TypeOK, Quota, Daily, RateLimited, Kind, database, bounds, history
  <2>1. ASSUME NEW c \in Client, NEW j \in Kind, Arrive(c, j) PROVE TypeOK'
    BY <2>1 DEF Arrive
  <2>2. ASSUME NEW c \in Client, CountRate(c) PROVE TypeOK'
    BY <2>2 DEF CountRate, Admit, Goto, End, Plus
  <2>3. ASSUME NEW c \in Client, RateUnknown(c) PROVE TypeOK'
    BY <2>3 DEF RateUnknown, Admit, Goto, Plus
  <2>4. ASSUME NEW c \in Client, NoRate(c) PROVE TypeOK'
    BY <2>4 DEF NoRate, Admit, Goto, Plus
  <2>5. ASSUME NEW c \in Client, CheckQuota(c) PROVE TypeOK'
    BY <2>5 DEF CheckQuota, Goto, End
  <2>6. ASSUME NEW c \in Client, Perform(c) PROVE TypeOK'
    BY <2>6 DEF Perform, CreateMonitor, StartRun, StoreResults, Goto, Plus, Existing
  <2>7. ASSUME NEW c \in Client, Refuse(c) PROVE TypeOK'
    BY <2>7 DEF Refuse, End
  <2>8. ASSUME NEW c \in Client, Record(c) PROVE TypeOK'
    BY <2>8 DEF Record, End, Plus
  <2>9. ASSUME NEW c \in Client, NotRecorded(c) PROVE TypeOK'
    BY <2>9 DEF NotRecorded, End, Plus
  <2>10. ASSUME NEW m \in Monitor, ScheduledRun(m) PROVE TypeOK'
    BY <2>10 DEF ScheduledRun, Change, Active
  <2>11. ASSUME NEW m \in Monitor, JobEnds(m) PROVE TypeOK'
    BY <2>11 DEF JobEnds
  <2>12. ASSUME NEW m \in Monitor, Delete(m) PROVE TypeOK'
    BY <2>12 DEF Delete, Change, Existing
  <2>13. ASSUME NEW m \in Monitor, NEW s \in {"active", "paused"}, PatchStatus(m, s) PROVE TypeOK'
    BY <2>13 DEF PatchStatus, Change, Existing
  <2>14. ASSUME NEW new \in Override, SetOverride(new) PROVE TypeOK'
    BY <2>14 DEF SetOverride, Change
  <2>15. ASSUME Midnight PROVE TypeOK'
    BY <2>15 DEF Midnight, Change
  <2>16. ASSUME NextWindow PROVE TypeOK'
    BY <2>16 DEF NextWindow, Change
  <2>17. CASE UNCHANGED vars
    BY <2>17 DEF vars
  <2>18. ASSUME NEW m \in Monitor, JobReturns(m) PROVE TypeOK'
    BY <2>18 DEF JobReturns, Change
  <2> QED
    BY <2>1, <2>2, <2>3, <2>4, <2>5, <2>6, <2>7, <2>8, <2>9, <2>10, <2>11, <2>12, <2>13, <2>14, <2>15, <2>16, <2>17, <2>18 DEF Next
<1> QED
  BY <1>1, <1>2, PTL DEF Spec

-----------------------------------------------------------------------------
(* Rate limits.                                                             *)

(* The counter counts every request that was let through, but for those of  *)
(* an outage; it stops letting requests through at the limit.               *)
Counted ==
    \A k \in RateLimited : /\ admitted[k] <= count[k] + outages
                           /\ admitted[k] <= RateLimit + outages

(* No window lets through more requests of a route than the rate limit and  *)
(* the failed calls to Redis (enforce_rate_limit).                          *)
THEOREM RateHoldsAlways == Spec => []RateHolds
<1>1. Init => Counted
  BY QuotasAssumption DEF Init, Counted, RateLimited, Kind
<1>2. TypeOK /\ Counted /\ [Next]_vars => Counted'
  <2> SUFFICES ASSUME TypeOK, Counted, [Next]_vars PROVE Counted'
    OBVIOUS
  <2> USE QuotasAssumption
      DEF TypeOK, Counted, Daily, RateLimited, Kind, database, bounds, history
  <2>1. ASSUME NEW c \in Client, NEW j \in Kind, Arrive(c, j) PROVE Counted'
    BY <2>1 DEF Arrive
  <2>2. ASSUME NEW c \in Client, CountRate(c) PROVE Counted'
    BY <2>2 DEF CountRate, Admit, Goto, End, Plus
  <2>3. ASSUME NEW c \in Client, RateUnknown(c) PROVE Counted'
    BY <2>3 DEF RateUnknown, Admit, Goto, Plus
  <2>4. ASSUME NEW c \in Client, NoRate(c) PROVE Counted'
    BY <2>4 DEF NoRate, Admit, Goto, Plus
  <2>5. ASSUME NEW c \in Client, CheckQuota(c) PROVE Counted'
    BY <2>5 DEF CheckQuota, Goto, End
  <2>6. ASSUME NEW c \in Client, Perform(c) PROVE Counted'
    BY <2>6 DEF Perform, Goto, Plus, Existing
  <2>7. ASSUME NEW c \in Client, Refuse(c) PROVE Counted'
    BY <2>7 DEF Refuse, End
  <2>8. ASSUME NEW c \in Client, Record(c) PROVE Counted'
    BY <2>8 DEF Record, End, Plus
  <2>9. ASSUME NEW c \in Client, NotRecorded(c) PROVE Counted'
    BY <2>9 DEF NotRecorded, End, Plus
  <2>10. ASSUME NEW m \in Monitor, ScheduledRun(m) PROVE Counted'
    BY <2>10 DEF ScheduledRun, Change, Active
  <2>11. ASSUME NEW m \in Monitor, JobEnds(m) PROVE Counted'
    BY <2>11 DEF JobEnds
  <2>12. ASSUME NEW m \in Monitor, Delete(m) PROVE Counted'
    BY <2>12 DEF Delete, Change, Existing
  <2>13. ASSUME NEW m \in Monitor, NEW s \in {"active", "paused"}, PatchStatus(m, s) PROVE Counted'
    BY <2>13 DEF PatchStatus, Change, Existing
  <2>14. ASSUME NEW new \in Override, SetOverride(new) PROVE Counted'
    BY <2>14 DEF SetOverride, Change
  <2>15. ASSUME Midnight PROVE Counted'
    BY <2>15 DEF Midnight, Change
  <2>16. ASSUME NextWindow PROVE Counted'
    BY <2>16 DEF NextWindow, Change
  <2>17. CASE UNCHANGED vars
    BY <2>17 DEF vars
  <2>18. ASSUME NEW m \in Monitor, JobReturns(m) PROVE Counted'
    BY <2>18 DEF JobReturns, Change
  <2> QED
    BY <2>1, <2>2, <2>3, <2>4, <2>5, <2>6, <2>7, <2>8, <2>9, <2>10, <2>11, <2>12, <2>13, <2>14, <2>15, <2>16, <2>17, <2>18 DEF Next
<1>3. Counted => RateHolds
  BY DEF Counted, RateHolds
<1> QED
  BY <1>1, <1>2, <1>3, TypeCorrect, PTL DEF Spec

-----------------------------------------------------------------------------
(* Requests that hold a place: past the check, and past their work.         *)

Performed(k) == {c \in Client : phase[c] = "performed" /\ kind[c] = k}
Holding(k)   == {c \in Client : phase[c] \in {"checked", "performed"} /\ kind[c] = k}

LEMMA ClientFinite == IsFiniteSet(Client) /\ Cardinality(Client) \in Nat /\ Cardinality(Client) >= 1
  BY QuotasAssumption, FS_CardinalityType, FS_EmptySet

LEMMA Counts ==
  ASSUME NEW k
  PROVE  /\ IsFiniteSet(Performed(k)) /\ Cardinality(Performed(k)) \in Nat
         /\ IsFiniteSet(Holding(k)) /\ Cardinality(Holding(k)) \in Nat
         /\ Cardinality(Performed(k)) <= Cardinality(Holding(k))
<1>1. Holding(k) \in SUBSET Client /\ Performed(k) \in SUBSET Holding(k)
  BY DEF Holding, Performed
<1>2. IsFiniteSet(Holding(k))
  BY <1>1, ClientFinite, FS_Subset
<1>3. IsFiniteSet(Performed(k)) /\ Cardinality(Performed(k)) <= Cardinality(Holding(k))
  BY <1>1, <1>2, FS_Subset
<1> QED
  BY <1>2, <1>3, FS_CardinalityType

(* The books of one daily quota.  The events stored, those lost and those    *)
(* still to be written are the work done, and no day pays for more work of   *)
(* the day before than what was under way at midnight; the recorded use and  *)
(* the requests past the check together exceed no limit by more than the     *)
(* requests that passed it side by side; and nothing is done that is not     *)
(* recorded, to be recorded or lost.                                         *)
Account(k) ==
    /\ past[k] + used[k] + lost[k] + Cardinality(Performed(k)) = work[k]
    /\ used[k] + Cardinality(Performed(k)) <= done[k] + Cardinality(Client)
    /\ limit[k] <= peak[k]
    /\ used[k] + Cardinality(Holding(k)) <= peak[k] + Slack
    /\ done[k] <= used[k] + Cardinality(Performed(k)) + lost[k]

Accounts == \A k \in Daily : Account(k)

LEMMA AccountsInitial == Init => Accounts
<1> SUFFICES ASSUME Init, NEW k \in Daily PROVE Account(k)
  BY DEF Accounts
<1>1. Performed(k) = {} /\ Holding(k) = {}
  BY DEF Init, Performed, Holding
<1>2. /\ past[k] = 0 /\ work[k] = 0 /\ used[k] = 0 /\ done[k] = 0 /\ lost[k] = 0
      /\ limit[k] = peak[k] /\ peak[k] \in Nat
  BY QuotasAssumption DEF Init, Quota
<1>3. Cardinality({}) = 0
  BY FS_EmptySet
<1> QED
  BY <1>1, <1>2, <1>3, ClientFinite DEF Account, Slack

LEMMA AccountsKept == TypeOK /\ Accounts /\ [Next]_vars => Accounts'
<1> SUFFICES ASSUME TypeOK, Accounts, [Next]_vars, NEW k \in Daily PROVE Account(k)'
  BY DEF Accounts
<1> QED
  <2>0. /\ Account(k) /\ k \in Kind /\ k \in Quota
        /\ used[k] \in Nat /\ limit[k] \in Nat /\ peak[k] \in Nat
        /\ done[k] \in Nat /\ past[k] \in Nat /\ work[k] \in Nat /\ lost[k] \in Nat
        /\ IsFiniteSet(Performed(k)) /\ Cardinality(Performed(k)) \in Nat
        /\ IsFiniteSet(Holding(k)) /\ Cardinality(Holding(k)) \in Nat
        /\ Slack \in Nat
    BY Counts, ClientFinite DEF Accounts, TypeOK, Daily, Kind, Quota, Slack
  <2>1. ASSUME NEW c \in Client, NEW j \in Kind, Arrive(c, j) PROVE Account(k)'
    <3>1. Performed(k)' = Performed(k) /\ Holding(k)' = Holding(k) /\ UNCHANGED <<used[k], limit[k], peak[k], done[k], past[k], work[k], lost[k]>>
      BY <2>1, <2>0 DEF TypeOK, Arrive, database, bounds, history, Performed, Holding
    <3> QED
      BY <3>1, <2>0 DEF Account
  <2>2. ASSUME NEW c \in Client, CountRate(c) PROVE Account(k)'
    <3>1. Performed(k)' = Performed(k) /\ Holding(k)' = Holding(k) /\ UNCHANGED <<used[k], limit[k], peak[k], done[k], past[k], work[k], lost[k]>>
      BY <2>2, <2>0 DEF TypeOK, CountRate, Admit, Goto, End, Plus, database, bounds, history, Performed, Holding
    <3> QED
      BY <3>1, <2>0 DEF Account
  <2>3. ASSUME NEW c \in Client, RateUnknown(c) PROVE Account(k)'
    <3>1. Performed(k)' = Performed(k) /\ Holding(k)' = Holding(k) /\ UNCHANGED <<used[k], limit[k], peak[k], done[k], past[k], work[k], lost[k]>>
      BY <2>3, <2>0 DEF TypeOK, RateUnknown, Admit, Goto, Plus, database, bounds, history, Performed, Holding
    <3> QED
      BY <3>1, <2>0 DEF Account
  <2>4. ASSUME NEW c \in Client, NoRate(c) PROVE Account(k)'
    <3>1. Performed(k)' = Performed(k) /\ Holding(k)' = Holding(k) /\ UNCHANGED <<used[k], limit[k], peak[k], done[k], past[k], work[k], lost[k]>>
      BY <2>4, <2>0 DEF TypeOK, NoRate, Admit, Goto, Plus, database, bounds, history, Performed, Holding
    <3> QED
      BY <3>1, <2>0 DEF Account
  <2>5. ASSUME NEW c \in Client, CheckQuota(c) PROVE Account(k)'
    <3>1. /\ Performed(k)' = Performed(k)
          /\ UNCHANGED <<used[k], limit[k], peak[k], done[k], past[k], work[k], lost[k]>>
      BY <2>5, <2>0 DEF TypeOK, CheckQuota, Goto, End, database, bounds, history, Performed
    <3>2. CASE Holding(k)' = Holding(k)
      BY <3>1, <3>2, <2>0 DEF Account
    <3>3. CASE Holding(k)' # Holding(k)
      <4>1. kind[c] = k /\ \A q \in QuotasOf(kind[c]) : Below(q)
        BY <2>5, <3>3 DEF TypeOK, CheckQuota, Goto, End, Holding
      <4>2. used[k] < limit[k]
        BY <4>1 DEF QuotasOf, Below, InUse, Daily
      <4>3. Holding(k)' \in SUBSET Client
        BY DEF Holding
      <4>4. Cardinality(Holding(k)') \in Nat /\ Cardinality(Holding(k)') <= Cardinality(Client)
        BY <4>3, ClientFinite, FS_Subset, FS_CardinalityType
      <4> QED
        BY <3>1, <4>2, <4>4, <2>0, ClientFinite DEF Account, Slack
    <3> QED
      BY <3>2, <3>3
  <2>6. ASSUME NEW c \in Client, Perform(c) PROVE Account(k)'
    <3>1. Holding(k)' = Holding(k) /\ UNCHANGED <<used[k], limit[k], peak[k], past[k], lost[k]>>
      BY <2>6, <2>0 DEF TypeOK, Perform, Goto, Plus, Holding
    <3>2. CASE kind[c] = k
      <4>1. c \notin Performed(k) /\ Performed(k)' = Performed(k) \cup {c}
        BY <2>6, <3>2 DEF TypeOK, Perform, Goto, Plus, Performed
      <4>2. work'[k] = work[k] + 1 /\ done'[k] = done[k] + 1
        BY <2>6, <3>2, <2>0 DEF TypeOK, Perform, Goto, Plus
      <4>3. Cardinality(Performed(k)') = Cardinality(Performed(k)) + 1
        BY <4>1, <2>0, FS_AddElement
      <4> QED
        BY <3>1, <4>2, <4>3, <2>0, ClientFinite DEF Account
    <3>3. CASE kind[c] # k
      <4>1. Performed(k)' = Performed(k) /\ UNCHANGED <<done[k], work[k]>>
        BY <2>6, <3>3, <2>0 DEF TypeOK, Perform, Goto, Plus, Performed
      <4> QED
        BY <3>1, <4>1, <2>0 DEF Account
    <3> QED
      BY <3>2, <3>3
  <2>7. ASSUME NEW c \in Client, Refuse(c) PROVE Account(k)'
    <3>1. /\ Performed(k)' = Performed(k) /\ Holding(k)' \in SUBSET Holding(k)
          /\ UNCHANGED <<used[k], limit[k], peak[k], done[k], past[k], work[k], lost[k]>>
      BY <2>7, <2>0 DEF TypeOK, Refuse, End, database, bounds, history, Performed, Holding
    <3>2. Cardinality(Holding(k)') \in Nat /\ Cardinality(Holding(k)') <= Cardinality(Holding(k))
      BY <3>1, <2>0, FS_Subset, FS_CardinalityType
    <3> QED
      BY <3>1, <3>2, <2>0 DEF Account
  <2>8. ASSUME NEW c \in Client, Record(c) PROVE Account(k)'
    <3>1. UNCHANGED <<limit[k], peak[k], done[k], past[k], work[k]>>
      BY <2>8, <2>0 DEF TypeOK, Record, End, Plus, database, bounds, history
    <3>2. CASE kind[c] = k
      <4>1. /\ c \in Performed(k) /\ Performed(k)' = Performed(k) \ {c}
            /\ c \in Holding(k) /\ Holding(k)' = Holding(k) \ {c}
        BY <2>8, <3>2 DEF TypeOK, Record, End, Plus, Performed, Holding
      <4>2. used'[k] = used[k] + 1 /\ lost'[k] = lost[k]
        BY <2>8, <3>2, <2>0 DEF TypeOK, Record, End, Plus, database, history
      <4>3. /\ Cardinality(Performed(k)') = Cardinality(Performed(k)) - 1
            /\ Cardinality(Holding(k)') = Cardinality(Holding(k)) - 1
        BY <4>1, <2>0, FS_RemoveElement
      <4> QED
        BY <3>1, <4>2, <4>3, <2>0 DEF Account
    <3>3. CASE kind[c] # k
      <4>1. Performed(k)' = Performed(k) /\ Holding(k)' = Holding(k) /\ UNCHANGED <<used[k], lost[k]>>
        BY <2>8, <3>3, <2>0 DEF TypeOK, Record, End, Plus, database, history, Performed, Holding
      <4> QED
        BY <3>1, <4>1, <2>0 DEF Account
    <3> QED
      BY <3>2, <3>3
  <2>9. ASSUME NEW c \in Client, NotRecorded(c) PROVE Account(k)'
    <3>1. UNCHANGED <<limit[k], peak[k], done[k], past[k], work[k]>>
      BY <2>9, <2>0 DEF TypeOK, NotRecorded, End, Plus, database, bounds, history
    <3>2. CASE kind[c] = k
      <4>1. /\ c \in Performed(k) /\ Performed(k)' = Performed(k) \ {c}
            /\ c \in Holding(k) /\ Holding(k)' = Holding(k) \ {c}
        BY <2>9, <3>2 DEF TypeOK, NotRecorded, End, Plus, Performed, Holding
      <4>2. used'[k] = used[k] /\ lost'[k] = lost[k] + 1
        BY <2>9, <3>2, <2>0 DEF TypeOK, NotRecorded, End, Plus, database
      <4>3. /\ Cardinality(Performed(k)') = Cardinality(Performed(k)) - 1
            /\ Cardinality(Holding(k)') = Cardinality(Holding(k)) - 1
        BY <4>1, <2>0, FS_RemoveElement
      <4> QED
        BY <3>1, <4>2, <4>3, <2>0, ClientFinite DEF Account
    <3>3. CASE kind[c] # k
      <4>1. Performed(k)' = Performed(k) /\ Holding(k)' = Holding(k) /\ UNCHANGED <<used[k], lost[k]>>
        BY <2>9, <3>3, <2>0 DEF TypeOK, NotRecorded, End, Plus, database, Performed, Holding
      <4> QED
        BY <3>1, <4>1, <2>0 DEF Account
    <3> QED
      BY <3>2, <3>3
  <2>10. ASSUME NEW m \in Monitor, ScheduledRun(m) PROVE Account(k)'
    <3>1. Performed(k)' = Performed(k) /\ Holding(k)' = Holding(k) /\ UNCHANGED <<used[k], limit[k], peak[k], done[k], past[k], work[k], lost[k]>>
      BY <2>10, <2>0 DEF TypeOK, ScheduledRun, Change, database, bounds, history, Performed, Holding
    <3> QED
      BY <3>1, <2>0 DEF Account
  <2>11. ASSUME NEW m \in Monitor, JobEnds(m) PROVE Account(k)'
    <3>1. Performed(k)' = Performed(k) /\ Holding(k)' = Holding(k) /\ UNCHANGED <<used[k], limit[k], peak[k], done[k], past[k], work[k], lost[k]>>
      BY <2>11, <2>0 DEF TypeOK, JobEnds, database, bounds, history, Performed, Holding
    <3> QED
      BY <3>1, <2>0 DEF Account
  <2>12. ASSUME NEW m \in Monitor, Delete(m) PROVE Account(k)'
    <3>1. Performed(k)' = Performed(k) /\ Holding(k)' = Holding(k) /\ UNCHANGED <<used[k], limit[k], peak[k], done[k], past[k], work[k], lost[k]>>
      BY <2>12, <2>0 DEF TypeOK, Delete, Change, database, bounds, history, Performed, Holding
    <3> QED
      BY <3>1, <2>0 DEF Account
  <2>13. ASSUME NEW m \in Monitor, NEW s \in {"active", "paused"}, PatchStatus(m, s) PROVE Account(k)'
    <3>1. Performed(k)' = Performed(k) /\ Holding(k)' = Holding(k) /\ UNCHANGED <<used[k], limit[k], peak[k], done[k], past[k], work[k], lost[k]>>
      BY <2>13, <2>0 DEF TypeOK, PatchStatus, Change, database, bounds, history, Performed, Holding
    <3> QED
      BY <3>1, <2>0 DEF Account
  <2>14. ASSUME NEW new \in Override, SetOverride(new) PROVE Account(k)'
    <3>1. Performed(k)' = Performed(k) /\ Holding(k)' = Holding(k) /\ UNCHANGED <<used[k], done[k], past[k], work[k], lost[k]>>
      BY <2>14, <2>0 DEF TypeOK, SetOverride, Change, Performed, Holding
    <3>2. limit'[k] <= peak'[k] /\ peak[k] <= peak'[k] /\ peak'[k] \in Nat
      BY <2>14, <2>0, QuotasAssumption DEF TypeOK, SetOverride, Change, Quota, Daily
    <3> QED
      BY <3>1, <3>2, <2>0, ClientFinite DEF Account, Slack
  <2>15. ASSUME Midnight PROVE Account(k)'
    <3>1. Performed(k)' = Performed(k) /\ Holding(k)' = Holding(k) /\ UNCHANGED <<limit[k], peak[k], work[k], lost[k]>>
      BY <2>15, <2>0 DEF TypeOK, Midnight, Change, Performed, Holding
    <3>2. used'[k] = 0 /\ done'[k] = 0 /\ past'[k] = past[k] + used[k]
      BY <2>15 DEF Midnight, Change
    <3>3. Performed(k) \in SUBSET Client
      BY DEF Performed
    <3>4. Cardinality(Performed(k)) <= Cardinality(Client)
      BY <3>3, ClientFinite, FS_Subset
    <3> QED
      BY <3>1, <3>2, <3>4, <2>0, ClientFinite DEF Account, Slack
  <2>16. ASSUME NextWindow PROVE Account(k)'
    <3>1. Performed(k)' = Performed(k) /\ Holding(k)' = Holding(k) /\ UNCHANGED <<used[k], limit[k], peak[k], done[k], past[k], work[k], lost[k]>>
      BY <2>16, <2>0 DEF TypeOK, NextWindow, Change, database, bounds, history, Performed, Holding
    <3> QED
      BY <3>1, <2>0 DEF Account
  <2>17. CASE UNCHANGED vars
    <3>1. Performed(k)' = Performed(k) /\ Holding(k)' = Holding(k) /\ UNCHANGED <<used[k], limit[k], peak[k], done[k], past[k], work[k], lost[k]>>
      BY <2>17 DEF vars, database, bounds, history, Performed, Holding
    <3> QED
      BY <3>1, <2>0 DEF Account
  <2>18. ASSUME NEW m \in Monitor, JobReturns(m) PROVE Account(k)'
    <3>1. Performed(k)' = Performed(k) /\ Holding(k)' = Holding(k) /\ UNCHANGED <<used[k], limit[k], peak[k], done[k], past[k], work[k], lost[k]>>
      BY <2>18, <2>0 DEF TypeOK, JobReturns, Change, database, bounds, history, Performed, Holding
    <3> QED
      BY <3>1, <2>0 DEF Account
  <2> QED
    BY <2>1, <2>2, <2>3, <2>4, <2>5, <2>6, <2>7, <2>8, <2>9, <2>10, <2>11, <2>12, <2>13, <2>14, <2>15, <2>16, <2>17, <2>18 DEF Next

(* The usage events stored are the work that was committed, each operation  *)
(* once, but for the events lost or still to be written (record_usage_event *)
(* after the commit), and a day is charged for its own work and at most for *)
(* the requests that were under way at midnight.                            *)
THEOREM ChargedOnceAlways == Spec => []ChargedOnce
<1>1. Accounts => ChargedOnce
  BY DEF Accounts, Account, ChargedOnce, Performed
<1> QED
  BY <1>1, AccountsInitial, AccountsKept, TypeCorrect, PTL DEF Spec

(* The user gets no more done in a day than the highest limit, the requests *)
(* that may pass the check side by side and the unrecorded uses allow       *)
(* (enforce_quota without a lock).                                          *)
THEOREM DailyUseBoundedAlways == Spec => []DailyUseBounded
<1>1. TypeOK /\ Accounts => DailyUseBounded
  <2> SUFFICES ASSUME TypeOK, Accounts, NEW k \in Daily
               PROVE  done[k] <= peak[k] + Slack + lost[k]
    BY DEF DailyUseBounded
  <2>1. /\ used[k] \in Nat /\ peak[k] \in Nat /\ done[k] \in Nat /\ lost[k] \in Nat
        /\ Slack \in Nat
    BY ClientFinite DEF TypeOK, Quota, Slack
  <2> QED
    BY <2>1, Counts DEF Accounts, Account
<1> QED
  BY <1>1, AccountsInitial, AccountsKept, TypeCorrect, PTL DEF Spec

-----------------------------------------------------------------------------
(* Quotas that count rows.  The requests past their check have a place      *)
(* reserved, so to speak, beside the rows that are there.                   *)

Stocks == {"monitors", "active", "jobs"}
Stock(q) == CASE q = "monitors" -> Existing
              [] q = "active"   -> Active \ resumed
              [] q = "jobs"     -> jobs \ unchecked
Pending(q) == {c \in Client : phase[c] = "checked" /\ kind[c] = IF q = "jobs" THEN "run" ELSE "create"}

Room(q) ==
    /\ limit[q] <= peak[q]
    /\ Cardinality(Stock(q)) + Cardinality(Pending(q)) <= peak[q] + Slack

Rooms == \A q \in Stocks : Room(q)

LEMMA StockTypes ==
  ASSUME TypeOK, NEW q \in Stocks
  PROVE  /\ Stock(q) \in SUBSET Monitor /\ Pending(q) \in SUBSET Client
         /\ IsFiniteSet(Stock(q)) /\ Cardinality(Stock(q)) \in Nat
         /\ IsFiniteSet(Pending(q)) /\ Cardinality(Pending(q)) \in Nat
         /\ limit[q] \in Nat /\ peak[q] \in Nat /\ Slack \in Nat
<1>1. Stock(q) \in SUBSET Monitor
  BY DEF TypeOK, Stock, Stocks, Existing, Active
<1>2. Pending(q) \in SUBSET Client
  BY DEF Pending
<1>3. IsFiniteSet(Stock(q)) /\ IsFiniteSet(Pending(q))
  BY <1>1, <1>2, ClientFinite, QuotasAssumption, FS_Subset
<1>4. limit[q] \in Nat /\ peak[q] \in Nat /\ Slack \in Nat
  BY ClientFinite DEF TypeOK, Stocks, Quota, Slack
<1> QED
  BY <1>1, <1>2, <1>3, <1>4, FS_CardinalityType

(* Rows go, reservations go, limits are raised: there is still room.        *)
LEMMA RoomStays ==
  ASSUME TypeOK, NEW q \in Stocks, Room(q),
         Stock(q)' \in SUBSET Stock(q), Pending(q)' \in SUBSET Pending(q),
         limit'[q] <= peak'[q], peak[q] <= peak'[q], peak'[q] \in Nat
  PROVE  Room(q)'
<1>1. /\ Cardinality(Stock(q)') \in Nat /\ Cardinality(Stock(q)') <= Cardinality(Stock(q))
      /\ Cardinality(Pending(q)') \in Nat /\ Cardinality(Pending(q)') <= Cardinality(Pending(q))
  BY StockTypes, FS_Subset, FS_CardinalityType
<1> QED
  BY <1>1, StockTypes DEF Room, Slack

LEMMA RoomsInitial == Init => Rooms
<1> SUFFICES ASSUME Init, NEW q \in Stocks PROVE Room(q)
  BY DEF Rooms
<1>1. Stock(q) = {} /\ Pending(q) = {}
  BY DEF Init, Stock, Stocks, Existing, Active, Pending
<1>2. limit[q] = peak[q] /\ peak[q] \in Nat
  BY QuotasAssumption DEF Init, Quota, Stocks
<1>3. Cardinality({}) = 0
  BY FS_EmptySet
<1> QED
  BY <1>1, <1>2, <1>3, ClientFinite DEF Room, Slack

LEMMA RoomsKept == TypeOK /\ Rooms /\ [Next]_vars => Rooms'
<1> SUFFICES ASSUME TypeOK, Rooms, [Next]_vars, NEW q \in Stocks PROVE Room(q)'
  BY DEF Rooms
<1> QED
  <2>0. Room(q) /\ q \in Quota
    BY DEF Rooms, Stocks, Quota
  <2>1. ASSUME NEW c \in Client, NEW j \in Kind, Arrive(c, j) PROVE Room(q)'
    <3>1. Stock(q)' \in SUBSET Stock(q) /\ Pending(q)' \in SUBSET Pending(q)
      BY <2>1 DEF TypeOK, Arrive, database, bounds, history, Stock, Stocks, Existing, Active, Pending
    <3>2. UNCHANGED <<limit[q], peak[q]>>
      BY <2>1 DEF Arrive, database, bounds, history
    <3> QED
      BY <3>1, <3>2, <2>0, StockTypes, RoomStays DEF Room
  <2>2. ASSUME NEW c \in Client, CountRate(c) PROVE Room(q)'
    <3>1. Stock(q)' \in SUBSET Stock(q) /\ Pending(q)' \in SUBSET Pending(q)
      BY <2>2 DEF TypeOK, CountRate, Admit, Goto, End, Plus, database, bounds, history, Stock, Stocks, Existing, Active, Pending
    <3>2. UNCHANGED <<limit[q], peak[q]>>
      BY <2>2 DEF CountRate, Admit, Goto, End, Plus, database, bounds, history
    <3> QED
      BY <3>1, <3>2, <2>0, StockTypes, RoomStays DEF Room
  <2>3. ASSUME NEW c \in Client, RateUnknown(c) PROVE Room(q)'
    <3>1. Stock(q)' \in SUBSET Stock(q) /\ Pending(q)' \in SUBSET Pending(q)
      BY <2>3 DEF TypeOK, RateUnknown, Admit, Goto, Plus, database, bounds, history, Stock, Stocks, Existing, Active, Pending
    <3>2. UNCHANGED <<limit[q], peak[q]>>
      BY <2>3 DEF RateUnknown, Admit, Goto, Plus, database, bounds, history
    <3> QED
      BY <3>1, <3>2, <2>0, StockTypes, RoomStays DEF Room
  <2>4. ASSUME NEW c \in Client, NoRate(c) PROVE Room(q)'
    <3>1. Stock(q)' \in SUBSET Stock(q) /\ Pending(q)' \in SUBSET Pending(q)
      BY <2>4 DEF TypeOK, NoRate, Admit, Goto, Plus, database, bounds, history, Stock, Stocks, Existing, Active, Pending
    <3>2. UNCHANGED <<limit[q], peak[q]>>
      BY <2>4 DEF NoRate, Admit, Goto, Plus, database, bounds, history
    <3> QED
      BY <3>1, <3>2, <2>0, StockTypes, RoomStays DEF Room
  <2>5. ASSUME NEW c \in Client, CheckQuota(c) PROVE Room(q)'
    <3>1. Stock(q)' = Stock(q) /\ UNCHANGED <<limit[q], peak[q]>>
      BY <2>5 DEF CheckQuota, Goto, End, database, history, Stock, Stocks, Existing, Active, Pending
    <3>2. CASE Pending(q)' = Pending(q)
      BY <3>1, <3>2, <2>0, StockTypes, RoomStays DEF Room
    <3>3. CASE Pending(q)' # Pending(q)
      <4>1. q \in QuotasOf(kind[c]) /\ \A r \in QuotasOf(kind[c]) : Below(r)
        BY <2>5, <3>3 DEF TypeOK, CheckQuota, Goto, End, Pending, QuotasOf, Stocks
      <4>2. Cardinality(Stock(q)) < limit[q]
        <5>1. Below(q)
          BY <4>1
        <5>2. CASE q = "monitors"
          BY <5>1, <5>2 DEF Below, InUse, Stock
        <5>3. CASE q = "active"
          <6>1. IsFiniteSet(Active) /\ Active \ resumed \in SUBSET Active
            BY QuotasAssumption, FS_Subset DEF Active
          <6>2. Cardinality(Active \ resumed) <= Cardinality(Active) /\ Cardinality(Active) \in Nat
            BY <6>1, FS_Subset, FS_CardinalityType
          <6> QED
            BY SMTT(20), <5>1, <5>3, <6>2, StockTypes DEF Below, InUse, Stock
        <5>4. CASE q = "jobs"
          <6>1. IsFiniteSet(jobs) /\ jobs \ unchecked \in SUBSET jobs
            BY QuotasAssumption, FS_Subset DEF TypeOK
          <6>2. Cardinality(jobs \ unchecked) <= Cardinality(jobs) /\ Cardinality(jobs) \in Nat
            BY <6>1, FS_Subset, FS_CardinalityType
          <6> QED
            BY <5>1, <5>4, <6>2, StockTypes DEF Below, InUse, Stock
        <5> QED
          BY <5>2, <5>3, <5>4 DEF Stocks
      <4>3. Pending(q)' \in SUBSET Client
        BY DEF Pending
      <4>4. Cardinality(Pending(q)') \in Nat /\ Cardinality(Pending(q)') <= Cardinality(Client)
        BY <4>3, ClientFinite, FS_Subset, FS_CardinalityType
      <4> QED
        BY <3>1, <4>2, <4>4, <2>0, StockTypes, ClientFinite DEF Room, Slack
    <3> QED
      BY <3>2, <3>3
  <2>6. ASSUME NEW c \in Client, Perform(c) PROVE Room(q)'
    <3>1. UNCHANGED <<limit[q], peak[q]>>
      BY <2>6 DEF Perform
    <3>2. CASE c \notin Pending(q)
      <4>1. Stock(q)' \in SUBSET Stock(q) /\ Pending(q)' \in SUBSET Pending(q)
        BY <2>6, <3>2 DEF TypeOK, Perform, CreateMonitor, StartRun, StoreResults, Goto, Stock, Stocks, Existing, Active, Pending
      <4> QED
        BY <3>1, <4>1, <2>0, StockTypes, RoomStays DEF Room
    <3>3. CASE c \in Pending(q)
      <4>1. Pending(q)' = Pending(q) \ {c}
        BY <2>6, <3>3 DEF TypeOK, Perform, Goto, Pending
      <4>2. PICK m \in Monitor : Stock(q)' \in SUBSET (Stock(q) \cup {m})
        <5>1. CASE q = "jobs"
          BY <2>6, <3>3, <5>1 DEF TypeOK, Perform, CreateMonitor, StartRun, StoreResults, Stock, Existing, Pending
        <5>2. CASE q # "jobs"
          <6>1. kind[c] = "create"
            BY <3>3, <5>2 DEF Pending
          <6>2. PICK m \in Monitor : monitor' = [monitor EXCEPT ![m] = "active"]
            BY <2>6, <6>1 DEF Perform, CreateMonitor, StartRun, StoreResults, Existing
          <6> QED
            BY <2>6, <6>1, <5>2, <6>2 DEF TypeOK, Perform, CreateMonitor, StartRun, StoreResults, Stock, Stocks, Existing, Active
        <5> QED
          BY <5>1, <5>2
      <4>3. IsFiniteSet(Stock(q) \cup {m}) /\ Cardinality(Stock(q) \cup {m}) <= Cardinality(Stock(q)) + 1
        <5>1. IsFiniteSet(Stock(q)) /\ Cardinality(Stock(q)) \in Nat
          BY StockTypes
        <5> QED
          BY <5>1, FS_AddElement
      <4>4. Cardinality(Stock(q)') \in Nat /\ Cardinality(Stock(q)') <= Cardinality(Stock(q)) + 1
        <5>1. IsFiniteSet(Stock(q)') /\ Cardinality(Stock(q)') <= Cardinality(Stock(q) \cup {m})
          BY <4>2, <4>3, FS_Subset
        <5>2. Cardinality(Stock(q)') \in Nat /\ Cardinality(Stock(q) \cup {m}) \in Nat
          BY <5>1, <4>3, FS_CardinalityType
        <5> QED
          BY <5>1, <5>2, <4>3, StockTypes
      <4>5. Cardinality(Pending(q)') = Cardinality(Pending(q)) - 1
        BY <3>3, <4>1, StockTypes, FS_RemoveElement
      <4> QED
        BY <3>1, <4>4, <4>5, <2>0, StockTypes DEF Room, Slack
    <3> QED
      BY <3>2, <3>3
  <2>7. ASSUME NEW c \in Client, Refuse(c) PROVE Room(q)'
    <3>1. Stock(q)' \in SUBSET Stock(q) /\ Pending(q)' \in SUBSET Pending(q)
      BY <2>7 DEF TypeOK, Refuse, End, database, bounds, history, Stock, Stocks, Existing, Active, Pending
    <3>2. UNCHANGED <<limit[q], peak[q]>>
      BY <2>7 DEF Refuse, End, database, bounds, history
    <3> QED
      BY <3>1, <3>2, <2>0, StockTypes, RoomStays DEF Room
  <2>8. ASSUME NEW c \in Client, Record(c) PROVE Room(q)'
    <3>1. Stock(q)' \in SUBSET Stock(q) /\ Pending(q)' \in SUBSET Pending(q)
      BY <2>8 DEF TypeOK, Record, End, Plus, database, bounds, history, Stock, Stocks, Existing, Active, Pending
    <3>2. UNCHANGED <<limit[q], peak[q]>>
      BY <2>8 DEF Record, End, Plus, database, bounds, history
    <3> QED
      BY <3>1, <3>2, <2>0, StockTypes, RoomStays DEF Room
  <2>9. ASSUME NEW c \in Client, NotRecorded(c) PROVE Room(q)'
    <3>1. Stock(q)' \in SUBSET Stock(q) /\ Pending(q)' \in SUBSET Pending(q)
      BY <2>9 DEF TypeOK, NotRecorded, End, Plus, database, bounds, history, Stock, Stocks, Existing, Active, Pending
    <3>2. UNCHANGED <<limit[q], peak[q]>>
      BY <2>9 DEF NotRecorded, End, Plus, database, bounds, history
    <3> QED
      BY <3>1, <3>2, <2>0, StockTypes, RoomStays DEF Room
  <2>10. ASSUME NEW m \in Monitor, ScheduledRun(m) PROVE Room(q)'
    <3>1. Stock(q)' \in SUBSET Stock(q) /\ Pending(q)' \in SUBSET Pending(q)
      BY <2>10 DEF TypeOK, ScheduledRun, Change, database, bounds, history, Stock, Stocks, Existing, Active, Pending
    <3>2. UNCHANGED <<limit[q], peak[q]>>
      BY <2>10 DEF ScheduledRun, Change, database, bounds, history
    <3> QED
      BY <3>1, <3>2, <2>0, StockTypes, RoomStays DEF Room
  <2>11. ASSUME NEW m \in Monitor, JobEnds(m) PROVE Room(q)'
    <3>1. Stock(q)' \in SUBSET Stock(q) /\ Pending(q)' \in SUBSET Pending(q)
      BY <2>11 DEF TypeOK, JobEnds, database, bounds, history, Stock, Stocks, Existing, Active, Pending
    <3>2. UNCHANGED <<limit[q], peak[q]>>
      BY <2>11 DEF JobEnds, database, bounds, history
    <3> QED
      BY <3>1, <3>2, <2>0, StockTypes, RoomStays DEF Room
  <2>12. ASSUME NEW m \in Monitor, Delete(m) PROVE Room(q)'
    <3>1. Stock(q)' \in SUBSET Stock(q) /\ Pending(q)' \in SUBSET Pending(q)
      BY <2>12 DEF TypeOK, Delete, Change, database, bounds, history, Stock, Stocks, Existing, Active, Pending
    <3>2. UNCHANGED <<limit[q], peak[q]>>
      BY <2>12 DEF Delete, Change, database, bounds, history
    <3> QED
      BY <3>1, <3>2, <2>0, StockTypes, RoomStays DEF Room
  <2>13. ASSUME NEW m \in Monitor, NEW s \in {"active", "paused"}, PatchStatus(m, s) PROVE Room(q)'
    <3>1. Stock(q)' \in SUBSET Stock(q) /\ Pending(q)' \in SUBSET Pending(q)
      BY <2>13 DEF TypeOK, PatchStatus, Change, database, bounds, history, Stock, Stocks, Existing, Active, Pending
    <3>2. UNCHANGED <<limit[q], peak[q]>>
      BY <2>13 DEF PatchStatus, Change, database, bounds, history
    <3> QED
      BY <3>1, <3>2, <2>0, StockTypes, RoomStays DEF Room
  <2>14. ASSUME NEW new \in Override, SetOverride(new) PROVE Room(q)'
    <3>1. Stock(q)' \in SUBSET Stock(q) /\ Pending(q)' \in SUBSET Pending(q)
      BY <2>14 DEF TypeOK, SetOverride, Change, database, bounds, history, Stock, Stocks, Existing, Active, Pending
    <3>2. limit'[q] <= peak'[q] /\ peak[q] <= peak'[q] /\ peak'[q] \in Nat
      BY <2>14, <2>0, QuotasAssumption DEF TypeOK, SetOverride, Change, Quota
    <3> QED
      BY <3>1, <3>2, <2>0, StockTypes, RoomStays DEF Room
  <2>15. ASSUME Midnight PROVE Room(q)'
    <3>1. Stock(q)' \in SUBSET Stock(q) /\ Pending(q)' \in SUBSET Pending(q)
      BY <2>15 DEF TypeOK, Midnight, Change, database, bounds, history, Stock, Stocks, Existing, Active, Pending
    <3>2. UNCHANGED <<limit[q], peak[q]>>
      BY <2>15 DEF Midnight, Change, database, bounds, history
    <3> QED
      BY <3>1, <3>2, <2>0, StockTypes, RoomStays DEF Room
  <2>16. ASSUME NextWindow PROVE Room(q)'
    <3>1. Stock(q)' \in SUBSET Stock(q) /\ Pending(q)' \in SUBSET Pending(q)
      BY <2>16 DEF TypeOK, NextWindow, Change, database, bounds, history, Stock, Stocks, Existing, Active, Pending
    <3>2. UNCHANGED <<limit[q], peak[q]>>
      BY <2>16 DEF NextWindow, Change, database, bounds, history
    <3> QED
      BY <3>1, <3>2, <2>0, StockTypes, RoomStays DEF Room
  <2>17. CASE UNCHANGED vars
    <3>1. Stock(q)' = Stock(q) /\ Pending(q)' = Pending(q) /\ UNCHANGED <<limit[q], peak[q]>>
      BY <2>17 DEF vars, database, history, Stock, Stocks, Existing, Active, Pending
    <3> QED
      BY <3>1, <2>0 DEF Room, Slack
  <2>18. ASSUME NEW m \in Monitor, JobReturns(m) PROVE Room(q)'
    <3>1. Stock(q)' \in SUBSET Stock(q) /\ Pending(q)' \in SUBSET Pending(q)
      BY <2>18 DEF TypeOK, JobReturns, Change, Stock, Stocks, Existing, Active, Pending
    <3>2. UNCHANGED <<limit[q], peak[q]>>
      BY <2>18 DEF JobReturns, Change
    <3> QED
      BY <3>1, <3>2, <2>0, StockTypes, RoomStays DEF Room
  <2> QED
    BY <2>1, <2>2, <2>3, <2>4, <2>5, <2>6, <2>7, <2>8, <2>9, <2>10, <2>11, <2>12, <2>13, <2>14, <2>15, <2>16, <2>17, <2>18 DEF Next

(* Monitors, active monitors but for those a PATCH resumed, and jobs but    *)
(* for those the scheduler started exceed the highest limit at most by the  *)
(* requests that may pass the check side by side.                           *)
THEOREM StockBoundedAlways == Spec => []StockBounded
<1>1. TypeOK /\ Rooms => StockBounded
  <2> SUFFICES ASSUME TypeOK, Rooms PROVE StockBounded
    OBVIOUS
  <2>1. \A q \in Stocks : Cardinality(Stock(q)) <= peak[q] + Slack
    BY StockTypes DEF Rooms, Room
  <2>2. "monitors" \in Stocks /\ "active" \in Stocks /\ "jobs" \in Stocks
    BY DEF Stocks
  <2>3. /\ Stock("monitors") = Existing /\ Stock("active") = Active \ resumed
        /\ Stock("jobs") = jobs \ unchecked
    BY DEF Stock
  <2> QED
    BY <2>1, <2>2, <2>3 DEF StockBounded
<1> QED
  BY <1>1, RoomsInitial, RoomsKept, TypeCorrect, PTL DEF Spec

===============================================================================
