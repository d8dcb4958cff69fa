------------------------- MODULE AlertDeliveryProofs -------------------------
(***************************************************************************)
(* Proofs about AlertDelivery, for any number of sessions, alerts, workers, *)
(* retries, faults and changes of the preference.                           *)
(***************************************************************************)
EXTENDS AlertDelivery, FiniteSetTheorems, TLAPS

(* The alert a session is at is one of its batch.                           *)
LEMMA CurrentAlert ==
  ASSUME TypeOK, NEW s \in Session, Creating(s)
  PROVE  /\ Current(s) \in Alert /\ Current(s)[1] = s
         /\ at[s] \in DOMAIN Batch[s] /\ Current(s)[2] = Batch[s][at[s]]
<1>1. Batch[s] \in Seq(Key) /\ at[s] \in Nat \ {0} /\ at[s] <= Len(Batch[s])
  BY AlertAssumption DEF TypeOK, Creating
<1>2. at[s] \in DOMAIN Batch[s] /\ Batch[s][at[s]] \in Key
  BY <1>1
<1> QED
  BY <1>2 DEF Current, Alert

(* The model keeps its types: sessions stay within their batches, workers   *)
(* hold messages of alerts that exist.                                      *)
THEOREM TypeCorrect == Spec => []TypeOK
<1>1. Init => TypeOK
  BY AlertAssumption DEF Init, TypeOK
<1>2. TypeOK /\ [Next]_vars => TypeOK'
  <2> SUFFICES ASSUME TypeOK, [Next]_vars PROVE TypeOK'
    OBVIOUS
  <2>0. MaxFaults \in Nat /\ MaxSwitches \in Nat
    BY AlertAssumption
  <2> USE <2>0 DEF table, creator, sender, bounds, history
  <2>1. ASSUME NEW s \in Session, Look(s) PROVE TypeOK'
    <3>1. Current(s) \in Alert /\ at[s] \in Nat
      BY <2>1, CurrentAlert DEF TypeOK, Look
    <3>2. <<Current(s), 0>> \in Message
      BY <3>1, AlertAssumption DEF Message
    <3> QED
      BY <2>1, <3>1, <3>2 DEF TypeOK, Look, Move
  <2>2. ASSUME NEW s \in Session, Insert(s) PROVE TypeOK'
    <3>1. Current(s) \in Alert /\ at[s] \in Nat
      BY <2>2, CurrentAlert DEF TypeOK, Insert
    <3>2. <<Current(s), 0>> \in Message
      BY <3>1, AlertAssumption DEF Message
    <3> QED
      BY <2>2, <3>1, <3>2 DEF TypeOK, Insert, Move, Fault
  <2>3. ASSUME NEW s \in Session, Conflict(s) PROVE TypeOK'
    <3>1. Current(s) \in Alert /\ at[s] \in Nat
      BY <2>3, CurrentAlert DEF TypeOK, Conflict
    <3>2. <<Current(s), 0>> \in Message
      BY <3>1, AlertAssumption DEF Message
    <3> QED
      BY <2>3, <3>1, <3>2 DEF TypeOK, Conflict, Undo, Move
  <2>4. ASSUME NEW s \in Session, Abort(s) PROVE TypeOK'
    <3>1. Current(s) \in Alert /\ at[s] \in Nat
      BY <2>4, CurrentAlert DEF TypeOK, Abort
    <3>2. <<Current(s), 0>> \in Message
      BY <3>1, AlertAssumption DEF Message
    <3> QED
      BY <2>4, <3>1, <3>2 DEF TypeOK, Abort, Undo, End
  <2>5. ASSUME NEW s \in Session, Commit(s) PROVE TypeOK'
    BY <2>5 DEF TypeOK, Commit, End
  <2>6. ASSUME NEW w \in Worker, Receive(w) PROVE TypeOK'
    BY <2>6 DEF TypeOK, Receive
  <2>7. ASSUME NEW w \in Worker, Load(w) PROVE TypeOK'
    <3>1. message[w] \in Message
      BY <2>7 DEF TypeOK, Load, On
    <3>2. message[w][1] \in Alert /\ message[w][2] \in Nat
      BY <3>1, AlertAssumption DEF Message
    <3>3. message[w][2] < MaxRetries => <<message[w][1], message[w][2] + 1>> \in Message
      BY <3>1, AlertAssumption DEF Message
    <3> QED
      BY <2>7, <3>1, <3>2, <3>3 DEF TypeOK, Load, On, AlertOf, Begin, Goto, Release, Excuse
  <2>8. ASSUME NEW w \in Worker, QueryFails(w) PROVE TypeOK'
    <3>1. message[w] \in Message
      BY <2>8 DEF TypeOK, QueryFails, On, Sending
    <3>2. message[w][1] \in Alert /\ message[w][2] \in Nat
      BY <3>1, AlertAssumption DEF Message
    <3>3. message[w][2] < MaxRetries => <<message[w][1], message[w][2] + 1>> \in Message
      BY <3>1, AlertAssumption DEF Message
    <3> QED
      BY <2>8, <3>1, <3>2, <3>3 DEF TypeOK, QueryFails, On, Sending, AlertOf, Release, Fault
  <2>9. ASSUME NEW w \in Worker, SendAccepted(w) PROVE TypeOK'
    <3>1. message[w] \in Message
      BY <2>9 DEF TypeOK, SendAccepted, On, Sending
    <3>2. message[w][1] \in Alert /\ message[w][2] \in Nat
      BY <3>1, AlertAssumption DEF Message
    <3>3. message[w][2] < MaxRetries => <<message[w][1], message[w][2] + 1>> \in Message
      BY <3>1, AlertAssumption DEF Message
    <3> QED
      BY <2>9, <3>1, <3>2, <3>3 DEF TypeOK, SendAccepted, On, Sending, AlertOf, Goto
  <2>10. ASSUME NEW w \in Worker, SendUnclear(w) PROVE TypeOK'
    <3>1. message[w] \in Message
      BY <2>10 DEF TypeOK, SendUnclear, On, Sending
    <3>2. message[w][1] \in Alert /\ message[w][2] \in Nat
      BY <3>1, AlertAssumption DEF Message
    <3>3. message[w][2] < MaxRetries => <<message[w][1], message[w][2] + 1>> \in Message
      BY <3>1, AlertAssumption DEF Message
    <3> QED
      BY <2>10, <3>1, <3>2, <3>3 DEF TypeOK, SendUnclear, On, Sending, AlertOf, Tries, Goto, Release, Requeued, RetryOrFail
  <2>11. ASSUME NEW w \in Worker, SendRejected(w) PROVE TypeOK'
    <3>1. message[w] \in Message
      BY <2>11 DEF TypeOK, SendRejected, On, Sending
    <3>2. message[w][1] \in Alert /\ message[w][2] \in Nat
      BY <3>1, AlertAssumption DEF Message
    <3>3. message[w][2] < MaxRetries => <<message[w][1], message[w][2] + 1>> \in Message
      BY <3>1, AlertAssumption DEF Message
    <3> QED
      BY <2>11, <3>1, <3>2, <3>3 DEF TypeOK, SendRejected, On, Sending, AlertOf, Goto, Requeued
  <2>12. ASSUME NEW w \in Worker, CommitResult(w) PROVE TypeOK'
    <3>1. message[w] \in Message
      BY <2>12 DEF TypeOK, CommitResult, On
    <3>2. message[w][1] \in Alert /\ message[w][2] \in Nat
      BY <3>1, AlertAssumption DEF Message
    <3>3. message[w][2] < MaxRetries => <<message[w][1], message[w][2] + 1>> \in Message
      BY <3>1, AlertAssumption DEF Message
    <3> QED
      BY <2>12, <3>1, <3>2, <3>3 DEF TypeOK, CommitResult, On, AlertOf, Release
  <2>13. ASSUME NEW w \in Worker, ResultLost(w) PROVE TypeOK'
    <3>1. message[w] \in Message
      BY <2>13 DEF TypeOK, ResultLost, On
    <3>2. message[w][1] \in Alert /\ message[w][2] \in Nat
      BY <3>1, AlertAssumption DEF Message
    <3>3. message[w][2] < MaxRetries => <<message[w][1], message[w][2] + 1>> \in Message
      BY <3>1, AlertAssumption DEF Message
    <3> QED
      BY <2>13, <3>1, <3>2, <3>3 DEF TypeOK, ResultLost, On, AlertOf, Tries, Goto, Release, Excuse, RetryOrFail, Fault
  <2>14. ASSUME NEW w \in Worker, MarkFailed(w) PROVE TypeOK'
    <3>1. message[w] \in Message
      BY <2>14 DEF TypeOK, MarkFailed, On
    <3>2. message[w][1] \in Alert /\ message[w][2] \in Nat
      BY <3>1, AlertAssumption DEF Message
    <3>3. message[w][2] < MaxRetries => <<message[w][1], message[w][2] + 1>> \in Message
      BY <3>1, AlertAssumption DEF Message
    <3> QED
      BY <2>14, <3>1, <3>2, <3>3 DEF TypeOK, MarkFailed, On, AlertOf, Release, Fault
  <2>15. ASSUME NEW w \in Worker, Redeliver(w) PROVE TypeOK'
    <3>1. message[w] \in Message
      BY <2>15 DEF TypeOK, Redeliver
    <3>2. message[w][1] \in Alert /\ message[w][2] \in Nat
      BY <3>1, AlertAssumption DEF Message
    <3>3. message[w][2] < MaxRetries => <<message[w][1], message[w][2] + 1>> \in Message
      BY <3>1, AlertAssumption DEF Message
    <3> QED
      BY <2>15, <3>1, <3>2, <3>3 DEF TypeOK, Redeliver, AlertOf, Release, Excuse, Fault
  <2>16. ASSUME NEW q \in {"off", "app", "email"}, SwitchPreference(q) PROVE TypeOK'
    BY <2>16 DEF TypeOK, SwitchPreference
  <2>17. CASE UNCHANGED vars
    BY <2>17 DEF TypeOK, vars
  <2>18. ASSUME NEW w \in Worker, ReplyUnreadable(w) PROVE TypeOK'
    <3>1. message[w] \in Message
      BY <2>18 DEF TypeOK, ReplyUnreadable, On, Sending
    <3>2. message[w][1] \in Alert
      BY <3>1 DEF Message
    <3> QED
      BY <2>18, <3>1, <3>2 DEF TypeOK, ReplyUnreadable, On, Sending, AlertOf, Release, Fault
  <2>19. ASSUME NEW w \in Worker, RetryLost(w) PROVE TypeOK'
    <3>1. message[w] \in Message
      BY <2>19 DEF TypeOK, RetryLost, On, Sending
    <3>2. message[w][1] \in Alert
      BY <3>1 DEF Message
    <3> QED
      BY <2>19, <3>1, <3>2 DEF TypeOK, RetryLost, On, Sending, AlertOf, Release, Fault, Tries, Requeued, Excuse
  <2> QED
    BY <2>1, <2>2, <2>3, <2>4, <2>5, <2>6, <2>7, <2>8, <2>9, <2>10, <2>11, <2>12, <2>13, <2>14, <2>15, <2>16, <2>17, <2>18, <2>19 DEF Next, Create, Deliver
<1> QED
  BY <1>1, <1>2, PTL DEF Spec

-----------------------------------------------------------------------------
(* Alerts are kept.                                                         *)

(* The key needs no more of session s: the user does not want it, or there  *)
(* is an alert for it that s has flushed or somebody has committed.         *)
Kept(s, k) ==
    \/ <<s, k>> \in skipped
    \/ \E a \in Alert : a[2] = k /\ (row[a] = "committed" \/ (a[1] = s /\ row[a] = "flushed"))

(* What a session has passed is kept, and it commits no alert before its    *)
(* last.                                                                    *)
Passed ==
    /\ \A s \in Session \ rolledBack : step[s] # "done" =>
           \A i \in DOMAIN Batch[s] : i < at[s] => Kept(s, Batch[s][i])
    /\ \A s \in Session : step[s] # "done" =>
           \A a \in Alert : a[1] = s => row[a] # "committed"

LEMMA PassedInitial == Init => Passed /\ AlertsAreKept
  BY AlertAssumption DEF Init, Passed, AlertsAreKept

(* Steps of others neither take a kept alert away nor move a session.       *)
LEMMA KeptStays ==
  ASSUME NEW s \in Session, NEW k, Kept(s, k), skipped \subseteq skipped',
         \A a \in Alert : row[a] = "committed" => row'[a] = "committed",
         \A a \in Alert : a[1] = s /\ row[a] = "flushed" => row'[a] \in {"flushed", "committed"}
  PROVE  Kept(s, k)'
  BY DEF Kept

LEMMA PassedKept == TypeOK /\ Passed /\ AlertsAreKept /\ [Next]_vars => Passed' /\ AlertsAreKept'
<1> SUFFICES ASSUME TypeOK, Passed, AlertsAreKept, [Next]_vars PROVE Passed' /\ AlertsAreKept'
  OBVIOUS
<1>0. \A s \in Session \ rolledBack : step[s] = "done" =>
         \A i \in DOMAIN Batch[s] : <<s, Batch[s][i]>> \in skipped
             \/ \E a \in Alert : a[2] = Batch[s][i] /\ row[a] = "committed"
  BY DEF AlertsAreKept
<1>1. ASSUME NEW s \in Session, Look(s) PROVE Passed' /\ AlertsAreKept'
  <2>1. Current(s) \in Alert /\ Current(s)[1] = s /\ Current(s)[2] = Batch[s][at[s]] /\ Current(s) = <<s, Batch[s][at[s]]>>
    BY <1>1, CurrentAlert DEF Look, Current
  <2>2. /\ UNCHANGED <<row, rolledBack>> /\ skipped \subseteq skipped'
        /\ \A r \in Session \ {s} : at'[r] = at[r] /\ step'[r] = step[r]
        /\ step[s] # "done" /\ step'[s] # "done"
        /\ \/ at'[s] = at[s]
           \/ at'[s] = at[s] + 1 /\ (Current(s) \in skipped' \/ Visible(s, Current(s)[2]) # {})
    BY <1>1 DEF Look, Creating, Move, table, TypeOK
  <2>3. Visible(s, Current(s)[2]) # {} => Kept(s, Batch[s][at[s]])
    BY <2>1 DEF Visible, Kept
  <2>4. ASSUME NEW r \in Session \ rolledBack, step'[r] # "done",
               NEW i \in DOMAIN Batch[r], i < at'[r]
        PROVE  Kept(r, Batch[r][i])'
    <3>1. CASE i < at[r]
      <4>1. Kept(r, Batch[r][i])
        BY <2>2, <2>4, <3>1 DEF Passed
      <4> QED
        BY <2>2, <4>1, KeptStays
    <3>2. CASE ~ (i < at[r])
      <4>1. r = s /\ at'[s] = at[s] + 1
        BY <2>2, <2>4, <3>2
      <4>2. Batch[s] \in Seq(Key) /\ at[s] \in Nat
        BY AlertAssumption DEF TypeOK
      <4>3. i = at[s]
        BY <2>4, <3>2, <4>1, <4>2
      <4>4. CASE Current(s) \in skipped'
        BY <2>1, <4>1, <4>3, <4>4 DEF Kept
      <4>5. CASE Visible(s, Current(s)[2]) # {}
        BY <2>2, <2>3, <4>1, <4>3, <4>5, KeptStays
      <4> QED
        BY <2>2, <4>1, <4>2, <4>4, <4>5
    <3> QED
      BY <3>1, <3>2
  <2>5. Passed'
    BY <2>2, <2>4 DEF Passed
  <2>6. AlertsAreKept'
    BY <2>2 DEF AlertsAreKept
  <2> QED
    BY <2>5, <2>6
<1>2. ASSUME NEW s \in Session, Insert(s) PROVE Passed' /\ AlertsAreKept'
  <2>1. Current(s) \in Alert /\ Current(s)[1] = s /\ Current(s)[2] = Batch[s][at[s]]
    BY <1>2, CurrentAlert DEF Insert
  <2>2. /\ UNCHANGED <<skipped, rolledBack>>
        /\ row' = [row EXCEPT ![Current(s)] = "flushed"]
        /\ \A r \in Session \ {s} : at'[r] = at[r] /\ step'[r] = step[r]
        /\ step[s] # "done" /\ step'[s] # "done" /\ at'[s] = at[s] + 1
    BY <1>2 DEF Insert, Creating, Move, history, TypeOK
  <2>3. row[Current(s)] # "committed"
    BY <2>1, <2>2 DEF Passed
  <2>4. /\ \A a \in Alert : row[a] = "committed" => row'[a] = "committed"
        /\ \A a \in Alert : row[a] = "flushed" => row'[a] = "flushed"
        /\ row'[Current(s)] = "flushed"
        /\ \A a \in Alert : row'[a] = "committed" => row[a] = "committed"
    BY <2>1, <2>2, <2>3 DEF TypeOK
  <2>5. ASSUME NEW r \in Session \ rolledBack, step'[r] # "done",
               NEW i \in DOMAIN Batch[r], i < at'[r]
        PROVE  Kept(r, Batch[r][i])'
    <3>1. CASE i < at[r]
      <4>1. Kept(r, Batch[r][i])
        BY <2>2, <2>5, <3>1 DEF Passed
      <4> QED
        BY <2>2, <2>4, <4>1, KeptStays
    <3>2. CASE ~ (i < at[r])
      <4>1. r = s
        BY <2>2, <2>5, <3>2
      <4>2. Batch[s] \in Seq(Key) /\ at[s] \in Nat
        BY AlertAssumption DEF TypeOK
      <4>3. i = at[s]
        BY <2>2, <2>5, <3>2, <4>1, <4>2
      <4> QED
        BY <2>1, <2>4, <4>1, <4>3 DEF Kept
    <3> QED
      BY <3>1, <3>2
  <2>6. Passed'
    BY <2>2, <2>4, <2>5 DEF Passed
  <2>7. AlertsAreKept'
    BY <2>2, <2>4 DEF AlertsAreKept
  <2> QED
    BY <2>6, <2>7
<1>3. ASSUME NEW s \in Session, Conflict(s) PROVE Passed' /\ AlertsAreKept'
  <2>1. /\ skipped' = skipped /\ rolledBack' = rolledBack \cup {s}
        /\ \A a \in Alert : row'[a] = IF a[1] = s /\ row[a] = "flushed" THEN "none" ELSE row[a]
        /\ \A r \in Session \ {s} : at'[r] = at[r] /\ step'[r] = step[r]
        /\ step[s] # "done"
    BY <1>3 DEF Conflict, Creating, Undo, Move, TypeOK
  <2>2. ASSUME NEW r \in Session \ rolledBack', step'[r] # "done",
               NEW i \in DOMAIN Batch[r], i < at'[r]
        PROVE  Kept(r, Batch[r][i])'
    <3>1. r # s /\ Kept(r, Batch[r][i])
      BY <2>1, <2>2 DEF Passed
    <3> QED
      BY <2>1, <3>1, KeptStays
  <2>3. Passed'
    BY <2>1, <2>2 DEF Passed
  <2>4. AlertsAreKept'
    BY <2>1 DEF AlertsAreKept
  <2> QED
    BY <2>3, <2>4
<1>4. ASSUME NEW s \in Session, Abort(s) PROVE Passed' /\ AlertsAreKept'
  <2>1. /\ skipped' = skipped /\ rolledBack' = rolledBack \cup {s}
        /\ \A a \in Alert : row'[a] = IF a[1] = s /\ row[a] = "flushed" THEN "none" ELSE row[a]
        /\ \A r \in Session \ {s} : at'[r] = at[r] /\ step'[r] = step[r]
        /\ step[s] # "done"
    BY <1>4 DEF Abort, Creating, Undo, End, TypeOK
  <2>2. ASSUME NEW r \in Session \ rolledBack', step'[r] # "done",
               NEW i \in DOMAIN Batch[r], i < at'[r]
        PROVE  Kept(r, Batch[r][i])'
    <3>1. r # s /\ Kept(r, Batch[r][i])
      BY <2>1, <2>2 DEF Passed
    <3> QED
      BY <2>1, <3>1, KeptStays
  <2>3. Passed'
    BY <2>1, <2>2 DEF Passed
  <2>4. AlertsAreKept'
    BY <2>1 DEF AlertsAreKept
  <2> QED
    BY <2>3, <2>4
<1>5. ASSUME NEW s \in Session, Commit(s) PROVE Passed' /\ AlertsAreKept'
  <2>1. /\ UNCHANGED <<skipped, rolledBack>>
        /\ \A a \in Alert : row'[a] = IF a[1] = s /\ row[a] = "flushed" THEN "committed" ELSE row[a]
        /\ \A r \in Session \ {s} : at'[r] = at[r] /\ step'[r] = step[r]
        /\ step[s] # "done" /\ step'[s] = "done" /\ at[s] > Len(Batch[s])
    BY <1>5 DEF Commit, End, history, TypeOK
  <2>2. ASSUME NEW r \in Session \ rolledBack, step'[r] # "done",
               NEW i \in DOMAIN Batch[r], i < at'[r]
        PROVE  Kept(r, Batch[r][i])'
    <3>1. r # s /\ Kept(r, Batch[r][i])
      BY <2>1, <2>2 DEF Passed
    <3> QED
      BY <2>1, <3>1, KeptStays
  <2>3. Passed'
    BY <2>1, <2>2 DEF Passed
  <2>4. ASSUME NEW r \in Session \ rolledBack, step'[r] = "done", NEW i \in DOMAIN Batch[r]
        PROVE  <<r, Batch[r][i]>> \in skipped'
                  \/ \E a \in Alert : a[2] = Batch[r][i] /\ row'[a] = "committed"
    <3>1. CASE r = s
      <4>1. Batch[s] \in Seq(Key) /\ at[s] \in Nat
        BY AlertAssumption DEF TypeOK
      <4>2. i < at[s]
        BY <2>1, <2>4, <3>1, <4>1
      <4>3. Kept(s, Batch[s][i])
        BY <2>1, <2>4, <3>1, <4>2 DEF Passed
      <4> QED
        BY <2>1, <3>1, <4>3 DEF Kept
    <3>2. CASE r # s
      BY <1>0, <2>1, <2>4, <3>2
    <3> QED
      BY <3>1, <3>2
  <2>5. AlertsAreKept'
    BY <2>1, <2>4 DEF AlertsAreKept
  <2> QED
    BY <2>3, <2>5
<1>6. ASSUME NEW w \in Worker, Receive(w) PROVE Passed' /\ AlertsAreKept'
  <2>1. UNCHANGED <<row, at, step, skipped, rolledBack>>
    BY <1>6 DEF Receive, table, creator, sender, bounds, history
  <2> QED
    BY <2>1 DEF Passed, AlertsAreKept, Kept
<1>7. ASSUME NEW w \in Worker, Load(w) PROVE Passed' /\ AlertsAreKept'
  <2>1. UNCHANGED <<row, at, step, skipped, rolledBack>>
    BY <1>7 DEF Load, table, creator, sender, bounds, history
  <2> QED
    BY <2>1 DEF Passed, AlertsAreKept, Kept
<1>8. ASSUME NEW w \in Worker, QueryFails(w) PROVE Passed' /\ AlertsAreKept'
  <2>1. UNCHANGED <<row, at, step, skipped, rolledBack>>
    BY <1>8 DEF QueryFails, table, creator, sender, bounds, history
  <2> QED
    BY <2>1 DEF Passed, AlertsAreKept, Kept
<1>9. ASSUME NEW w \in Worker, SendAccepted(w) PROVE Passed' /\ AlertsAreKept'
  <2>1. UNCHANGED <<row, at, step, skipped, rolledBack>>
    BY <1>9 DEF SendAccepted, table, creator, sender, bounds, history
  <2> QED
    BY <2>1 DEF Passed, AlertsAreKept, Kept
<1>10. ASSUME NEW w \in Worker, SendUnclear(w) PROVE Passed' /\ AlertsAreKept'
  <2>1. UNCHANGED <<row, at, step, skipped, rolledBack>>
    BY <1>10 DEF SendUnclear, table, creator, sender, bounds, history
  <2> QED
    BY <2>1 DEF Passed, AlertsAreKept, Kept
<1>11. ASSUME NEW w \in Worker, SendRejected(w) PROVE Passed' /\ AlertsAreKept'
  <2>1. UNCHANGED <<row, at, step, skipped, rolledBack>>
    BY <1>11 DEF SendRejected, table, creator, sender, bounds, history
  <2> QED
    BY <2>1 DEF Passed, AlertsAreKept, Kept
<1>12. ASSUME NEW w \in Worker, CommitResult(w) PROVE Passed' /\ AlertsAreKept'
  <2>1. UNCHANGED <<row, at, step, skipped, rolledBack>>
    BY <1>12 DEF CommitResult, table, creator, sender, bounds, history
  <2> QED
    BY <2>1 DEF Passed, AlertsAreKept, Kept
<1>13. ASSUME NEW w \in Worker, ResultLost(w) PROVE Passed' /\ AlertsAreKept'
  <2>1. UNCHANGED <<row, at, step, skipped, rolledBack>>
    BY <1>13 DEF ResultLost, table, creator, sender, bounds, history
  <2> QED
    BY <2>1 DEF Passed, AlertsAreKept, Kept
<1>14. ASSUME NEW w \in Worker, MarkFailed(w) PROVE Passed' /\ AlertsAreKept'
  <2>1. UNCHANGED <<row, at, step, skipped, rolledBack>>
    BY <1>14 DEF MarkFailed, table, creator, sender, bounds, history
  <2> QED
    BY <2>1 DEF Passed, AlertsAreKept, Kept
<1>15. ASSUME NEW w \in Worker, Redeliver(w) PROVE Passed' /\ AlertsAreKept'
  <2>1. UNCHANGED <<row, at, step, skipped, rolledBack>>
    BY <1>15 DEF Redeliver, table, creator, sender, bounds, history
  <2> QED
    BY <2>1 DEF Passed, AlertsAreKept, Kept
<1>16. ASSUME NEW q \in {"off", "app", "email"}, SwitchPreference(q) PROVE Passed' /\ AlertsAreKept'
  <2>1. UNCHANGED <<row, at, step, skipped, rolledBack>>
    BY <1>16 DEF SwitchPreference, table, creator, sender, bounds, history
  <2> QED
    BY <2>1 DEF Passed, AlertsAreKept, Kept
<1>17. CASE UNCHANGED vars
  BY <1>17 DEF vars, table, creator, sender, bounds, history, Passed, AlertsAreKept, Kept
<1>18. ASSUME NEW w \in Worker, ReplyUnreadable(w) PROVE Passed' /\ AlertsAreKept'
  <2>1. UNCHANGED <<row, at, step, skipped, rolledBack>>
    BY <1>18 DEF ReplyUnreadable, table, creator, sender, bounds, history
  <2> QED
    BY <2>1 DEF Passed, AlertsAreKept, Kept
<1>19. ASSUME NEW w \in Worker, RetryLost(w) PROVE Passed' /\ AlertsAreKept'
  <2>1. UNCHANGED <<row, at, step, skipped, rolledBack>>
    BY <1>19 DEF RetryLost, table, creator, sender, bounds, history
  <2> QED
    BY <2>1 DEF Passed, AlertsAreKept, Kept
<1> QED
  BY <1>1, <1>2, <1>3, <1>4, <1>5, <1>6, <1>7, <1>8, <1>9, <1>10, <1>11, <1>12, <1>13, <1>14, <1>15, <1>16, <1>17, <1>18, <1>19 DEF Next, Create, Deliver

(* A session that commits leaves an alert for every key the user wants,     *)
(* unless a conflict or an error has rolled it back on the way              *)
(* (create_alert's flush and rollback, the caller's commit).                *)
THEOREM AlertsAreKeptAlways == Spec => []AlertsAreKept
  BY PassedInitial, PassedKept, TypeCorrect, PTL DEF Spec

-----------------------------------------------------------------------------
(* E-mails are sent once.                                                   *)

(* Workers past the load of alert a; those of them that have not sent it.   *)
Past(a)   == {w \in Worker : message[w] # None /\ message[w][1] = a
                             /\ doing[w] \in {"send", "resend", "fail", "commit"}}
Unsent(a) == {w \in Past(a) : doing[w] # "commit"}

(* A worker on its way to the provider has its e-mail accounted for; nobody *)
(* is on the way when an e-mail is out and the alert not marked delivered;  *)
(* and only committed alerts are worked on.                                 *)
Mail(a) ==
    /\ surplus[a] + Cardinality(Unsent(a)) <= 1
    /\ delivery[a] # "delivered" /\ Past(a) = {} => surplus[a] <= 0
    /\ row[a] # "committed" => surplus[a] <= 0 /\ Past(a) = {}

Mails == \A a \in Alert : Mail(a)

LEMMA WorkersFinite ==
  ASSUME NEW a
  PROVE  /\ IsFiniteSet(Past(a)) /\ IsFiniteSet(Unsent(a))
         /\ Cardinality(Unsent(a)) \in Nat
         /\ Cardinality(Unsent(a)) = 0 <=> Unsent(a) = {}
         /\ Past(a) = {} => Unsent(a) = {}
<1>1. Past(a) \in SUBSET Worker /\ Unsent(a) \in SUBSET Worker
  BY DEF Past, Unsent
<1>2. IsFiniteSet(Past(a)) /\ IsFiniteSet(Unsent(a))
  BY <1>1, AlertAssumption, FS_Subset
<1>3. Past(a) = {} => Unsent(a) = {}
  BY DEF Unsent
<1> QED
  BY <1>2, <1>3, FS_CardinalityType, FS_EmptySet

(* What two workers hold is more than one.                                  *)
LEMMA Alone ==
  ASSUME NEW a, NEW w \in Working(a), ~ (Cardinality(Working(a)) > 1)
  PROVE  Working(a) = {w}
<1>1. IsFiniteSet(Working(a))
  BY AlertAssumption, FS_Subset DEF Working
<1>2. Cardinality(Working(a)) \in Nat /\ Cardinality(Working(a) \ {w}) \in Nat
      /\ Cardinality(Working(a) \ {w}) = Cardinality(Working(a)) - 1 /\ IsFiniteSet(Working(a) \ {w})
  BY <1>1, FS_RemoveElement, FS_CardinalityType
<1>3. Working(a) \ {w} = {}
  BY <1>2, FS_EmptySet
<1> QED
  BY <1>3

(* One worker goes from past the load to where it is not.                   *)
LEMMA OneLess ==
  ASSUME NEW a, NEW w, Unsent(a)' = Unsent(a) \ {w}
  PROVE  Cardinality(Unsent(a)') = Cardinality(Unsent(a)) - (IF w \in Unsent(a) THEN 1 ELSE 0)
  BY WorkersFinite, FS_RemoveElement

LEMMA OneMore ==
  ASSUME NEW a, NEW w, w \notin Unsent(a), Unsent(a)' = Unsent(a) \cup {w}
  PROVE  Cardinality(Unsent(a)') = Cardinality(Unsent(a)) + 1
  BY WorkersFinite, FS_AddElement

LEMMA MailsInitial == Init => Mails
<1> SUFFICES ASSUME Init, NEW a \in Alert PROVE Mail(a)
  BY DEF Mails
<1>1. Past(a) = {} /\ surplus[a] = 0
  BY DEF Init, Past
<1> QED
  BY <1>1, WorkersFinite DEF Mail

LEMMA MailsKept == TypeOK /\ Passed /\ Mails /\ [Next]_vars => Mails'
<1> SUFFICES ASSUME TypeOK, Passed, Mails, [Next]_vars, NEW a \in Alert PROVE Mail(a)'
  BY DEF Mails
<1>0. Mail(a) /\ surplus[a] \in Int
  BY DEF Mails, TypeOK
<1>1. ASSUME NEW s \in Session, Look(s) PROVE Mail(a)'
  <2>1. Past(a)' = Past(a) /\ Unsent(a)' = Unsent(a) /\ surplus'[a] = surplus[a]
    BY <1>1 DEF Look, table, creator, sender, bounds, history, Past, Unsent
  <2>2. row'[a] = row[a] /\ delivery'[a] = delivery[a]
    BY <1>1 DEF Look, table
  <2> QED
    BY <2>1, <2>2, <1>0 DEF Mail
<1>2. ASSUME NEW s \in Session, Insert(s) PROVE Mail(a)'
  <2>1. Past(a)' = Past(a) /\ Unsent(a)' = Unsent(a) /\ surplus'[a] = surplus[a]
    BY <1>2 DEF Insert, table, creator, sender, bounds, history, Past, Unsent
  <2>2. CASE a = Current(s)
    <3>0. a[1] = s /\ step[s] # "done"
      BY <1>2, <2>2, CurrentAlert DEF Insert, Creating
    <3>1. row[a] # "committed" /\ row'[a] = "flushed"
      BY <1>2, <2>2, <3>0 DEF Insert, Passed, TypeOK
    <3> QED
      BY <2>1, <3>1, <1>0 DEF Mail
  <2>3. CASE a # Current(s)
    <3>1. row'[a] = row[a] /\ delivery'[a] = delivery[a]
      BY <1>2, <2>3 DEF Insert, TypeOK
    <3> QED
      BY <2>1, <3>1, <1>0 DEF Mail
  <2> QED
    BY <2>2, <2>3
<1>3. ASSUME NEW s \in Session, Conflict(s) PROVE Mail(a)'
  <2>1. Past(a)' = Past(a) /\ Unsent(a)' = Unsent(a) /\ surplus'[a] = surplus[a]
    BY <1>3 DEF Conflict, table, creator, sender, bounds, history, Past, Unsent
  <2>2. /\ row'[a] = "committed" <=> row[a] = "committed"
        /\ row[a] = "committed" => delivery'[a] = delivery[a]
    BY <1>3 DEF Conflict, Undo
  <2> QED
    BY <2>1, <2>2, <1>0 DEF Mail
<1>4. ASSUME NEW s \in Session, Abort(s) PROVE Mail(a)'
  <2>1. Past(a)' = Past(a) /\ Unsent(a)' = Unsent(a) /\ surplus'[a] = surplus[a]
    BY <1>4 DEF Abort, table, creator, sender, bounds, history, Past, Unsent
  <2>2. /\ row'[a] = "committed" <=> row[a] = "committed"
        /\ row[a] = "committed" => delivery'[a] = delivery[a]
    BY <1>4 DEF Abort, Undo
  <2> QED
    BY <2>1, <2>2, <1>0 DEF Mail
<1>5. ASSUME NEW s \in Session, Commit(s) PROVE Mail(a)'
  <2>1. Past(a)' = Past(a) /\ Unsent(a)' = Unsent(a) /\ surplus'[a] = surplus[a]
    BY <1>5 DEF Commit, table, creator, sender, bounds, history, Past, Unsent
  <2>2. (row[a] = "committed" => row'[a] = "committed") /\ delivery'[a] = delivery[a]
    BY <1>5 DEF Commit
  <2> QED
    BY <2>1, <2>2, <1>0 DEF Mail
<1>6. ASSUME NEW w \in Worker, Receive(w) PROVE Mail(a)'
  <2>1. Past(a)' = Past(a) /\ Unsent(a)' = Unsent(a) /\ surplus'[a] = surplus[a]
    BY <1>6 DEF TypeOK, Receive, table, creator, sender, bounds, history, Past, Unsent
  <2>2. row'[a] = row[a] /\ delivery'[a] = delivery[a]
    BY <1>6 DEF Receive, table
  <2> QED
    BY <2>1, <2>2, <1>0 DEF Mail
<1>7. ASSUME NEW w \in Worker, Load(w) PROVE Mail(a)'
  <2>0. row' = row /\ message[w] # None /\ doing[w] \in {"load", "send", "resend", "commit", "fail"}
    BY <1>7 DEF Load, On, Sending, table, TypeOK
  <2>1. CASE message[w][1] # a
    <3>1. Past(a)' = Past(a) /\ Unsent(a)' = Unsent(a) /\ surplus'[a] = surplus[a] /\ delivery'[a] = delivery[a]
      BY <1>7, <2>1 DEF TypeOK, Load, On, AlertOf, Begin, Goto, Release, Excuse, table, creator, sender, bounds, history, Past, Unsent
    <3> QED
      BY <2>0, <3>1, <1>0 DEF Mail
  <2>2. CASE message[w][1] = a
    <3>0. w \notin Past(a) /\ w \notin Unsent(a) /\ w \in Working(a) /\ delivery'[a] = delivery[a]
      BY <1>7, <2>2 DEF Load, On, Past, Unsent, Working, AlertOf, table
    <3>1. CASE row[a] # "committed" \/ delivery[a] = "delivered"
      <4>1. Past(a)' = Past(a) /\ Unsent(a)' = Unsent(a) /\ surplus'[a] = surplus[a]
        BY <1>7, <2>2, <3>1 DEF TypeOK, Load, On, AlertOf, Release, Past, Unsent
      <4> QED
        BY <2>0, <3>0, <4>1, <1>0 DEF Mail
    <3>2. CASE row[a] = "committed" /\ delivery[a] # "delivered"
      <4>1. Past(a)' = Past(a) \cup {w} /\ Unsent(a)' = Unsent(a) \cup {w}
        BY <1>7, <2>2, <3>2 DEF TypeOK, Load, On, AlertOf, Begin, Goto, Past, Unsent
      <4>2. surplus'[a] = IF Cardinality(Working(a)) > 1 THEN surplus[a] - 1 ELSE surplus[a]
        BY <1>7, <2>2, <3>2 DEF TypeOK, Load, AlertOf, Excuse
      <4>3. CASE Cardinality(Working(a)) > 1
        <5>a. Cardinality(Unsent(a)') = Cardinality(Unsent(a)) + 1
          BY <2>0, <3>0, <3>2, <4>1, <4>2, <4>3, <1>0, OneMore
        <5>b. Cardinality(Unsent(a)) \in Nat /\ (w \in Unsent(a) => Cardinality(Unsent(a)) # 0)
          BY WorkersFinite
        <5>c. Past(a) = {} => Cardinality(Unsent(a)) = 0
          BY WorkersFinite
        <5> QED
          BY <2>0, <3>0, <3>2, <4>1, <4>2, <4>3, <1>0, <5>a, <5>b, <5>c DEF Mail
      <4>4. CASE ~ (Cardinality(Working(a)) > 1)
        <5>1. Past(a) = {}
          <6>1. Working(a) = {w} /\ Past(a) \subseteq Working(a)
            BY <3>0, <4>4, Alone DEF Past, Working, AlertOf
          <6> QED
            BY <3>0, <6>1
        <5> QED
          <6>a. Cardinality(Unsent(a)') = Cardinality(Unsent(a)) + 1
            BY <2>0, <3>0, <3>2, <4>1, <4>2, <4>4, <5>1, <1>0, OneMore
          <6>b. Cardinality(Unsent(a)) \in Nat /\ (w \in Unsent(a) => Cardinality(Unsent(a)) # 0)
            BY WorkersFinite
          <6>c. Past(a) = {} => Cardinality(Unsent(a)) = 0
            BY WorkersFinite
          <6> QED
            BY <2>0, <3>0, <3>2, <4>1, <4>2, <4>4, <5>1, <1>0, <6>a, <6>b, <6>c DEF Mail
      <4> QED
        BY <4>3, <4>4
    <3> QED
      BY <3>1, <3>2
  <2> QED
    BY <2>1, <2>2
<1>8. ASSUME NEW w \in Worker, QueryFails(w) PROVE Mail(a)'
  <2>0. row' = row /\ message[w] # None /\ doing[w] \in {"load", "send", "resend", "commit", "fail"}
    BY <1>8 DEF QueryFails, On, Sending, table, TypeOK
  <2>1. CASE message[w][1] # a
    <3>1. Past(a)' = Past(a) /\ Unsent(a)' = Unsent(a) /\ surplus'[a] = surplus[a] /\ delivery'[a] = delivery[a]
      BY <1>8, <2>1 DEF TypeOK, QueryFails, On, Sending, AlertOf, Release, Fault, table, creator, sender, bounds, history, Past, Unsent
    <3> QED
      BY <2>0, <3>1, <1>0 DEF Mail
  <2>2. CASE message[w][1] = a
    <3>1. Past(a)' = Past(a) \ {w} /\ Unsent(a)' = Unsent(a) \ {w} /\ surplus'[a] = surplus[a]
      BY <1>8, <2>2 DEF TypeOK, QueryFails, On, Sending, AlertOf, Release, Fault, Past, Unsent
    <3>2. delivery'[a] = delivery[a]
      BY <1>8 DEF QueryFails, table
    <3>3. w \in Past(a) => w \in Unsent(a)
      BY <1>8 DEF QueryFails, On, Sending, Past, Unsent
    <3> QED
      <4>a. Cardinality(Unsent(a)') = Cardinality(Unsent(a)) - (IF w \in Unsent(a) THEN 1 ELSE 0)
        BY <2>0, <3>1, <3>2, <3>3, <1>0, OneLess
      <4>b. Cardinality(Unsent(a)) \in Nat /\ (w \in Unsent(a) => Cardinality(Unsent(a)) # 0)
        BY WorkersFinite
      <4>c. Past(a) = {} => Cardinality(Unsent(a)) = 0
        BY WorkersFinite
      <4> QED
        BY <2>0, <3>1, <3>2, <3>3, <1>0, <4>a, <4>b, <4>c DEF Mail
  <2> QED
    BY <2>1, <2>2
<1>9. ASSUME NEW w \in Worker, SendAccepted(w) PROVE Mail(a)'
  <2>0. row' = row /\ message[w] # None /\ doing[w] \in {"load", "send", "resend", "commit", "fail"}
    BY <1>9 DEF SendAccepted, On, Sending, table, TypeOK
  <2>1. CASE message[w][1] # a
    <3>1. Past(a)' = Past(a) /\ Unsent(a)' = Unsent(a) /\ surplus'[a] = surplus[a] /\ delivery'[a] = delivery[a]
      BY <1>9, <2>1 DEF TypeOK, SendAccepted, On, Sending, AlertOf, Goto, table, creator, sender, bounds, history, Past, Unsent
    <3> QED
      BY <2>0, <3>1, <1>0 DEF Mail
  <2>2. CASE message[w][1] = a
    <3>1. /\ w \in Unsent(a) /\ Past(a)' = Past(a) /\ Unsent(a)' = Unsent(a) \ {w} /\ w \in Past(a)
          /\ surplus'[a] = surplus[a] + 1 /\ delivery'[a] = delivery[a]
      BY <1>9, <2>2 DEF TypeOK, SendAccepted, On, Sending, AlertOf, Goto, Past, Unsent, table
    <3> QED
      <4>a. Cardinality(Unsent(a)') = Cardinality(Unsent(a)) - (IF w \in Unsent(a) THEN 1 ELSE 0)
        BY <2>0, <3>1, <1>0, OneLess
      <4>b. Cardinality(Unsent(a)) \in Nat /\ (w \in Unsent(a) => Cardinality(Unsent(a)) # 0)
        BY WorkersFinite
      <4>c. Past(a) = {} => Cardinality(Unsent(a)) = 0
        BY WorkersFinite
      <4> QED
        BY <2>0, <3>1, <1>0, <4>a, <4>b, <4>c DEF Mail
  <2> QED
    BY <2>1, <2>2
<1>10. ASSUME NEW w \in Worker, SendUnclear(w) PROVE Mail(a)'
  <2>0. row' = row /\ message[w] # None /\ doing[w] \in {"load", "send", "resend", "commit", "fail"}
    BY <1>10 DEF SendUnclear, On, Sending, table, TypeOK
  <2>1. CASE message[w][1] # a
    <3>1. Past(a)' = Past(a) /\ Unsent(a)' = Unsent(a) /\ surplus'[a] = surplus[a] /\ delivery'[a] = delivery[a]
      BY <1>10, <2>1 DEF TypeOK, SendUnclear, On, Sending, AlertOf, Tries, Goto, Release, Requeued, RetryOrFail, table, creator, sender, bounds, history, Past, Unsent
    <3> QED
      BY <2>0, <3>1, <1>0 DEF Mail
  <2>2. CASE message[w][1] = a
    <3>1. w \in Unsent(a) /\ w \in Past(a) /\ surplus'[a] = surplus[a]
      BY <1>10, <2>2 DEF TypeOK, SendUnclear, On, Sending, AlertOf, Tries, Goto, Release, Requeued, RetryOrFail, Past, Unsent, history
    <3>2. CASE Tries(w) < MaxRetries
      <4>1. Past(a)' = Past(a) \ {w} /\ Unsent(a)' = Unsent(a) \ {w}
        BY <1>10, <2>2, <3>2 DEF TypeOK, SendUnclear, On, Sending, AlertOf, Tries, Goto, Release, Requeued, RetryOrFail, Past, Unsent
      <4> QED
        <5>a. Cardinality(Unsent(a)') = Cardinality(Unsent(a)) - (IF w \in Unsent(a) THEN 1 ELSE 0)
          BY <2>0, <3>1, <4>1, <1>0, OneLess
        <5>b. Cardinality(Unsent(a)) \in Nat /\ (w \in Unsent(a) => Cardinality(Unsent(a)) # 0)
          BY WorkersFinite
        <5>c. Past(a) = {} => Cardinality(Unsent(a)) = 0
          BY WorkersFinite
        <5> QED
          BY <2>0, <3>1, <4>1, <1>0, <5>a, <5>b, <5>c DEF Mail
    <3>3. CASE ~ (Tries(w) < MaxRetries)
      <4>1. Past(a)' = Past(a) /\ Unsent(a)' = Unsent(a)
        BY <1>10, <2>2, <3>3 DEF TypeOK, SendUnclear, On, Sending, AlertOf, Tries, Goto, Release, Requeued, RetryOrFail, Past, Unsent
      <4> QED
        BY <2>0, <3>1, <4>1, <1>0 DEF Mail
    <3> QED
      BY <3>2, <3>3
  <2> QED
    BY <2>1, <2>2
<1>11. ASSUME NEW w \in Worker, SendRejected(w) PROVE Mail(a)'
  <2>0. row' = row /\ message[w] # None /\ doing[w] \in {"load", "send", "resend", "commit", "fail"}
    BY <1>11 DEF SendRejected, On, Sending, table, TypeOK
  <2>1. CASE message[w][1] # a
    <3>1. Past(a)' = Past(a) /\ Unsent(a)' = Unsent(a) /\ surplus'[a] = surplus[a] /\ delivery'[a] = delivery[a]
      BY <1>11, <2>1 DEF TypeOK, SendRejected, On, Sending, AlertOf, Goto, Requeued, table, creator, sender, bounds, history, Past, Unsent
    <3> QED
      BY <2>0, <3>1, <1>0 DEF Mail
  <2>2. CASE message[w][1] = a
    <3>1. Past(a)' = Past(a) /\ Unsent(a)' = Unsent(a) /\ surplus'[a] = surplus[a] /\ w \in Past(a)
      BY <1>11, <2>2 DEF TypeOK, SendRejected, On, Sending, AlertOf, Goto, Requeued, Past, Unsent, history
    <3> QED
      BY <2>0, <3>1, <1>0 DEF Mail
  <2> QED
    BY <2>1, <2>2
<1>12. ASSUME NEW w \in Worker, CommitResult(w) PROVE Mail(a)'
  <2>0. row' = row /\ message[w] # None /\ doing[w] \in {"load", "send", "resend", "commit", "fail"}
    BY <1>12 DEF CommitResult, On, Sending, table, TypeOK
  <2>1. CASE message[w][1] # a
    <3>1. Past(a)' = Past(a) /\ Unsent(a)' = Unsent(a) /\ surplus'[a] = surplus[a] /\ delivery'[a] = delivery[a]
      BY <1>12, <2>1 DEF TypeOK, CommitResult, On, AlertOf, Release, table, creator, sender, bounds, history, Past, Unsent
    <3> QED
      BY <2>0, <3>1, <1>0 DEF Mail
  <2>2. CASE message[w][1] = a
    <3>1. /\ Past(a)' = Past(a) \ {w} /\ Unsent(a)' = Unsent(a) /\ surplus'[a] = surplus[a]
          /\ w \in Past(a) /\ delivery'[a] = "delivered"
      BY <1>12, <2>2 DEF TypeOK, CommitResult, On, AlertOf, Release, Past, Unsent, history
    <3> QED
      BY <2>0, <3>1, <1>0 DEF Mail
  <2> QED
    BY <2>1, <2>2
<1>13. ASSUME NEW w \in Worker, ResultLost(w) PROVE Mail(a)'
  <2>0. row' = row /\ message[w] # None /\ doing[w] \in {"load", "send", "resend", "commit", "fail"}
    BY <1>13 DEF ResultLost, On, Sending, table, TypeOK
  <2>1. CASE message[w][1] # a
    <3>1. Past(a)' = Past(a) /\ Unsent(a)' = Unsent(a) /\ surplus'[a] = surplus[a] /\ delivery'[a] = delivery[a]
      BY <1>13, <2>1 DEF TypeOK, ResultLost, On, AlertOf, Tries, Goto, Release, Excuse, RetryOrFail, Fault, table, creator, sender, bounds, history, Past, Unsent
    <3> QED
      BY <2>0, <3>1, <1>0 DEF Mail
  <2>2. CASE message[w][1] = a
    <3>1. /\ w \in Past(a) /\ w \notin Unsent(a) /\ surplus'[a] = surplus[a] - 1
          /\ delivery'[a] = delivery[a]
      BY <1>13, <2>2 DEF TypeOK, ResultLost, On, AlertOf, Tries, Goto, Release, Excuse, RetryOrFail, Fault, Past, Unsent, table
    <3>2. CASE Tries(w) < MaxRetries
      <4>1. Past(a)' = Past(a) \ {w} /\ Unsent(a)' = Unsent(a) \ {w}
        BY <1>13, <2>2, <3>2 DEF TypeOK, ResultLost, On, AlertOf, Tries, Goto, Release, Excuse, RetryOrFail, Fault, Past, Unsent
      <4> QED
        <5>a. Cardinality(Unsent(a)') = Cardinality(Unsent(a)) - (IF w \in Unsent(a) THEN 1 ELSE 0)
          BY <2>0, <3>1, <4>1, <1>0, OneLess
        <5>b. Cardinality(Unsent(a)) \in Nat /\ (w \in Unsent(a) => Cardinality(Unsent(a)) # 0)
          BY WorkersFinite
        <5>c. Past(a) = {} => Cardinality(Unsent(a)) = 0
          BY WorkersFinite
        <5> QED
          BY <2>0, <3>1, <4>1, <1>0, <5>a, <5>b, <5>c DEF Mail
    <3>3. CASE ~ (Tries(w) < MaxRetries)
      <4>1. Past(a)' = Past(a) /\ Unsent(a)' = Unsent(a) \cup {w}
        BY <1>13, <2>2, <3>3 DEF TypeOK, ResultLost, On, AlertOf, Tries, Goto, Release, Excuse, RetryOrFail, Fault, Past, Unsent
      <4> QED
        <5>a. Cardinality(Unsent(a)') = Cardinality(Unsent(a)) + 1
          BY <2>0, <3>1, <4>1, <1>0, OneMore
        <5>b. Cardinality(Unsent(a)) \in Nat /\ (w \in Unsent(a) => Cardinality(Unsent(a)) # 0)
          BY WorkersFinite
        <5>c. Past(a) = {} => Cardinality(Unsent(a)) = 0
          BY WorkersFinite
        <5> QED
          BY <2>0, <3>1, <4>1, <1>0, <5>a, <5>b, <5>c DEF Mail
    <3> QED
      BY <3>2, <3>3
  <2> QED
    BY <2>1, <2>2
<1>14. ASSUME NEW w \in Worker, MarkFailed(w) PROVE Mail(a)'
  <2>0. row' = row /\ message[w] # None /\ doing[w] \in {"load", "send", "resend", "commit", "fail"}
    BY <1>14 DEF MarkFailed, On, Sending, table, TypeOK
  <2>1. CASE message[w][1] # a
    <3>1. Past(a)' = Past(a) /\ Unsent(a)' = Unsent(a) /\ surplus'[a] = surplus[a] /\ delivery'[a] = delivery[a]
      BY <1>14, <2>1 DEF TypeOK, MarkFailed, On, AlertOf, Release, Fault, table, creator, sender, bounds, history, Past, Unsent
    <3> QED
      BY <2>0, <3>1, <1>0 DEF Mail
  <2>2. CASE message[w][1] = a
    <3>1. Past(a)' = Past(a) \ {w} /\ Unsent(a)' = Unsent(a) \ {w} /\ w \in Past(a) /\ w \in Unsent(a) /\ surplus'[a] = surplus[a]
      BY <1>14, <2>2 DEF TypeOK, MarkFailed, On, AlertOf, Release, Fault, Past, Unsent
    <3> QED
      <4>a. Cardinality(Unsent(a)') = Cardinality(Unsent(a)) - (IF w \in Unsent(a) THEN 1 ELSE 0)
        BY <2>0, <3>1, <1>0, OneLess
      <4>b. Cardinality(Unsent(a)) \in Nat /\ (w \in Unsent(a) => Cardinality(Unsent(a)) # 0)
        BY WorkersFinite
      <4>c. Past(a) = {} => Cardinality(Unsent(a)) = 0
        BY WorkersFinite
      <4> QED
        BY <2>0, <3>1, <1>0, <4>a, <4>b, <4>c DEF Mail
  <2> QED
    BY <2>1, <2>2
<1>15. ASSUME NEW w \in Worker, Redeliver(w) PROVE Mail(a)'
  <2>0. row' = row /\ message[w] # None /\ doing[w] \in {"load", "send", "resend", "commit", "fail"}
    BY <1>15 DEF Redeliver, On, Sending, table, TypeOK
  <2>1. CASE message[w][1] # a
    <3>1. Past(a)' = Past(a) /\ Unsent(a)' = Unsent(a) /\ surplus'[a] = surplus[a] /\ delivery'[a] = delivery[a]
      BY <1>15, <2>1 DEF TypeOK, Redeliver, AlertOf, Release, Excuse, Fault, table, creator, sender, bounds, history, Past, Unsent
    <3> QED
      BY <2>0, <3>1, <1>0 DEF Mail
  <2>2. CASE message[w][1] = a
    <3>0. delivery'[a] = delivery[a]
      BY <1>15 DEF Redeliver, table
    <3>1. CASE UNCHANGED <<sender, surplus>>
      <4>1. Past(a)' = Past(a) /\ Unsent(a)' = Unsent(a) /\ surplus'[a] = surplus[a]
        BY <3>1 DEF sender, Past, Unsent
      <4> QED
        BY <2>0, <3>0, <4>1, <1>0 DEF Mail
    <3>2. CASE ~ UNCHANGED <<sender, surplus>>
      <4>1. /\ Past(a)' = Past(a) \ {w} /\ Unsent(a)' = Unsent(a) \ {w}
            /\ surplus'[a] = IF doing[w] = "commit" THEN surplus[a] - 1 ELSE surplus[a]
        BY <1>15, <2>2, <3>2 DEF TypeOK, Redeliver, AlertOf, Release, Excuse, Fault, Past, Unsent
      <4>2. /\ w \in Past(a) <=> doing[w] # "load"
            /\ w \in Unsent(a) <=> doing[w] \notin {"load", "commit"}
        BY <2>0, <2>2 DEF Past, Unsent
      <4> QED
        <5>a. Cardinality(Unsent(a)') = Cardinality(Unsent(a)) - (IF w \in Unsent(a) THEN 1 ELSE 0)
          BY <2>0, <3>0, <4>1, <4>2, <1>0, OneLess
        <5>b. Cardinality(Unsent(a)) \in Nat /\ (w \in Unsent(a) => Cardinality(Unsent(a)) # 0)
          BY WorkersFinite
        <5>c. Past(a) = {} => Cardinality(Unsent(a)) = 0
          BY WorkersFinite
        <5> QED
          BY <2>0, <3>0, <4>1, <4>2, <1>0, <5>a, <5>b, <5>c DEF Mail
    <3> QED
      BY <3>1, <3>2
  <2> QED
    BY <2>1, <2>2
<1>16. ASSUME NEW q \in {"off", "app", "email"}, SwitchPreference(q) PROVE Mail(a)'
  <2>1. Past(a)' = Past(a) /\ Unsent(a)' = Unsent(a) /\ surplus'[a] = surplus[a]
    BY <1>16 DEF SwitchPreference, table, creator, sender, bounds, history, Past, Unsent
  <2>2. row'[a] = row[a] /\ delivery'[a] = delivery[a]
    BY <1>16 DEF SwitchPreference, table
  <2> QED
    BY <2>1, <2>2, <1>0 DEF Mail
<1>17. CASE UNCHANGED vars
  <2>1. Past(a)' = Past(a) /\ Unsent(a)' = Unsent(a) /\ surplus'[a] = surplus[a] /\ row'[a] = row[a] /\ delivery'[a] = delivery[a]
    BY <1>17 DEF vars, table, creator, sender, bounds, history, Past, Unsent
  <2> QED
    BY <2>1, <1>0 DEF Mail
<1>18. ASSUME NEW w \in Worker, ReplyUnreadable(w) PROVE Mail(a)'
  <2>0. row' = row /\ message[w] # None /\ doing[w] \in {"load", "send", "resend", "commit", "fail"}
    BY <1>18 DEF ReplyUnreadable, On, Sending, table, TypeOK
  <2>1. CASE message[w][1] # a
    <3>1. Past(a)' = Past(a) /\ Unsent(a)' = Unsent(a) /\ surplus'[a] = surplus[a] /\ delivery'[a] = delivery[a]
      BY <1>18, <2>1 DEF TypeOK, ReplyUnreadable, On, Sending, AlertOf, Release, Fault, table, creator, sender, bounds, history, Past, Unsent
    <3> QED
      BY <2>0, <3>1, <1>0 DEF Mail
  <2>2. CASE message[w][1] = a
    <3>1. Past(a)' = Past(a) \ {w} /\ Unsent(a)' = Unsent(a) \ {w} /\ surplus'[a] = surplus[a]
      BY <1>18, <2>2 DEF TypeOK, ReplyUnreadable, On, Sending, AlertOf, Release, Fault, Past, Unsent
    <3>2. delivery'[a] = delivery[a]
      BY <1>18 DEF ReplyUnreadable, table
    <3>3. w \in Past(a) => w \in Unsent(a)
      BY <1>18 DEF ReplyUnreadable, On, Sending, Past, Unsent
    <3> QED
      <4>a. Cardinality(Unsent(a)') = Cardinality(Unsent(a)) - (IF w \in Unsent(a) THEN 1 ELSE 0)
        BY <2>0, <3>1, <3>2, <3>3, <1>0, OneLess
      <4>b. Cardinality(Unsent(a)) \in Nat /\ (w \in Unsent(a) => Cardinality(Unsent(a)) # 0)
        BY WorkersFinite
      <4>c. Past(a) = {} => Cardinality(Unsent(a)) = 0
        BY WorkersFinite
      <4> QED
        BY <2>0, <3>1, <3>2, <3>3, <1>0, <4>a, <4>b, <4>c DEF Mail
  <2> QED
    BY <2>1, <2>2
<1>19. ASSUME NEW w \in Worker, RetryLost(w) PROVE Mail(a)'
  <2>0. row' = row /\ message[w] # None /\ doing[w] \in {"send", "resend", "commit"}
    BY <1>19 DEF RetryLost, On, Sending
  <2>1. CASE message[w][1] # a
    <3>1. Past(a)' = Past(a) /\ Unsent(a)' = Unsent(a) /\ surplus'[a] = surplus[a] /\ delivery'[a] = delivery[a]
      BY <1>19, <2>1 DEF TypeOK, RetryLost, On, Sending, AlertOf, Release, Requeued, Excuse, Past, Unsent
    <3> QED
      BY <2>0, <3>1, <1>0 DEF Mail
  <2>2. CASE message[w][1] = a
    <3>1. /\ Past(a)' = Past(a) \ {w} /\ Unsent(a)' = Unsent(a) \ {w} /\ w \in Past(a)
          /\ surplus'[a] = IF doing[w] = "commit" THEN surplus[a] - 1 ELSE surplus[a]
      BY <1>19, <2>2 DEF TypeOK, RetryLost, On, Sending, AlertOf, Release, Excuse, Past, Unsent
    <3>2. w \in Unsent(a) <=> doing[w] # "commit"
      BY <2>0, <2>2 DEF Past, Unsent
    <3> QED
      <4>a. Cardinality(Unsent(a)') = Cardinality(Unsent(a)) - (IF w \in Unsent(a) THEN 1 ELSE 0)
        BY <3>1, OneLess
      <4>b. Cardinality(Unsent(a)) \in Nat /\ (w \in Unsent(a) => Cardinality(Unsent(a)) # 0)
        BY WorkersFinite
      <4> QED
        BY <2>0, <3>1, <3>2, <1>0, <4>a, <4>b DEF Mail
  <2> QED
    BY <2>1, <2>2
<1> QED
  BY <1>1, <1>2, <1>3, <1>4, <1>5, <1>6, <1>7, <1>8, <1>9, <1>10, <1>11, <1>12, <1>13, <1>14, <1>15, <1>16, <1>17, <1>18, <1>19 DEF Next, Create, Deliver

(* An alert is e-mailed once, but for a failure between the provider's      *)
(* acceptance and the commit of the result, or copies of its task at work   *)
(* side by side (deliver_alert_email).                                      *)
THEOREM EmailedOnceAlways == Spec => []EmailedOnce
<1>1. TypeOK /\ Mails => EmailedOnce
  <2> SUFFICES ASSUME TypeOK, Mails, NEW a \in Alert PROVE surplus[a] <= 1
    BY DEF EmailedOnce
  <2>1. surplus[a] \in Int /\ Mail(a)
    BY DEF TypeOK, Mails
  <2> QED
    BY <2>1, WorkersFinite DEF Mail
<1> QED
  BY <1>1, MailsInitial, MailsKept, PassedInitial, PassedKept, TypeCorrect, PTL DEF Spec

==============================================================================
