-------------------------- MODULE ScheduleScanProofs --------------------------
(***************************************************************************)
(* That scans exclude each other and a served slot stays busy, for any      *)
(* number of monitors, processes, rows per scan and crashes.                *)
(***************************************************************************)
EXTENDS ScheduleScan, TLAPS

------------------------------------------------------------------------------
(* The order of the due schedules.                                          *)
Times ==
    /\ due \subseteq Monitors /\ later \subseteq Monitors /\ due \cap later = {}
    /\ before \subseteq due \X due
    /\ \A m, n \in due : m # n => (<<m, n>> \in before <=> <<n, m>> \notin before)
    /\ \A m \in due : <<m, m>> \notin before
    /\ \A l, m, n \in due : <<l, m>> \in before /\ <<m, n>> \in before => <<l, n>> \in before

(* A schedule that leaves leaves the others in their order.                 *)
LEMMA Left ==
  ASSUME Times, NEW m \in Monitors, Leave(m),
         later' = later \cup {m} \/ later' = later \ {m}
  PROVE  Times'
  BY DEF Times, Leave

(* One that becomes due does so after all others.                           *)
LEMMA BecameDue ==
  ASSUME Times, NEW m \in Monitors, SetNow(m)
  PROVE  Times'
  BY DEF Times, SetNow

(* What is left of a sequence without its head.                             *)
LEMMA TailOf ==
  ASSUME NEW q \in Seq(Monitors), q # <<>>
  PROVE  /\ Tail(q) \in Seq(Monitors) /\ Len(Tail(q)) = Len(q) - 1
         /\ Head(q) = q[1] /\ Head(q) \in Monitors /\ 1 \in 1 .. Len(q)
         /\ \A i \in 1 .. Len(Tail(q)) : Tail(q)[i] = q[i + 1] /\ i + 1 \in 1 .. Len(q)
         /\ \A i \in 1 .. Len(q) : i # 1 => i - 1 \in 1 .. Len(Tail(q)) /\ Tail(q)[i - 1] = q[i]
<1>1. Len(q) \in Nat /\ Len(q) # 0 /\ q \in [1 .. Len(q) -> Monitors]
  OBVIOUS
<1> QED
  BY <1>1

LEMMA TailRange ==
  ASSUME NEW q \in Seq(Monitors), q # <<>>
  PROVE  /\ Range(Tail(q)) \subseteq Range(q)
         /\ \A x \in Range(q) : x # Head(q) => x \in Range(Tail(q))
         /\ Head(q) \in Range(q)
<1>1. DOMAIN q = 1 .. Len(q) /\ DOMAIN Tail(q) = 1 .. Len(Tail(q))
  BY TailOf
<1>2. Range(q) = {q[i] : i \in 1 .. Len(q)}
  BY <1>1 DEF Range
<1>3. Range(Tail(q)) = {Tail(q)[i] : i \in 1 .. Len(Tail(q))}
  BY <1>1 DEF Range
<1>4. \A x \in Range(Tail(q)) : x \in Range(q)
  BY <1>2, <1>3, TailOf
<1>5. \A x \in Range(q) : x # Head(q) => x \in Range(Tail(q))
  <2> SUFFICES ASSUME NEW i \in 1 .. Len(q), q[i] # Head(q) PROVE q[i] \in Range(Tail(q))
    BY <1>2
  <2>1. i # 1 /\ i - 1 \in 1 .. Len(Tail(q)) /\ Tail(q)[i - 1] = q[i]
    BY TailOf
  <2> QED
    BY <2>1, <1>3
<1> QED
  BY <1>2, <1>4, <1>5, TailOf

(* Without its head a sequence of different monitors is one.                *)
LEMMA TailDiffers ==
  ASSUME NEW q \in Seq(Monitors), q # <<>>, \A i, j \in DOMAIN q : q[i] = q[j] => i = j
  PROVE  \A i, j \in DOMAIN Tail(q) : Tail(q)[i] = Tail(q)[j] => i = j
<1>1. DOMAIN q = 1 .. Len(q) /\ DOMAIN Tail(q) = 1 .. Len(Tail(q))
  BY TailOf
<1> SUFFICES ASSUME NEW i \in 1 .. Len(Tail(q)), NEW j \in 1 .. Len(Tail(q)),
                    Tail(q)[i] = Tail(q)[j]
             PROVE  i = j
  BY <1>1
<1>2. q[i + 1] = q[j + 1] /\ i + 1 \in 1 .. Len(q) /\ j + 1 \in 1 .. Len(q)
  BY TailOf
<1>3. i + 1 = j + 1
  BY <1>1, <1>2
<1> QED
  BY <1>3

------------------------------------------------------------------------------
(* The lock.                                                                *)
(* The steps of a scan.                                                     *)
PC == {"idle", "select", "each", "insert", "send", "move", "reload"}

(* Whoever scans holds the lock, and so does a connection that failed to    *)
(* give it back: there is one lock, so at most one of them at a time.       *)
LockHeld ==
    /\ pc \in [Scanners -> PC]
    /\ leaked \subseteq Scanners
    /\ \A s \in Scanners : pc[s] # "idle" \/ s \in leaked => lock = s

LEMMA LockInitially == Init => LockHeld
  BY DEF Init, LockHeld, PC

(* Every step keeps that.                                                   *)
LEMMA LockKept == ASSUME LockHeld, [Next]_vars PROVE LockHeld'
<1>1. ASSUME NEW m \in Monitors, SaveSchedule(m, TRUE) PROVE LockHeld'
  BY <1>1 DEF SaveSchedule, scan, LockHeld
<1>2. ASSUME NEW m \in Monitors, SaveSchedule(m, FALSE) PROVE LockHeld'
  BY <1>2 DEF SaveSchedule, scan, LockHeld
<1>3. ASSUME NEW m \in Monitors, SetStatus(m) PROVE LockHeld'
  BY <1>3 DEF SetStatus, scan, LockHeld
<1>4. ASSUME NEW m \in Monitors, DeleteMonitor(m) PROVE LockHeld'
  BY <1>4 DEF DeleteMonitor, scan, LockHeld
<1>5. ASSUME NEW m \in Monitors, RunByHand(m) PROVE LockHeld'
  BY <1>5 DEF RunByHand, scan, LockHeld
<1>6. ASSUME NEW m \in Monitors, CancelRun(m) PROVE LockHeld'
  BY <1>6 DEF CancelRun, scan, LockHeld
<1>7. ASSUME NEW m \in Monitors, SettleRun(m) PROVE LockHeld'
  BY <1>7 DEF SettleRun, scan, LockHeld
<1>8. ASSUME NEW m \in Monitors, Elapse(m) PROVE LockHeld'
  BY <1>8 DEF Elapse, scan, LockHeld
<1>9. ASSUME NEW s \in Scanners, TryLock(s) PROVE LockHeld'
  BY <1>9, ScanAssumption DEF TryLock, Goto, LockHeld, PC
<1>10. ASSUME NEW s \in Scanners, SelectDue(s) PROVE LockHeld'
  BY <1>10, ScanAssumption DEF SelectDue, Goto, LockHeld, PC
<1>11. ASSUME NEW s \in Scanners, Examine(s) PROVE LockHeld'
  BY <1>11, ScanAssumption DEF Examine, Goto, LockHeld, PC
<1>12. ASSUME NEW s \in Scanners, InsertRun(s) PROVE LockHeld'
  <2>1. lock = s /\ NoScanner \notin Scanners
    BY <1>12, ScanAssumption DEF InsertRun, LockHeld
  <2>2. /\ \A u \in Scanners \ {s} : pc'[u] = pc[u] /\ (u \in leaked' <=> u \in leaked)
        /\ pc' \in [Scanners -> PC] /\ leaked' \subseteq Scanners
        /\ lock' = s \/ (pc'[s] = "idle" /\ s \notin leaked')
    BY <1>12, <2>1 DEF InsertRun, Goto, Leaves, LockHeld, PC
  <2> QED
    BY <2>1, <2>2 DEF LockHeld
<1>13. ASSUME NEW s \in Scanners, SendRun(s) PROVE LockHeld'
  <2>1. lock = s /\ NoScanner \notin Scanners
    BY <1>13, ScanAssumption DEF SendRun, LockHeld
  <2>2. /\ \A u \in Scanners \ {s} : pc'[u] = pc[u] /\ (u \in leaked' <=> u \in leaked)
        /\ pc' \in [Scanners -> PC] /\ leaked' \subseteq Scanners
        /\ lock' = s \/ (pc'[s] = "idle" /\ s \notin leaked')
    BY <1>13, <2>1 DEF SendRun, Goto, Leaves, LockHeld, PC
  <2> QED
    BY <2>1, <2>2 DEF LockHeld
<1>14. ASSUME NEW s \in Scanners, MoveOn(s) PROVE LockHeld'
  <2>1. lock = s /\ NoScanner \notin Scanners
    BY <1>14, ScanAssumption DEF MoveOn, LockHeld
  <2>2. /\ \A u \in Scanners \ {s} : pc'[u] = pc[u] /\ (u \in leaked' <=> u \in leaked)
        /\ pc' \in [Scanners -> PC] /\ leaked' \subseteq Scanners
        /\ lock' = s \/ (pc'[s] = "idle" /\ s \notin leaked')
    BY <1>14, <2>1 DEF MoveOn, Goto, Leaves, LockHeld, PC
  <2> QED
    BY <2>1, <2>2 DEF LockHeld
<1>15. ASSUME NEW s \in Scanners, EndScan(s) PROVE LockHeld'
  BY <1>15, ScanAssumption DEF EndScan, Leaves, Goto, LockHeld, PC
<1>16. ASSUME NEW s \in Scanners, Crash(s) PROVE LockHeld'
  BY <1>16, ScanAssumption DEF Crash, Goto, LockHeld, PC
<1>17. CASE UNCHANGED vars
  BY <1>17 DEF vars, scan, LockHeld
<1> QED
  BY <1>1, <1>2, <1>3, <1>4, <1>5, <1>6, <1>7, <1>8, <1>9, <1>10, <1>11, <1>12, <1>13,
     <1>14, <1>15, <1>16, <1>17 DEF Next, ScanStep

(* Scans exclude each other (pg_try_advisory_lock, the unlock in the        *)
(* finally block of scan_monitor_schedules, and what a failed unlock or a   *)
(* dead process leaves of it).                                              *)
THEOREM OneScanAtATimeAlways == SafetySpec => []OneScanAtATime
<1>1. LockHeld => OneScanAtATime
  BY DEF LockHeld, OneScanAtATime
<1> QED
  BY <1>1, LockInitially, LockKept, PTL DEF SafetySpec

------------------------------------------------------------------------------
(* Rows.  What a scan has selected and not yet handled are different        *)
(* monitors, and those of them that have a time are enabled: it selected    *)
(* them so, and switching one off clears its time.  A due schedule whose    *)
(* slot has had its run has that run with a worker and is enabled, so the   *)
(* end of the run moves it on.                                              *)
Rows ==
    /\ Times
    /\ alive \in [Monitors -> BOOLEAN] /\ enabled \in [Monitors -> BOOLEAN]
    /\ job \in [Monitors -> {"none", "unsent", "sent"}]
    /\ served \subseteq Monitors
    /\ todo \in [Scanners -> Seq(Monitors)]
    /\ \A m \in Monitors : enabled[m] => alive[m]
    /\ \A m \in due \cap served : job[m] = "sent" /\ enabled[m]

Selected(s) ==
    /\ \A i, j \in DOMAIN todo[s] : todo[s][i] = todo[s][j] => i = j
    /\ \A m \in Range(todo[s]) \cap (due \cup later) : enabled[m]
    /\ todo[s] # <<>> => pc[s] # "idle"
    /\ pc[s] \in {"insert", "send", "move", "reload"} => todo[s] # <<>>

Scans == \A s \in Scanners : Selected(s)

(* What a scan may have left to do.                                         *)
LEMMA TodoSet ==
  ASSUME todo \in [Scanners -> Seq(Monitors)], NEW s \in Scanners, NEW q \in Seq(Monitors),
         todo' = todo \/ todo' = [todo EXCEPT ![s] = q] \/ todo' = [todo EXCEPT ![s] = <<>>]
  PROVE  todo' \in [Scanners -> Seq(Monitors)]
<1>1. <<>> \in Seq(Monitors)
  OBVIOUS
<1> QED
  BY <1>1

(* Leave, SetNull and SetLater take a schedule off the due ones; SetNow     *)
(* makes it due for a slot that has not had its run.                        *)
LEMMA RowsLeft ==
  ASSUME Rows, NEW m \in Monitors, Leave(m), later' = later \cup {m} \/ later' = later \ {m},
         UNCHANGED <<alive, served, todo>>,
         enabled' \in [Monitors -> BOOLEAN],
         \A n \in Monitors \ {m} : enabled'[n] = enabled[n] /\ job'[n] = job[n],
         enabled'[m] => alive[m],
         job' \in [Monitors -> {"none", "unsent", "sent"}]
  PROVE  Rows'
<1>1. Times' /\ due' = due \ {m}
  BY Left DEF Rows, Leave
<1> QED
  BY <1>1 DEF Rows

LEMMA RowsNow ==
  ASSUME Rows, NEW m \in Monitors, SetNow(m),
         UNCHANGED <<alive, job, todo>>,
         enabled' = enabled \/ (alive[m] /\ enabled' = [enabled EXCEPT ![m] = TRUE])
  PROVE  Rows'
<1>1. Times' /\ due' = due \cup {m} /\ served' = served \ {m}
  BY BecameDue DEF Rows, SetNow
<1> QED
  BY <1>1 DEF Rows

(* Each action on the rows.                                                 *)
LEMMA RowsKept ==
  ASSUME Rows, Scans, [Next]_vars
  PROVE  Rows'
<1> USE DEF schedules, scan
<1>1. ASSUME NEW m \in Monitors, SaveSchedule(m, TRUE) PROVE Rows'
  <2>1. CASE UNCHANGED <<due, before, later, served>>
    BY <1>1, <2>1 DEF SaveSchedule, Rows, Times
  <2>2. CASE SetNow(m)
    BY <1>1, <2>2, RowsNow DEF SaveSchedule
  <2> QED
    BY <1>1, <2>1, <2>2 DEF SaveSchedule
<1>2. ASSUME NEW m \in Monitors, SaveSchedule(m, FALSE) PROVE Rows'
  <2>1. /\ Leave(m) /\ later' = later \ {m} /\ UNCHANGED <<alive, served, todo, job>>
        /\ enabled' = [enabled EXCEPT ![m] = FALSE]
    BY <1>2 DEF SaveSchedule, SetNull
  <2> QED
    BY <2>1, RowsLeft DEF Rows
<1>3. ASSUME NEW m \in Monitors, SetStatus(m) PROVE Rows'
  BY <1>3 DEF SetStatus, Rows, Times
<1>4. ASSUME NEW m \in Monitors, DeleteMonitor(m) PROVE Rows'
  <2>1. /\ Times' /\ due' = due \ {m}
    BY <1>4, Left DEF DeleteMonitor, SetNull, Rows, Leave
  <2> QED
    BY <1>4, <2>1 DEF DeleteMonitor, Rows
<1>5. ASSUME NEW m \in Monitors, RunByHand(m) PROVE Rows'
  BY <1>5 DEF RunByHand, Rows, Times
<1>6. ASSUME NEW m \in Monitors, CancelRun(m) PROVE Rows'
  BY <1>6 DEF CancelRun, Rows, Times
<1>7. ASSUME NEW m \in Monitors, SettleRun(m) PROVE Rows'
  <2>1. /\ UNCHANGED <<alive, enabled, served, todo>>
        /\ \A n \in Monitors \ {m} : job'[n] = job[n]
        /\ job' \in [Monitors -> {"none", "unsent", "sent"}]
        /\ job' = job \/ job' = [job EXCEPT ![m] = "none"]
    BY <1>7 DEF SettleRun, Rows
  <2>2. CASE enabled[m]
    BY <1>7, <2>1, <2>2, RowsLeft DEF SettleRun, SetLater, Rows
  <2>3. CASE ~ enabled[m]
    BY <1>7, <2>1, <2>3 DEF SettleRun, Rows, Times
  <2> QED
    BY <2>2, <2>3
<1>8. ASSUME NEW m \in Monitors, Elapse(m) PROVE Rows'
  BY <1>8, RowsNow DEF Elapse
<1>9. ASSUME NEW s \in Scanners, TryLock(s) PROVE Rows'
  BY <1>9 DEF TryLock, Rows, Times
<1>10. ASSUME NEW s \in Scanners, SelectDue(s) PROVE Rows'
  <2>0. PICK n \in 0 .. MaxDue :
          \E rows \in [1 .. n -> due] : todo' = [todo EXCEPT ![s] = rows]
    <3>1. \A k \in Nat : [1 .. k -> {m \in due : enabled[m] /\ ~ paused[m] /\ ~ Locked(m)}]
                          \subseteq [1 .. k -> due]
      OBVIOUS
    <3> QED
      BY <1>10, <3>1, ScanAssumption DEF SelectDue
  <2>1. PICK rows \in [1 .. n -> due] : todo' = [todo EXCEPT ![s] = rows]
    BY <2>0
  <2>2. n \in Nat /\ rows \in [1 .. n -> Monitors]
    BY ScanAssumption DEF Rows, Times
  <2>3. rows \in Seq(Monitors)
    BY <2>2
  <2>4. todo' \in [Scanners -> Seq(Monitors)]
    BY <2>1, <2>3, TodoSet DEF Rows
  <2> QED
    BY <1>10, <2>4 DEF SelectDue, Rows, Times
<1>11. ASSUME NEW s \in Scanners, Examine(s) PROVE Rows'
  <2>1. todo' \in [Scanners -> Seq(Monitors)]
    <3>1. todo' = todo \/ todo' = [todo EXCEPT ![s] = Tail(todo[s])]
      BY <1>11 DEF Examine, Rows
    <3>2. todo[s] \in Seq(Monitors) /\ todo[s] # <<>>
      BY <1>11 DEF Examine, Rows
    <3> QED
      BY <3>1, <3>2, TailOf, TodoSet DEF Rows
  <2> QED
    BY <1>11, <2>1 DEF Examine, Rows, Times
<1>12. ASSUME NEW s \in Scanners, InsertRun(s) PROVE Rows'
  <2>1. todo[s] \in Seq(Monitors) /\ todo[s] # <<>>
    BY <1>12 DEF InsertRun, Rows, Scans, Selected
  <2>2. Head(todo[s]) \in Monitors
    BY <2>1, TailOf
  <2>3. todo' \in [Scanners -> Seq(Monitors)]
    BY <1>12, <2>1, TodoSet DEF InsertRun, Leaves, Rows
  <2>4. /\ UNCHANGED <<alive, enabled, due, before, later, served>>
        /\ \/ UNCHANGED job
           \/ /\ job[Head(todo[s])] = "none"
              /\ job' = [job EXCEPT ![Head(todo[s])] = "unsent"]
    BY <1>12 DEF InsertRun
  <2>5. Times'
    BY <2>4 DEF Rows, Times
  <2> QED
    BY <2>2, <2>3, <2>4, <2>5 DEF Rows
<1>13. ASSUME NEW s \in Scanners, SendRun(s) PROVE Rows'
  <2>1. todo[s] \in Seq(Monitors) /\ todo[s] # <<>>
    BY <1>13 DEF SendRun, Rows, Scans, Selected
  <2> DEFINE m == Head(todo[s])
  <2>2. m \in Monitors /\ (m \in due => enabled[m])
    BY <1>13, <2>1, TailOf, TailRange DEF SendRun, Scans, Selected
  <2>3. todo' \in [Scanners -> Seq(Monitors)]
    BY <1>13, <2>1, TodoSet DEF SendRun, Leaves, Rows
  <2>4. /\ UNCHANGED <<alive, enabled, due, before, later>>
        /\ \/ UNCHANGED <<job, served>>
           \/ /\ job[m] = "unsent" /\ job' = [job EXCEPT ![m] = "sent"]
              /\ served' = served \cup {m}
           \/ /\ job[m] = "unsent" /\ job' = [job EXCEPT ![m] = "none"]
              /\ UNCHANGED served
    BY <1>13, <2>2 DEF SendRun, Rows
  <2> HIDE DEF m
  <2>5. Times'
    BY <2>4 DEF Rows, Times
  <2>6. /\ job' \in [Monitors -> {"none", "unsent", "sent"}] /\ served' \subseteq Monitors
        /\ \A n \in due' \cap served' : job'[n] = "sent" /\ enabled'[n]
    BY <2>2, <2>4 DEF Rows
  <2> QED
    BY <2>3, <2>4, <2>5, <2>6 DEF Rows
<1>14. ASSUME NEW s \in Scanners, MoveOn(s) PROVE Rows'
  <2>1. todo[s] \in Seq(Monitors) /\ todo[s] # <<>>
    BY <1>14 DEF MoveOn, Rows, Scans, Selected
  <2> DEFINE m == Head(todo[s])
  <2>2. m \in Monitors
    BY <2>1, TailOf
  <2>3. todo' \in [Scanners -> Seq(Monitors)]
    <3>1. todo' = [todo EXCEPT ![s] = Tail(@)] \/ todo' = [todo EXCEPT ![s] = <<>>]
      BY <1>14 DEF MoveOn, Leaves
    <3>2. todo' = [todo EXCEPT ![s] = Tail(todo[s])] \/ todo' = [todo EXCEPT ![s] = <<>>]
      BY <3>1 DEF Rows
    <3> QED
      BY <2>1, <3>2, TailOf, TodoSet DEF Rows
  <2>4. CASE UNCHANGED <<due, before, later>>
    BY <1>14, <2>3, <2>4 DEF MoveOn, Rows, Times
  <2>5. CASE SetLater(m)
    <3>1. Times' /\ due' = due \ {m}
      BY <2>2, <2>5, Left DEF SetLater, Rows, Leave
    <3> QED
      BY <1>14, <2>3, <3>1 DEF MoveOn, Rows
  <2> QED
    BY <1>14, <2>4, <2>5 DEF MoveOn
<1>15. ASSUME NEW s \in Scanners, EndScan(s) PROVE Rows'
  BY <1>15 DEF EndScan, Leaves, Rows, Times
<1>16. ASSUME NEW s \in Scanners, Crash(s) PROVE Rows'
  BY <1>16 DEF Crash, Rows, Times
<1>17. CASE UNCHANGED vars
  BY <1>17 DEF vars, Rows, Times
<1> QED
  BY <1>1, <1>2, <1>3, <1>4, <1>5, <1>6, <1>7, <1>8, <1>9, <1>10, <1>11, <1>12, <1>13,
     <1>14, <1>15, <1>16, <1>17
  DEF Next, ScanStep

(* A user, a worker or the clock at the schedule of m.                      *)
LEMMA ScansStay ==
  ASSUME Scans, UNCHANGED <<todo, pc>>, NEW m \in Monitors,
         due' \cup later' \subseteq due \cup later \cup {m},
         \A n \in Monitors \ {m} : enabled'[n] = enabled[n],
         \/ m \in due' \cup later' => enabled'[m]
         \/ enabled'[m] = enabled[m] /\ due' \cup later' \subseteq due \cup later,
         due' \cup later' \subseteq Monitors
  PROVE  Scans'
  BY DEF Scans, Selected

(* A scan that works is alone, so the others have nothing left to do.       *)
LEMMA ScansAlone ==
  ASSUME Rows, Scans, LockHeld, NEW s \in Scanners, pc[s] # "idle",
         \A t \in Scanners \ {s} : todo'[t] = todo[t] /\ pc'[t] = pc[t],
         Selected(s)'
  PROVE  Scans'
<1>1. \A t \in Scanners \ {s} : pc[t] = "idle"
  BY DEF LockHeld
<1>2. \A t \in Scanners \ {s} : todo[t] = <<>>
  BY <1>1 DEF Scans, Selected
<1>3. ASSUME NEW t \in Scanners \ {s} PROVE Selected(t)'
  <2>1. todo'[t] = <<>> /\ pc'[t] = "idle"
    BY <1>1, <1>2
  <2> QED
    BY <2>1 DEF Selected, Range
<1> QED
  BY <1>3 DEF Scans

(* A scan that has ended has nothing left to do.                            *)
LEMMA NothingSelected ==
  ASSUME NEW s \in Scanners, todo'[s] = <<>>, pc'[s] \notin {"insert", "send", "move", "reload"}
  PROVE  Selected(s)'
  BY DEF Selected, Range

(* Each action on what the scans have selected.                             *)
LEMMA ScansKept ==
  ASSUME Rows, Scans, LockHeld, [Next]_vars
  PROVE  Scans'
<1> USE DEF schedules, scan
<1>1. ASSUME NEW m \in Monitors, SaveSchedule(m, TRUE) PROVE Scans'
  <2>1. due' \cup later' \subseteq due \cup later \cup {m}
    BY <1>1 DEF SaveSchedule, SetNow
  <2>2. due' \cup later' \subseteq Monitors
    BY <1>1, <2>1 DEF Rows, Times
  <2> QED
    BY <1>1, <2>1, <2>2, ScansStay DEF SaveSchedule, Rows
<1>2. ASSUME NEW m \in Monitors, SaveSchedule(m, FALSE) PROVE Scans'
  <2>1. due' \cup later' \subseteq (due \cup later) \ {m} /\ due' \cup later' \subseteq Monitors
    BY <1>2 DEF SaveSchedule, SetNull, Leave, Rows, Times
  <2> QED
    BY <1>2, <2>1, ScansStay DEF SaveSchedule, Rows
<1>3. ASSUME NEW m \in Monitors, SetStatus(m) PROVE Scans'
  BY <1>3 DEF SetStatus, Scans, Selected
<1>4. ASSUME NEW m \in Monitors, DeleteMonitor(m) PROVE Scans'
  <2>1. due' \cup later' \subseteq (due \cup later) \ {m} /\ due' \cup later' \subseteq Monitors
    BY <1>4 DEF DeleteMonitor, SetNull, Leave, Rows, Times
  <2> QED
    BY <1>4, <2>1, ScansStay DEF DeleteMonitor, Rows
<1>5. ASSUME NEW m \in Monitors, RunByHand(m) PROVE Scans'
  BY <1>5 DEF RunByHand, Scans, Selected
<1>6. ASSUME NEW m \in Monitors, CancelRun(m) PROVE Scans'
  BY <1>6 DEF CancelRun, Scans, Selected
<1>7. ASSUME NEW m \in Monitors, SettleRun(m) PROVE Scans'
  <2>1. due' \cup later' \subseteq due \cup later \cup {m} /\ due' \cup later' \subseteq Monitors
    BY <1>7 DEF SettleRun, SetLater, Leave, Rows, Times
  <2>2. enabled[m] \/ due' \cup later' \subseteq due \cup later
    BY <1>7 DEF SettleRun
  <2> QED
    BY <1>7, <2>1, <2>2, ScansStay DEF SettleRun, Rows
<1>8. ASSUME NEW m \in Monitors, Elapse(m) PROVE Scans'
  <2>1. due' \cup later' \subseteq due \cup later /\ due' \cup later' \subseteq Monitors
    BY <1>8 DEF Elapse, SetNow, Rows, Times
  <2> QED
    BY <1>8, <2>1, ScansStay DEF Elapse, Rows
<1>9. ASSUME NEW s \in Scanners, TryLock(s) PROVE Scans'
  <2>1. /\ UNCHANGED <<todo, due, later, enabled>>
        /\ pc' = [pc EXCEPT ![s] = "select"]
    BY <1>9 DEF TryLock, Goto
  <2> QED
    BY <2>1 DEF Scans, Selected, LockHeld
<1>10. ASSUME NEW s \in Scanners, SelectDue(s) PROVE Scans'
  <2>1. \A t \in Scanners \ {s} : todo'[t] = todo[t] /\ pc'[t] = pc[t]
    BY <1>10 DEF SelectDue, Goto, Rows, LockHeld
  <2>2. PICK n \in 0 .. MaxDue :
          \E rows \in [1 .. n -> {m \in due : enabled[m] /\ ~ paused[m] /\ ~ Locked(m)}] :
             /\ \A i, j \in 1 .. n : i < j => <<rows[i], rows[j]>> \in before
             /\ todo' = [todo EXCEPT ![s] = rows]
    BY <1>10 DEF SelectDue
  <2>3. PICK rows \in [1 .. n -> {m \in due : enabled[m] /\ ~ paused[m] /\ ~ Locked(m)}] :
             /\ \A i, j \in 1 .. n : i < j => <<rows[i], rows[j]>> \in before
             /\ todo' = [todo EXCEPT ![s] = rows]
    BY <2>2
  <2>4. todo'[s] = rows /\ pc'[s] = "each"
    BY <1>10, <2>3 DEF SelectDue, Goto, Rows, LockHeld
  <2>5. \A i, j \in 1 .. n : i < j => rows[i] # rows[j]
    BY <2>3 DEF Rows, Times
  <2>6. \A i, j \in 1 .. n : rows[i] = rows[j] => i = j
    <3>1. \A i, j \in 1 .. n : i < j \/ j < i \/ i = j
      BY ScanAssumption
    <3> QED
      BY <2>5, <3>1
  <2>7. \A m \in Range(rows) : enabled[m]
    BY DEF Range
  <2>8. Selected(s)'
    BY <1>10, <2>4, <2>6, <2>7 DEF Selected, SelectDue
  <2> QED
    BY <1>10, <2>1, <2>8, ScansAlone DEF SelectDue
<1>11. ASSUME NEW s \in Scanners, Examine(s) PROVE Scans'
  <2>1. \A t \in Scanners \ {s} : todo'[t] = todo[t] /\ pc'[t] = pc[t]
    BY <1>11 DEF Examine, Leaves, Goto, Rows, LockHeld
  <2>2. /\ todo[s] \in Seq(Monitors) /\ todo[s] # <<>> /\ Selected(s) /\ pc[s] # "idle"
    BY <1>11 DEF Examine, Rows, Scans, Selected
  <2>3. UNCHANGED <<due, later, enabled>>
    BY <1>11 DEF Examine
  <2>4. CASE todo'[s] = todo[s] /\ pc'[s] \in {"move", "insert"}
    <3>1. Selected(s)'
      BY <2>2, <2>3, <2>4 DEF Selected
    <3> QED
      BY <2>1, <2>2, <3>1, ScansAlone
  <2>5. CASE todo'[s] = Tail(todo[s]) /\ pc'[s] = "each" /\ TRUE
    <3>1. \A i, j \in DOMAIN Tail(todo[s]) : Tail(todo[s])[i] = Tail(todo[s])[j] => i = j
      BY <2>2, TailDiffers DEF Selected
    <3>2. Selected(s)'
      BY <2>2, <2>3, <2>5, <3>1, TailRange DEF Selected
    <3> QED
      BY <2>1, <2>2, <3>2, ScansAlone
  <2> QED
    BY <1>11, <2>4, <2>5 DEF Examine, Goto, Rows, LockHeld
<1>12. ASSUME NEW s \in Scanners, InsertRun(s) PROVE Scans'
  <2>1. \A t \in Scanners \ {s} : todo'[t] = todo[t] /\ pc'[t] = pc[t]
    BY <1>12 DEF InsertRun, Leaves, Goto, Rows, LockHeld
  <2>2. /\ todo[s] \in Seq(Monitors) /\ todo[s] # <<>> /\ Selected(s) /\ pc[s] # "idle"
    BY <1>12 DEF InsertRun, Rows, Scans, Selected
  <2>3. UNCHANGED <<due, later, enabled>>
    BY <1>12 DEF InsertRun
  <2>4. \/ todo'[s] = <<>> /\ pc'[s] = "idle"
        \/ todo'[s] = todo[s] /\ pc'[s] \in {"send", "reload"}
    BY <1>12 DEF InsertRun, Leaves, Goto, Rows, LockHeld
  <2>5. Selected(s)'
    BY <2>2, <2>3, <2>4, NothingSelected DEF Selected
  <2> QED
    BY <2>1, <2>2, <2>5, ScansAlone
<1>13. ASSUME NEW s \in Scanners, SendRun(s) PROVE Scans'
  <2>1. \A t \in Scanners \ {s} : todo'[t] = todo[t] /\ pc'[t] = pc[t]
    BY <1>13 DEF SendRun, Leaves, Goto, Rows, LockHeld
  <2>2. /\ todo[s] \in Seq(Monitors) /\ todo[s] # <<>> /\ Selected(s) /\ pc[s] # "idle"
    BY <1>13 DEF SendRun, Rows, Scans, Selected
  <2>3. UNCHANGED <<due, later, enabled>>
    BY <1>13 DEF SendRun
  <2>4. \/ todo'[s] = <<>> /\ pc'[s] = "idle"
        \/ todo'[s] = todo[s] /\ pc'[s] \in {"move", "reload"}
    BY <1>13 DEF SendRun, Leaves, Goto, Rows, LockHeld
  <2>5. Selected(s)'
    BY <2>2, <2>3, <2>4, NothingSelected DEF Selected
  <2> QED
    BY <2>1, <2>2, <2>5, ScansAlone
<1>14. ASSUME NEW s \in Scanners, MoveOn(s) PROVE Scans'
  <2>1. \A t \in Scanners \ {s} : todo'[t] = todo[t] /\ pc'[t] = pc[t]
    BY <1>14 DEF MoveOn, Leaves, Goto, Rows, LockHeld
  <2>2. /\ todo[s] \in Seq(Monitors) /\ todo[s] # <<>> /\ Selected(s) /\ pc[s] # "idle"
    BY <1>14 DEF MoveOn, Rows, Scans, Selected
  <2>3. UNCHANGED enabled /\ due \cup later \subseteq Monitors
    BY <1>14 DEF MoveOn, Rows, Times
  <2>4. CASE todo'[s] = <<>> /\ pc'[s] = "idle"
    BY <2>1, <2>2, <2>4, NothingSelected, ScansAlone
  <2>5. CASE todo'[s] = Tail(todo[s]) /\ pc'[s] = "each" /\ SetLater(Head(todo[s]))
    <3>1. \A i, j \in DOMAIN Tail(todo[s]) : Tail(todo[s])[i] = Tail(todo[s])[j] => i = j
      BY <2>2, TailDiffers DEF Selected
    <3>2. Head(todo[s]) \notin Range(Tail(todo[s]))
      <4>1. /\ DOMAIN todo[s] = 1 .. Len(todo[s])
            /\ Range(Tail(todo[s])) = {Tail(todo[s])[i] : i \in 1 .. Len(Tail(todo[s]))}
        <5>1. Tail(todo[s]) \in Seq(Monitors)
          BY <2>2, TailOf
        <5>2. \A q \in Seq(Monitors) : DOMAIN q = 1 .. Len(q)
          OBVIOUS
        <5> QED
          BY <2>2, <5>1, <5>2 DEF Range
      <4>2. \A i \in 1 .. Len(Tail(todo[s])) : i + 1 # 1
        BY <2>2, TailOf
      <4> QED
        BY <4>1, <4>2, <2>2, TailOf DEF Selected
    <3>3. due' \cup later' \subseteq due \cup later \cup {Head(todo[s])}
      BY <2>5 DEF SetLater, Leave
    <3>4. Selected(s)'
      BY <2>2, <2>3, <2>5, <3>1, <3>2, <3>3, TailRange DEF Selected
    <3> QED
      BY <2>1, <2>2, <3>4, ScansAlone
  <2>6. /\ todo' = [todo EXCEPT ![s] = <<>>] \/ todo' = [todo EXCEPT ![s] = Tail(todo[s])]
        /\ pc[s] # "idle"
    BY <1>14 DEF MoveOn, Leaves, Rows
  <2> QED
    BY <1>14, <2>4, <2>5, <2>6 DEF MoveOn, Leaves, Goto, Rows, LockHeld
<1>15. ASSUME NEW s \in Scanners, EndScan(s) PROVE Scans'
  <2>1. todo'[s] = <<>> /\ pc'[s] = "idle"
    BY <1>15 DEF EndScan, Leaves, Goto, Rows, LockHeld
  <2>2. \A t \in Scanners \ {s} : todo'[t] = todo[t] /\ pc'[t] = pc[t]
    BY <1>15 DEF EndScan, Leaves, Goto, Rows, LockHeld
  <2> QED
    BY <1>15, <2>1, <2>2, NothingSelected, ScansAlone DEF EndScan
<1>16. ASSUME NEW s \in Scanners, Crash(s) PROVE Scans'
  <2>1. todo'[s] = <<>> /\ pc'[s] = "idle"
    BY <1>16 DEF Crash, Leaves, Goto, Rows, LockHeld
  <2>2. \A t \in Scanners \ {s} : todo'[t] = todo[t] /\ pc'[t] = pc[t]
    BY <1>16 DEF Crash, Leaves, Goto, Rows, LockHeld
  <2> QED
    BY <1>16, <2>1, <2>2, NothingSelected, ScansAlone DEF Crash
<1>17. CASE UNCHANGED vars
  BY <1>17 DEF vars, Scans, Selected
<1> QED
  BY <1>1, <1>2, <1>3, <1>4, <1>5, <1>6, <1>7, <1>8, <1>9, <1>10, <1>11, <1>12, <1>13,
     <1>14, <1>15, <1>16, <1>17
  DEF Next, ScanStep

(* The rest of the types.  A scan has locked rows it has yet to handle, and *)
(* a locked row is not deleted.                                             *)
Locks ==
    /\ paused \in [Monitors -> BOOLEAN] /\ trailing \subseteq Monitors
    /\ lock \in Scanners \cup {NoScanner}
    /\ doomed \in [Scanners -> BOOLEAN] /\ faults \in 0 .. MaxFaults
    /\ \A s \in Scanners : Len(todo[s]) <= MaxDue
    /\ held \in [Scanners -> SUBSET Monitors]
    /\ \A s \in Scanners : held[s] \subseteq Range(todo[s])
    /\ \A s \in Scanners : \A m \in held[s] : alive[m]

(* A scan changes what it has to do, and the rows it has locked, alone.     *)
LEMMA TodoAt ==
  ASSUME Rows, Locks, NEW s \in Scanners, NEW q \in Seq(Monitors),
         UNCHANGED todo \/ todo' = [todo EXCEPT ![s] = q] \/ todo' = [todo EXCEPT ![s] = <<>>],
         Len(q) <= MaxDue
  PROVE  \A t \in Scanners : Len(todo'[t]) <= MaxDue
<1>1. Len(<<>>) = 0 /\ MaxDue \in Nat
  BY ScanAssumption
<1>2. \A t \in Scanners : Len(todo[t]) <= MaxDue
  BY DEF Locks
<1>3. \A t \in Scanners : todo'[t] = todo[t] \/ todo'[t] = q \/ todo'[t] = <<>>
  BY DEF Rows
<1> QED
  BY <1>1, <1>2, <1>3

LEMMA HeldAt ==
  ASSUME Rows, Locks, NEW s \in Scanners,
         \A t \in Scanners \ {s} : todo'[t] = todo[t],
         \/ held' = [held EXCEPT ![s] = {}]
         \/ held' = held /\ todo'[s] = todo[s]
  PROVE  \A t \in Scanners : held'[t] \subseteq Range(todo'[t])
<1>1. held \in [Scanners -> SUBSET Monitors]
  BY DEF Locks
<1>2. \A t \in Scanners : held'[t] = {} \/ (held'[t] = held[t] /\ todo'[t] = todo[t])
  BY <1>1
<1> QED
  BY <1>2 DEF Locks

LEMMA LocksKept ==
  ASSUME Rows, Scans, Locks, [Next]_vars
  PROVE  Locks'
<1> USE DEF schedules, scan
<1>1. ASSUME NEW m \in Monitors, SaveSchedule(m, TRUE) PROVE Locks'
  BY <1>1 DEF SaveSchedule, Locks
<1>2. ASSUME NEW m \in Monitors, SaveSchedule(m, FALSE) PROVE Locks'
  BY <1>2 DEF SaveSchedule, Locks
<1>3. ASSUME NEW m \in Monitors, SetStatus(m) PROVE Locks'
  BY <1>3 DEF SetStatus, Locks
<1>4. ASSUME NEW m \in Monitors, DeleteMonitor(m) PROVE Locks'
  BY <1>4 DEF DeleteMonitor, Locked, Locks, Rows
<1>5. ASSUME NEW m \in Monitors, RunByHand(m) PROVE Locks'
  BY <1>5 DEF RunByHand, Locks
<1>6. ASSUME NEW m \in Monitors, CancelRun(m) PROVE Locks'
  BY <1>6 DEF CancelRun, Locks
<1>7. ASSUME NEW m \in Monitors, SettleRun(m) PROVE Locks'
  BY <1>7 DEF SettleRun, Locks
<1>8. ASSUME NEW m \in Monitors, Elapse(m) PROVE Locks'
  BY <1>8 DEF Elapse, Locks
<1>9. ASSUME NEW s \in Scanners, TryLock(s) PROVE Locks'
  BY <1>9 DEF TryLock, Locks
<1>10. ASSUME NEW s \in Scanners, SelectDue(s) PROVE Locks'
  <2>2. PICK n \in 0 .. MaxDue :
          \E rows \in [1 .. n -> {m \in due : enabled[m] /\ ~ paused[m] /\ ~ Locked(m)}] :
             /\ todo' = [todo EXCEPT ![s] = rows]
             /\ held' = [held EXCEPT ![s] = Range(rows)]
    BY <1>10 DEF SelectDue
  <2>3. PICK rows \in [1 .. n -> {m \in due : enabled[m] /\ ~ paused[m] /\ ~ Locked(m)}] :
             /\ todo' = [todo EXCEPT ![s] = rows]
             /\ held' = [held EXCEPT ![s] = Range(rows)]
    BY <2>2
  <2>4. Len(rows) <= MaxDue
    <3>1. n \in Nat /\ n <= MaxDue
      BY ScanAssumption
    <3> QED
      BY <3>1
  <2>5. \A m \in Range(rows) : m \in Monitors /\ alive[m]
    BY DEF Range, Rows, Times
  <2>6. \A t \in Scanners : /\ t # s => todo'[t] = todo[t] /\ held'[t] = held[t]
                            /\ t = s => todo'[t] = rows /\ held'[t] = Range(rows)
    BY <2>3 DEF Rows, Locks
  <2>7. held' \in [Scanners -> SUBSET Monitors]
    BY <2>3, <2>5 DEF Locks
  <2> QED
    BY <1>10, <2>4, <2>5, <2>6, <2>7 DEF SelectDue, Locks
<1>11. ASSUME NEW s \in Scanners, Examine(s) PROVE Locks'
  <2>1. /\ todo[s] \in Seq(Monitors) /\ todo[s] # <<>>
        /\ Len(todo[s]) \in Nat /\ MaxDue \in Nat /\ 0 <= MaxDue
    BY <1>11, ScanAssumption DEF Examine, Rows, Scans, Selected
  <2>2. CASE UNCHANGED todo
    BY <1>11, <2>2 DEF Examine, Locks
  <2>3. CASE /\ ~ alive[Head(todo[s])] /\ todo' = [todo EXCEPT ![s] = Tail(todo[s])]
             /\ doomed' = [doomed EXCEPT ![s] = TRUE]
    <3>1. held[s] \subseteq Range(Tail(todo[s])) /\ Len(Tail(todo[s])) <= MaxDue
      BY <2>1, <2>3, TailOf, TailRange DEF Locks
    <3>2. \A t \in Scanners : /\ t # s => todo'[t] = todo[t]
                              /\ t = s => todo'[t] = Tail(todo[s])
      BY <2>3 DEF Rows
    <3> QED
      BY <1>11, <2>3, <3>1, <3>2 DEF Examine, Locks
  <2> QED
    BY <1>11, <2>2, <2>3 DEF Examine, Rows
<1>12. ASSUME NEW s \in Scanners, InsertRun(s) PROVE Locks'
  <2>1. /\ todo[s] \in Seq(Monitors) /\ todo[s] # <<>>
        /\ Len(todo[s]) \in Nat /\ MaxDue \in Nat /\ 0 <= MaxDue
    BY <1>12, ScanAssumption DEF InsertRun, Rows, Scans, Selected
  <2>2. /\ UNCHANGED <<alive, paused, trailing, faults>>
        /\ lock' \in {lock, s, NoScanner}
        /\ doomed' \in [Scanners -> BOOLEAN]
        /\ held' = held \/ held' = [held EXCEPT ![s] = {}]
    BY <1>12 DEF InsertRun, Leaves, Locks
  <2>3. \/ UNCHANGED todo
        \/ todo' = [todo EXCEPT ![s] = <<>>] /\ held' = [held EXCEPT ![s] = {}]
    BY <1>12 DEF InsertRun, Leaves
  <2>4. \A t \in Scanners : Len(todo'[t]) <= MaxDue
    BY <2>1, <2>3, TodoAt DEF Locks
  <2>5. \A t \in Scanners : held'[t] \subseteq Range(todo'[t])
    BY <2>2, <2>3, HeldAt DEF Rows
  <2> QED
    BY <2>2, <2>4, <2>5 DEF Locks
<1>13. ASSUME NEW s \in Scanners, SendRun(s) PROVE Locks'
  <2>1. /\ todo[s] \in Seq(Monitors) /\ todo[s] # <<>>
        /\ Len(todo[s]) \in Nat /\ MaxDue \in Nat /\ 0 <= MaxDue
    BY <1>13, ScanAssumption DEF SendRun, Rows, Scans, Selected
  <2>2. /\ UNCHANGED <<alive, paused, trailing, faults>>
        /\ lock' \in {lock, s, NoScanner}
        /\ doomed' \in [Scanners -> BOOLEAN]
        /\ held' = held \/ held' = [held EXCEPT ![s] = {}]
    BY <1>13 DEF SendRun, Leaves, Locks
  <2>3. \/ UNCHANGED todo
        \/ todo' = [todo EXCEPT ![s] = <<>>] /\ held' = [held EXCEPT ![s] = {}]
    BY <1>13 DEF SendRun, Leaves
  <2>4. \A t \in Scanners : Len(todo'[t]) <= MaxDue
    BY <2>1, <2>3, TodoAt DEF Locks
  <2>5. \A t \in Scanners : held'[t] \subseteq Range(todo'[t])
    BY <2>2, <2>3, HeldAt DEF Rows
  <2> QED
    BY <2>2, <2>4, <2>5 DEF Locks
<1>14. ASSUME NEW s \in Scanners, MoveOn(s) PROVE Locks'
  <2>1. /\ todo[s] \in Seq(Monitors) /\ todo[s] # <<>>
        /\ Len(todo[s]) \in Nat /\ MaxDue \in Nat /\ 0 <= MaxDue
    BY <1>14, ScanAssumption DEF MoveOn, Rows, Scans, Selected
  <2>2. /\ UNCHANGED <<alive, paused, trailing, faults>>
        /\ lock' \in {lock, s, NoScanner}
        /\ doomed' \in [Scanners -> BOOLEAN]
        /\ held' = [held EXCEPT ![s] = {}]
    BY <1>14 DEF MoveOn, Leaves, Locks
  <2>3. \/ todo' = [todo EXCEPT ![s] = Tail(todo[s])]
        \/ todo' = [todo EXCEPT ![s] = <<>>]
    BY <1>14 DEF MoveOn, Leaves, Rows
  <2>4. Len(Tail(todo[s])) <= MaxDue
    BY <2>1, TailOf DEF Locks
  <2>5. \A t \in Scanners : Len(todo'[t]) <= MaxDue
    BY <2>1, <2>3, <2>4, TailOf, TodoAt
  <2>6. \A t \in Scanners : held'[t] \subseteq Range(todo'[t])
    BY <2>2, <2>3, HeldAt DEF Rows
  <2> QED
    BY <2>2, <2>5, <2>6 DEF Locks
<1>15. ASSUME NEW s \in Scanners, EndScan(s) PROVE Locks'
  <2>1. /\ UNCHANGED <<alive, paused, trailing>>
        /\ lock' \in {lock, s, NoScanner}
        /\ doomed' \in [Scanners -> BOOLEAN]
        /\ held' = [held EXCEPT ![s] = {}]
        /\ todo' = [todo EXCEPT ![s] = <<>>]
    BY <1>15 DEF EndScan, Leaves, Locks
  <2>2. faults' \in 0 .. MaxFaults
    BY <1>15, ScanAssumption DEF EndScan, Fault, Locks
  <2>3. \A t \in Scanners : Len(todo'[t]) <= MaxDue
    BY <2>1, ScanAssumption DEF Locks, Rows
  <2>4. \A t \in Scanners : held'[t] \subseteq Range(todo'[t])
    BY <2>1 DEF Locks, Rows
  <2> QED
    BY <2>1, <2>2, <2>3, <2>4 DEF Locks
<1>16. ASSUME NEW s \in Scanners, Crash(s) PROVE Locks'
  <2>1. /\ UNCHANGED <<alive, paused, trailing>>
        /\ lock' \in {lock, s, NoScanner}
        /\ doomed' \in [Scanners -> BOOLEAN]
        /\ held' = [held EXCEPT ![s] = {}]
        /\ todo' = [todo EXCEPT ![s] = <<>>]
    BY <1>16 DEF Crash, Leaves, Locks
  <2>2. faults' \in 0 .. MaxFaults
    BY <1>16, ScanAssumption DEF Crash, Fault, Locks
  <2>3. \A t \in Scanners : Len(todo'[t]) <= MaxDue
    BY <2>1, ScanAssumption DEF Locks, Rows
  <2>4. \A t \in Scanners : held'[t] \subseteq Range(todo'[t])
    BY <2>1 DEF Locks, Rows
  <2> QED
    BY <2>1, <2>2, <2>3, <2>4 DEF Locks
<1>17. CASE UNCHANGED vars
  BY <1>17 DEF vars, Locks
<1> QED
  BY <1>1, <1>2, <1>3, <1>4, <1>5, <1>6, <1>7, <1>8, <1>9, <1>10, <1>11, <1>12, <1>13,
     <1>14, <1>15, <1>16, <1>17
  DEF Next, ScanStep

LEMMA RowsInitially == Init => Rows /\ Scans /\ Locks
<1> SUFFICES ASSUME Init PROVE Rows /\ Scans /\ Locks
  OBVIOUS
<1>1. Rows
  BY DEF Init, Rows, Times
<1>2. Scans
  BY DEF Init, Scans, Selected, Range
<1>3. \A s \in Scanners : todo[s] = <<>> /\ Len(todo[s]) = 0 /\ held[s] = {}
  BY DEF Init
<1>4. Locks
  BY <1>3, ScanAssumption DEF Init, Locks
<1> QED
  BY <1>1, <1>2, <1>4

(* The model keeps its types: the due schedules are in a strict order, and  *)
(* a scan holds the locks of rows it has yet to handle and no others.       *)
THEOREM TypeCorrect == SafetySpec => []TypeOK
<1>1. Rows /\ LockHeld /\ Locks => TypeOK
  BY DEF Rows, Times, LockHeld, Locks, TypeOK, PC
<1> QED
  BY <1>1, RowsInitially, LockInitially, RowsKept, ScansKept, LockKept, LocksKept, PTL
  DEF SafetySpec

(* A due schedule whose slot has had its run has a run under way, so a scan *)
(* skips it, although scans die between the send and the update and users   *)
(* save, pause, cancel and delete (Examine, SendRun, MoveOn, SettleRun).    *)
THEOREM ServedSlotIsBusyAlways == SafetySpec => []ServedSlotIsBusy
<1>1. Rows => ServedSlotIsBusy
  BY DEF Rows, ServedSlotIsBusy
<1> QED
  BY <1>1, RowsInitially, LockInitially, RowsKept, ScansKept, LockKept, PTL
  DEF SafetySpec

(* What becomes of a job in a scan, at the hands of users and of workers is *)
(* what the job table of MonitorJobs allows.                                *)
LEMMA SlotsInitially == Init => Slots!Init
  BY DEF Init, Slots!Init

LEMMA SlotsKept ==
  ASSUME Rows, Scans, [Next]_vars
  PROVE  [Slots!Next]_(Slots!slotVars)
<1> USE DEF Slots!slotVars, schedules, scan
<1>1. ASSUME NEW m \in Monitors, RunByHand(m) PROVE Slots!Take(m)
  BY <1>1 DEF RunByHand, Slots!Take
<1>2. ASSUME NEW m \in Monitors, CancelRun(m) PROVE Slots!Cancel(m)
  BY <1>2 DEF CancelRun, Slots!Cancel
<1>3. ASSUME NEW m \in Monitors, SettleRun(m) PROVE Slots!Settle(m)
  BY <1>3 DEF SettleRun, Slots!Settle
<1>4. ASSUME NEW m \in Monitors, DeleteMonitor(m) PROVE Slots!Delete(m)
  BY <1>4 DEF DeleteMonitor, Slots!Delete
<1>5. ASSUME NEW s \in Scanners, InsertRun(s)
      PROVE  UNCHANGED <<job, trailing>> \/ \E m \in Monitors : Slots!Take(m)
  <2>1. Head(todo[s]) \in Monitors
    BY <1>5, TailOf DEF InsertRun, Scans, Selected, Rows
  <2> QED
    BY <1>5, <2>1 DEF InsertRun, Leaves, Slots!Take
<1>6. ASSUME NEW s \in Scanners, SendRun(s)
      PROVE  \/ UNCHANGED <<job, trailing>>
             \/ \E m \in Monitors : Slots!Send(m) \/ Slots!Cancel(m)
  <2>1. Head(todo[s]) \in Monitors
    BY <1>6, TailOf DEF SendRun, Scans, Selected, Rows
  <2>2. CASE job[Head(todo[s])] = "unsent"
    BY <1>6, <2>1, <2>2 DEF SendRun, Slots!Send, Slots!Cancel
  <2>3. CASE job[Head(todo[s])] # "unsent"
    <3>1. job' = [job EXCEPT ![Head(todo[s])] = job[Head(todo[s])]] \/ job' = job
      BY <1>6, <2>3 DEF SendRun
    <3>2. job' = job
      BY <2>1, <3>1 DEF Rows
    <3> QED
      BY <1>6, <3>2 DEF SendRun
  <2> QED
    BY <2>2, <2>3
<1>7. ASSUME NEW m \in Monitors,
             SaveSchedule(m, TRUE) \/ SaveSchedule(m, FALSE) \/ SetStatus(m) \/ Elapse(m)
      PROVE  UNCHANGED <<job, trailing>>
  BY <1>7 DEF SaveSchedule, SetStatus, Elapse
<1>8. ASSUME NEW s \in Scanners,
             TryLock(s) \/ SelectDue(s) \/ Examine(s) \/ MoveOn(s) \/ EndScan(s) \/ Crash(s)
      PROVE  UNCHANGED <<job, trailing>>
  BY <1>8 DEF TryLock, SelectDue, Examine, MoveOn, EndScan, Crash
<1>9. CASE UNCHANGED vars
  BY <1>9 DEF vars
<1> QED
  BY <1>1, <1>2, <1>3, <1>4, <1>5, <1>6, <1>7, <1>8, <1>9
  DEF Next, ScanStep, Slots!Next

(* The scan and MonitorJobs meet in MonitorSlots: no step of the schedule   *)
(* model does to a job or a worker what the job table does not (RunByHand,  *)
(* InsertRun, SendRun, CancelRun, SettleRun, DeleteMonitor).                *)
THEOREM SlotsRespectedAlways == SafetySpec => SlotsRespected
  BY SlotsInitially, SlotsKept, RowsInitially, LockInitially, RowsKept, ScansKept, LockKept,
     LocksKept, PTL
  DEF SafetySpec, SlotsRespected, Slots!Spec
===============================================================================
