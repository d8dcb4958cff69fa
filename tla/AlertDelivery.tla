---------------------------- MODULE AlertDelivery ----------------------------
(***************************************************************************)
(* Alerts of a monitor's runs and their e-mails.  Sessions turn the outcome *)
(* and the events of a run into rows of the table alerts and queue one      *)
(* Celery task per row; the tasks send the e-mails and record the result.   *)
(*                                                                          *)
(* The order of the code is kept: the task is queued after the flush of its *)
(* row and before the commit, which is the caller's; a conflict on the      *)
(* unique index rolls the whole session back, its earlier alerts included;  *)
(* the e-mail is sent before its result is committed.                       *)
(***************************************************************************)
EXTENDS Integers, Sequences, FiniteSets

CONSTANTS Session,          \* database sessions that create alerts
          Key,              \* (type, run, event) of an alert
          Batch,            \* the keys each session creates, in order
          RunKey,           \* keys without an event: the unique index, which
                            \* holds a NULL for them, does not apply
          Worker, None,
          MaxRetries,       \* max_retries of the task
          MaxFaults,        \* bound on faults
          MaxSwitches       \* bound on changes of the preference

Alert == {a \in Session \X Key : \E i \in DOMAIN Batch[a[1]] : Batch[a[1]][i] = a[2]}

ASSUME AlertAssumption ==
    /\ Batch \in [Session -> Seq(Key)]
    /\ \A s \in Session : \A i, j \in DOMAIN Batch[s] : Batch[s][i] = Batch[s][j] => i = j
    /\ RunKey \subseteq Key
    /\ IsFiniteSet(Worker)
    /\ None \notin Alert
    /\ MaxRetries \in Nat /\ MaxFaults \in Nat /\ MaxSwitches \in Nat

VARIABLES
    row, delivery,          \* table alerts: stage of the transaction, status
    preference,             \* of the user: no alerts, alerts, alerts by e-mail
    at, step, wish,         \* session: position, next step, preference read
    queue,                  \* messages: alert and retries
    message, doing,         \* worker: message in hand, step
    faults, switches,       \* bounds
    surplus, stranded, skipped, rolledBack  \* history (stranded: alerts with a
                            \* task that ended in a fault)

table   == <<row, delivery>>
creator == <<at, step, wish>>
sender  == <<message, doing>>
bounds  == <<faults, switches>>
history == <<surplus, stranded, skipped, rolledBack>>
vars    == <<table, preference, creator, queue, sender, bounds, history>>

Message == Alert \X (0 .. MaxRetries)

TypeOK ==
    /\ row \in [Alert -> {"none", "flushed", "committed"}]
    /\ delivery \in [Alert -> {"disabled", "queued", "delivered", "failed"}]
    /\ preference \in {"off", "app", "email"}
    /\ at \in [Session -> Nat \ {0}]
    /\ step \in [Session -> {"look", "insert", "done"}]
    /\ wish \in [Session -> {"off", "app", "email"}]
    /\ queue \subseteq Message
    /\ message \in [Worker -> Message \cup {None}]
    /\ doing \in [Worker -> {"load", "send", "resend", "commit", "fail"}]
    /\ faults \in 0 .. MaxFaults
    /\ switches \in 0 .. MaxSwitches
    /\ surplus \in [Alert -> Int]
    /\ stranded \subseteq Alert /\ skipped \subseteq Alert /\ rolledBack \subseteq Session

Init ==
    /\ row = [a \in Alert |-> "none"]
    /\ delivery = [a \in Alert |-> "disabled"]
    /\ preference = "email"
    /\ at = [s \in Session |-> 1]
    /\ step = [s \in Session |-> "look"]
    /\ wish = [s \in Session |-> "off"]
    /\ queue = {}
    /\ message = [w \in Worker |-> None]
    /\ doing = [w \in Worker |-> "load"]
    /\ faults = 0 /\ switches = 0
    /\ surplus = [a \in Alert |-> 0]
    /\ stranded = {} /\ skipped = {} /\ rolledBack = {}

Fault == faults < MaxFaults /\ faults' = faults + 1 /\ UNCHANGED switches

-----------------------------------------------------------------------------
(* Creating alerts (create_run_status_alert, create_change_event_alerts and *)
(* create_alert).                                                           *)

Creating(s) == step[s] # "done" /\ at[s] <= Len(Batch[s])
Current(s)  == <<s, Batch[s][at[s]]>>

Move(s) ==
    /\ at' = [at EXCEPT ![s] = @ + 1]
    /\ step' = [step EXCEPT ![s] = "look"]
    /\ wish' = [wish EXCEPT ![s] = "off"]

End(s) ==
    /\ step' = [step EXCEPT ![s] = "done"]
    /\ at' = [at EXCEPT ![s] = 1]
    /\ wish' = [wish EXCEPT ![s] = "off"]

(* Mutant: any alert of the run counts as the existing one.                 *)
VisibleOfAnyEvent(s, k) == {a \in Alert : row[a] = "committed" \/ (a[1] = s /\ row[a] = "flushed")}

(* Rows of this key a session sees: committed ones and its own.             *)
Visible(s, k) == {a \in Alert : a[2] = k /\ (row[a] = "committed" \/ (a[1] = s /\ row[a] = "flushed"))}

(* The preference decides (in-app switch, severity, kind of alert); an      *)
(* alert that exists already is returned.  More than one is an error, which *)
(* leaves the session to Abort.                                             *)
Look(s) ==
    /\ Creating(s) /\ step[s] = "look"
    /\ Cardinality(Visible(s, Current(s)[2])) <= 1
    /\ IF preference = "off" \/ Visible(s, Current(s)[2]) # {}
       THEN /\ Move(s)
            /\ skipped' = IF preference = "off" THEN skipped \cup {Current(s)} ELSE skipped
       ELSE /\ step' = [step EXCEPT ![s] = "insert"]
            /\ wish' = [wish EXCEPT ![s] = preference]
            /\ UNCHANGED <<at, skipped>>
    /\ UNCHANGED <<table, preference, queue, sender, bounds,
                   surplus, stranded, rolledBack>>

Others(s, k, stage) ==
    {a \in Alert : a[1] # s /\ a[2] = k /\ k \notin RunKey /\ row[a] = stage}

(* The flush waits for another transaction that has flushed the same key.   *)
(* It then succeeds and the task is queued, or sending it fails, which is   *)
(* logged and forgotten.                                                    *)
Insert(s) ==
    LET a == Current(s)
    IN  /\ Creating(s) /\ step[s] = "insert"
        /\ Others(s, a[2], "flushed") \cup Others(s, a[2], "committed") = {}
        /\ row' = [row EXCEPT ![a] = "flushed"]
        /\ delivery' = [delivery EXCEPT ![a] = IF wish[s] = "email" THEN "queued" ELSE "disabled"]
        /\ \/ wish[s] = "app" /\ UNCHANGED <<queue, bounds>>
           \/ wish[s] = "email" /\ queue' = queue \cup {<<a, 0>>} /\ UNCHANGED bounds
           \/ wish[s] = "email" /\ Fault /\ UNCHANGED queue
        /\ Move(s)
        /\ UNCHANGED <<preference, sender, history>>

Undo(s) ==
    LET undone == {a \in Alert : a[1] = s /\ row[a] = "flushed"}
    IN  /\ row' = [a \in Alert |-> IF a \in undone THEN "none" ELSE row[a]]
        /\ delivery' = [a \in Alert |-> IF a \in undone THEN "disabled" ELSE delivery[a]]
        /\ rolledBack' = rolledBack \cup {s}

(* The unique index refuses the row: the session is rolled back, the        *)
(* existing alert is returned and the caller goes on.                       *)
Conflict(s) ==
    /\ Creating(s) /\ step[s] = "insert"
    /\ Others(s, Current(s)[2], "committed") # {}
    /\ Undo(s)
    /\ Move(s)
    /\ UNCHANGED <<preference, queue, sender, bounds,
                   surplus, stranded, skipped>>

(* An error, a deadlock of two flushes or the death of the process.         *)
Abort(s) ==
    /\ Creating(s)
    /\ Undo(s)
    /\ End(s)
    /\ UNCHANGED <<preference, queue, sender, bounds,
                   surplus, stranded, skipped>>

(* The caller commits.                                                      *)
Commit(s) ==
    /\ step[s] # "done" /\ at[s] > Len(Batch[s])
    /\ row' = [a \in Alert |-> IF a[1] = s /\ row[a] = "flushed" THEN "committed" ELSE row[a]]
    /\ End(s)
    /\ UNCHANGED <<delivery, preference, queue, sender, bounds, history>>

SwitchPreference(p) ==
    /\ switches < MaxSwitches
    /\ \E s \in Session : Creating(s)
    /\ switches' = switches + 1
    /\ p # preference /\ preference' = p
    /\ UNCHANGED <<table, creator, queue, sender, faults, history>>

-----------------------------------------------------------------------------
(* Delivering e-mails (deliver_alert_email_task, deliver_alert_email).      *)

Goto(w, d) == doing' = [doing EXCEPT ![w] = d] /\ UNCHANGED message
On(w, d)   == message[w] # None /\ doing[w] = d
AlertOf(w) == message[w][1]
Tries(w)   == message[w][2]

Receive(w) ==
    /\ message[w] = None
    /\ \E m \in queue : message' = [message EXCEPT ![w] = m] /\ queue' = queue \ {m}
    /\ doing' = [doing EXCEPT ![w] = "load"]
    /\ UNCHANGED <<table, preference, creator, bounds, history>>

(* An e-mail more than once per alert that is accounted for.                *)
Excuse(a) == [surplus EXCEPT ![a] = @ - 1]

Working(a) == {w \in Worker : message[w] # None /\ AlertOf(w) = a}

(* The task ends and its message is acknowledged.                           *)
Release(w) ==
    /\ message' = [message EXCEPT ![w] = None]
    /\ doing' = [doing EXCEPT ![w] = "load"]

(* Mutant: retries are not counted.                                         *)
RetryOrFailForever(w) ==
    IF Tries(w) < MaxRetries
    THEN Release(w) /\ queue' = queue \cup {<<AlertOf(w), Tries(w)>>}
    ELSE Goto(w, "fail") /\ UNCHANGED queue

(* A retry is a new message; after the last one the alert is marked failed. *)
RetryOrFail(w) ==
    IF Tries(w) < MaxRetries
    THEN Release(w) /\ queue' = queue \cup {<<AlertOf(w), Tries(w) + 1>>}
    ELSE Goto(w, "fail") /\ UNCHANGED queue

(* An alert loaded as failed is told apart: only then is "queued" a change  *)
(* of it that the session writes.                                           *)
Begin(w)   == Goto(w, IF delivery[AlertOf(w)] = "failed" THEN "resend" ELSE "send")
Sending(w) == On(w, "send") \/ On(w, "resend")
Requeued(w) == IF doing[w] = "resend" THEN [delivery EXCEPT ![AlertOf(w)] = "queued"] ELSE delivery

(* Mutant: a delivered alert is sent again.                                 *)
LoadDelivered(w) ==
    LET a == AlertOf(w)
    IN  /\ On(w, "load")
        /\ IF row[a] # "committed"
           THEN Release(w) /\ UNCHANGED surplus
           ELSE Begin(w) /\ surplus' = IF Cardinality(Working(a)) > 1 THEN Excuse(a) ELSE surplus
        /\ UNCHANGED <<table, preference, creator, queue, bounds, stranded, skipped, rolledBack>>

(* A row not committed yet is not found, and nothing looks for it again; a  *)
(* delivered one is left alone.                                             *)
Load(w) ==
    LET a == AlertOf(w)
    IN  /\ On(w, "load")
        /\ IF row[a] # "committed" \/ delivery[a] = "delivered"
           THEN Release(w) /\ UNCHANGED surplus
           ELSE Begin(w) /\ surplus' = IF Cardinality(Working(a)) > 1 THEN Excuse(a) ELSE surplus
        /\ UNCHANGED <<table, preference, creator, queue, bounds, stranded, skipped, rolledBack>>

(* The database fails while the alert is loaded or an error of the provider *)
(* is noted: the task ends and is not retried.                              *)
QueryFails(w) ==
    /\ On(w, "load") \/ Sending(w)
    /\ Fault
    /\ Release(w)
    /\ stranded' = stranded \cup {AlertOf(w)}
    /\ UNCHANGED <<table, preference, creator, queue, surplus, skipped, rolledBack>>

(* The provider accepts the e-mail and its answer cannot be read (a body    *)
(* that is not JSON): the task ends, is not retried and has noted nothing.  *)
(* The e-mail is excused at once.                                           *)
ReplyUnreadable(w) ==
    /\ Sending(w)
    /\ Fault
    /\ Release(w)
    /\ stranded' = stranded \cup {AlertOf(w)}
    /\ UNCHANGED <<table, preference, creator, queue, surplus, skipped, rolledBack>>

SendAccepted(w) ==
    /\ Sending(w)
    /\ surplus' = [surplus EXCEPT ![AlertOf(w)] = @ + 1]
    /\ Goto(w, "commit")
    /\ UNCHANGED <<table, preference, creator, queue, bounds, stranded, skipped, rolledBack>>

(* Timeout, transport error or 5xx; the provider may have taken the e-mail  *)
(* (which would be excused).                                                *)
SendUnclear(w) ==
    /\ Sending(w)
    /\ delivery' = Requeued(w)
    /\ RetryOrFail(w)
    /\ UNCHANGED <<row, preference, creator, bounds, history>>

(* 4xx: not worth a retry.                                                  *)
SendRejected(w) ==
    /\ Sending(w)
    /\ delivery' = Requeued(w)
    /\ Goto(w, "fail")
    /\ UNCHANGED <<row, preference, creator, queue, bounds, history>>

CommitResult(w) ==
    /\ On(w, "commit")
    /\ delivery' = [delivery EXCEPT ![AlertOf(w)] = "delivered"]
    /\ Release(w)
    /\ UNCHANGED <<row, preference, creator, queue, bounds, history>>

(* The result cannot be stored: the task sends the e-mail once more.        *)
ResultLost(w) ==
    /\ On(w, "commit")
    /\ Fault
    /\ surplus' = Excuse(AlertOf(w))
    /\ RetryOrFail(w)
    /\ UNCHANGED <<table, preference, creator, stranded, skipped, rolledBack>>

(* After an unclear answer or a lost result the retry cannot be published:  *)
(* Celery rejects the message in hand, and it is gone.                      *)
RetryLost(w) ==
    LET a == AlertOf(w)
    IN  /\ Sending(w) \/ On(w, "commit")
        /\ Tries(w) < MaxRetries
        /\ Fault
        /\ delivery' = IF Sending(w) THEN Requeued(w) ELSE delivery
        /\ surplus' = IF Sending(w) THEN surplus ELSE Excuse(a)
        /\ stranded' = stranded \cup {a}
        /\ Release(w)
        /\ UNCHANGED <<row, preference, creator, queue, skipped, rolledBack>>

(* Whatever the row says by now.  Its error is swallowed.                   *)
MarkFailed(w) ==
    LET a == AlertOf(w)
    IN  /\ On(w, "fail")
        /\ \/ delivery' = [delivery EXCEPT ![a] = "failed"] /\ UNCHANGED <<bounds, stranded>>
           \/ Fault /\ stranded' = stranded \cup {a} /\ UNCHANGED delivery
        /\ Release(w)
        /\ UNCHANGED <<row, preference, creator, queue, surplus, skipped, rolledBack>>

(* A message not acknowledged is delivered again: the worker has died, or   *)
(* it is slow and goes on, perhaps to the end (a message delivered again      *)
(* after the commit of its result is one of these).                         *)
Redeliver(w) ==
    /\ message[w] # None
    /\ Fault
    /\ queue' = queue \cup {message[w]}
    /\ \/ UNCHANGED <<sender, surplus>>
       \/ /\ Release(w)
          /\ surplus' = IF doing[w] = "commit" THEN Excuse(AlertOf(w)) ELSE surplus
    /\ UNCHANGED <<table, preference, creator, stranded, skipped, rolledBack>>

Create(s)  == Look(s) \/ Insert(s) \/ Conflict(s) \/ Abort(s) \/ Commit(s)
Deliver(w) == \/ Receive(w) \/ Load(w) \/ QueryFails(w)
              \/ ReplyUnreadable(w) \/ SendAccepted(w) \/ SendUnclear(w) \/ SendRejected(w)
              \/ CommitResult(w) \/ ResultLost(w) \/ RetryLost(w) \/ MarkFailed(w)

Next ==
    \/ \E s \in Session : Create(s)
    \/ \E w \in Worker : Deliver(w) \/ Redeliver(w)
    \/ \E p \in {"off", "app", "email"} : SwitchPreference(p)

(* Workers work; whoever creates alerts may stop at any time.               *)
Spec == Init /\ [][Next]_vars /\ \A w \in Worker : WF_vars(Deliver(w))

-----------------------------------------------------------------------------
(* What must hold.                                                          *)

(* A session that has committed leaves an alert for each key it was given   *)
(* and the user wants, its own or another's, unless it was rolled back on   *)
(* the way: then it has lost what it had flushed.                           *)
AlertsAreKept ==
    \A s \in Session \ rolledBack :
        step[s] = "done" =>
            \A k \in {Batch[s][i] : i \in DOMAIN Batch[s]} :
                \/ <<s, k>> \in skipped
                \/ \E a \in Alert : a[2] = k /\ row[a] = "committed"

(* An alert is e-mailed once, but for the times something failed between    *)
(* the provider's acceptance and the commit of the result, or two copies of *)
(* the task were at work.                                                   *)
EmailedOnce == \A a \in Alert : surplus[a] <= 1

(* A task of the alert is queued or about to look for it.                   *)
Expected(a) ==
    \/ \E m \in queue : m[1] = a
    \/ \E w \in Working(a) : doing[w] = "load"

(* An alert whose row is committed before its task looks for it gets an     *)
(* outcome, unless a task of it ended without one in a failure of the       *)
(* database, an answer that cannot be read or a retry that cannot be        *)
(* published.  It does not say that the row is committed first.             *)
DeliverySettles ==
    \A a \in Alert :
        (row[a] = "committed" /\ delivery[a] = "queued" /\ Expected(a))
            ~> (delivery[a] # "queued" \/ a \in stranded)
===============================================================================
