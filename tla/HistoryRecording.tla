--------------------------- MODULE HistoryRecording ---------------------------
(***************************************************************************)
(* What is recorded of refreshes and of forecasts, and what is announced   *)
(* of the latter: UsageDatabase::recordSnapshot, recordProviderMetrics,    *)
(* recordToolSnapshot and recordGuardrailTransition, as                    *)
(* RuntimeCoordinator.qml and NotificationController.qml call them.        *)
(*                                                                         *)
(* Every shell (plasmashell, plasmawindowed) has its own connection and    *)
(* thread; all of them share the file.  The file is in WAL mode: a         *)
(* transaction that only begins takes no lock, one that has read sees the  *)
(* file as it was then and cannot write once another one has committed,    *)
(* one that has written keeps the others from writing, and a COMMIT that   *)
(* fails is undone.  There is one provider, one tool and one forecast.     *)
(***************************************************************************)
EXTENDS Integers, Sequences, FiniteSets, SequencesExt

CONSTANTS
  Shells,
  Values,       \* what a refresh may return
  MaxRecords,   \* bound on the refreshes that are recorded
  MaxChanges,   \* bound on the changes of the outlook and on quiet hours
  MaxEvents,    \* bound on the events while the shells disagree
  MaxFaults,    \* bound on the statements that fail
  MaxRestarts   \* bound on the shells that die

VARIABLES
  db,        \* the rows of the file
  tx,        \* the transaction of a connection
  pc,        \* the statement a shell is at
  doing,     \* what it is recording
  written,   \* m_lastWrittenState
  recent,    \* the keys whose m_lastWriteTime is less than a minute old
  cooling,   \* the transitions whose cooldown has not elapsed
  outlook,   \* what a forecast would say now
  forecast,  \* what the last one of a shell said
  quiet,     \* it is one of the hours nothing is announced in
  told,      \* what was announced, by whom
  records, changes, faults, restarts

vars == <<db, tx, pc, doing, written, recent, cooling, outlook, forecast, quiet, told,
          records, changes, faults, restarts>>
counters == <<records, changes, faults, restarts>>
clocks == <<outlook, forecast, quiet>>

Nothing == "nothing"
Alarms == {"warning", "critical"}
States == Alarms \cup {"safe"}
Keys == {"provider", "tool"}

Empty == [snapshots |-> {}, observations |-> {}, metrics |-> {}, tools |-> {},
          events |-> <<>>]
Closed == [open |-> FALSE, read |-> FALSE, stale |-> FALSE, wrote |-> FALSE, view |-> Empty]
Opened == [Closed EXCEPT !.open = TRUE]
Wrote(c) == tx[c].wrote

Latest(d) == IF d.events = <<>> THEN Nothing ELSE Last(d.events)

Init ==
  /\ db = Empty
  /\ tx = [c \in Shells |-> Closed]
  /\ pc = [c \in Shells |-> "idle"]
  /\ doing = [c \in Shells |-> Nothing]
  /\ written = [c \in Shells |-> [k \in Keys |-> Nothing]]
  /\ recent = [c \in Shells |-> {}]
  /\ cooling = [c \in Shells |-> {}]
  /\ outlook = "safe" /\ forecast = [c \in Shells |-> "safe"] /\ quiet = FALSE
  /\ told = {}
  /\ records = 0 /\ changes = 0 /\ faults = 0 /\ restarts = 0

-----------------------------------------------------------------------------
(* Statements of SQLite, used here *)

Begin(c) == tx' = [tx EXCEPT ![c] = Opened]

(* The file a statement that writes works on, and when it may.             *)
View(c) == IF Wrote(c) THEN tx[c].view ELSE db
MayWrite(c) == ~tx[c].stale /\ \A d \in Shells \ {c} : ~Wrote(d)
Write(c, view) == tx' = [tx EXCEPT ![c].read = TRUE, ![c].wrote = TRUE,
                                        ![c].view = view]

(* The rows of c are in the file; who has read it before is behind.        *)
Commit(c) ==
  /\ db' = View(c)
  /\ tx' = [d \in Shells |->
              IF d = c THEN Closed
              ELSE IF tx[d].read THEN [tx[d] EXCEPT !.stale = TRUE] ELSE tx[d]]

Rollback(c) == tx' = [tx EXCEPT ![c] = Closed]

(* A statement fails: the disk is full, or another one kept the lock for   *)
(* longer than busy_timeout.                                               *)
Fault == faults < MaxFaults /\ faults' = faults + 1

-----------------------------------------------------------------------------
(* A refresh *)

(* recordSnapshot: the same state within a minute is not written again.    *)
Throttled(c, key, v) == key \in recent[c] /\ written[c][key] = v

(* recordProviderSnapshot begins.  A connection that is in a transaction   *)
(* cannot begin one.                                                       *)
Refresh(c, v) ==
  /\ pc[c] = "idle" /\ records < MaxRecords
  /\ records' = records + 1
  /\ doing' = [doing EXCEPT ![c] = v]
  /\ IF Throttled(c, "provider", v) \/ tx[c].open
     THEN pc' = [pc EXCEPT ![c] = "metrics"] /\ UNCHANGED tx
     ELSE pc' = [pc EXCEPT ![c] = "snapshot"] /\ Begin(c)
  /\ UNCHANGED <<db, written, recent, cooling, clocks, told, changes, faults, restarts>>

InsertSnapshot(c) ==
  /\ pc[c] = "snapshot" /\ MayWrite(c)
  /\ Write(c, [View(c) EXCEPT !.snapshots = @ \cup {doing[c]}])
  /\ pc' = [pc EXCEPT ![c] = "observations"]
  /\ UNCHANGED <<db, doing, written, recent, cooling, clocks, told, counters>>

(* recordObservations, and the provenance.                                 *)
InsertObservations(c) ==
  /\ pc[c] = "observations"
  /\ Write(c, [View(c) EXCEPT !.observations = @ \cup {doing[c]}])
  /\ pc' = [pc EXCEPT ![c] = "commit"]
  /\ UNCHANGED <<db, doing, written, recent, cooling, clocks, told, counters>>

(* Mutant: the throttle takes an attempt for a row.                        *)
SnapshotFailsStamped(c) ==
  /\ pc[c] \in {"snapshot", "observations", "commit"} /\ Fault
  /\ Rollback(c)
  /\ written' = [written EXCEPT ![c]["provider"] = doing[c]]
  /\ recent' = [recent EXCEPT ![c] = @ \cup {"provider"}]
  /\ pc' = [pc EXCEPT ![c] = "metrics"]
  /\ UNCHANGED <<db, doing, cooling, clocks, told, records, changes, restarts>>

(* Mutant: an error of recordObservations leaves the transaction open.     *)
SnapshotFailsOpen(c) ==
  /\ pc[c] \in {"snapshot", "observations", "commit"} /\ Fault
  /\ IF pc[c] = "observations" THEN UNCHANGED tx ELSE Rollback(c)
  /\ pc' = [pc EXCEPT ![c] = "metrics"]
  /\ UNCHANGED <<db, doing, written, recent, cooling, clocks, told, records, changes,
                 restarts>>

(* Whatever of it fails, all of it is undone.                              *)
SnapshotFails(c) ==
  /\ pc[c] \in {"snapshot", "observations", "commit"} /\ Fault
  /\ Rollback(c)
  /\ pc' = [pc EXCEPT ![c] = "metrics"]
  /\ UNCHANGED <<db, doing, written, recent, cooling, clocks, told, records, changes,
                 restarts>>

CommitSnapshot(c) ==
  /\ pc[c] = "commit"
  /\ Commit(c)
  /\ written' = [written EXCEPT ![c]["provider"] = doing[c]]
  /\ recent' = [recent EXCEPT ![c] = @ \cup {"provider"}]
  /\ pc' = [pc EXCEPT ![c] = "metrics"]
  /\ UNCHANGED <<doing, cooling, clocks, told, counters>>

(* recordProviderMetrics: in a transaction of its own, every time.         *)
RecordMetrics(c) ==
  /\ pc[c] = "metrics"
  /\ IF tx[c].open
     THEN UNCHANGED <<db, tx, faults>>
     ELSE \/ /\ MayWrite(c)
             /\ db' = [db EXCEPT !.metrics = @ \cup {doing[c]}]
             /\ tx' = [d \in Shells |-> [tx[d] EXCEPT !.stale = tx[d].read]]
             /\ UNCHANGED faults
          \/ Fault /\ UNCHANGED <<db, tx>>
  /\ pc' = [pc EXCEPT ![c] = "idle"]
  /\ doing' = [doing EXCEPT ![c] = Nothing]
  /\ UNCHANGED <<written, recent, cooling, clocks, told, records, changes, restarts>>

(* recordToolSnapshot: one statement, in the transaction of the connection *)
(* if it is in one.                                                        *)
RecordTool(c, v) ==
  /\ pc[c] = "idle" /\ records < MaxRecords
  /\ records' = records + 1
  /\ ~Throttled(c, "tool", v)
  /\ LET rows == [View(c) EXCEPT !.tools = @ \cup {v}]
     IN \/ /\ MayWrite(c)
           /\ IF tx[c].open
              THEN Write(c, rows) /\ UNCHANGED db
              ELSE /\ db' = rows
                   /\ tx' = [d \in Shells |-> [tx[d] EXCEPT !.stale = tx[d].read]]
           /\ written' = [written EXCEPT ![c]["tool"] = v]
           /\ recent' = [recent EXCEPT ![c] = @ \cup {"tool"}]
           /\ UNCHANGED faults
        \/ Fault /\ UNCHANGED <<db, tx, written, recent>>
  /\ UNCHANGED <<pc, doing, cooling, clocks, told, changes, restarts>>

-----------------------------------------------------------------------------
(* A forecast *)

(* The state of a forecast, once the event is near enough; what is told of *)
(* one without alarm depends on what was told last.                        *)
Transition(c) ==
  IF forecast[c] \in Alarms THEN forecast[c]
  ELSE IF Latest(db) \in Alarms THEN "recovered" ELSE Nothing

(* canNotify stamps the cooldown.                                          *)
CanNotify(c, transition) == transition \notin cooling[c] /\ ~quiet

Bounded == Len(db.events) < MaxEvents \/ \A c \in Shells : forecast[c] = outlook

(* processGuardrail, after a change of the forecasts or by its timer.  If  *)
(* nothing was recorded the stamp is taken back.                           *)
Process(c) ==
  /\ pc[c] = "idle" /\ Bounded
  /\ Transition(c) # Nothing /\ CanNotify(c, Transition(c))
  /\ ~tx[c].open
  /\ cooling' = [cooling EXCEPT ![c] = @ \cup {Transition(c)}]
  /\ doing' = [doing EXCEPT ![c] = Transition(c)]
  /\ Begin(c)
  /\ pc' = [pc EXCEPT ![c] = "select"]
  /\ UNCHANGED <<db, written, recent, clocks, told, counters>>

(* Mutant: a refused transition leaves its transaction open.               *)
RefusedOpen(c) ==
  /\ cooling' = [cooling EXCEPT ![c] = @ \ {doing[c]}]
  /\ doing' = [doing EXCEPT ![c] = Nothing]
  /\ pc' = [pc EXCEPT ![c] = "idle"]
  /\ UNCHANGED <<db, tx, written, recent, clocks, told>>

Refused(c) ==
  /\ Rollback(c)
  /\ cooling' = [cooling EXCEPT ![c] = @ \ {doing[c]}]
  /\ doing' = [doing EXCEPT ![c] = Nothing]
  /\ pc' = [pc EXCEPT ![c] = "idle"]
  /\ UNCHANGED <<db, written, recent, clocks, told>>

(* Mutant: the latest event is looked up before the transaction.           *)
SelectUnlocked(c) ==
  /\ pc[c] = "select"
  /\ \/ Latest(db) = doing[c] /\ Refused(c)
     \/ /\ Latest(db) # doing[c]
        /\ pc' = [pc EXCEPT ![c] = "event"]
        /\ UNCHANGED <<db, tx, doing, written, recent, cooling, clocks, told>>
  /\ UNCHANGED counters

Select(c) ==
  /\ pc[c] = "select"
  /\ \/ Latest(db) = doing[c] /\ Refused(c)
     \/ /\ Latest(db) # doing[c]
        /\ tx' = [tx EXCEPT ![c].read = TRUE]
        /\ pc' = [pc EXCEPT ![c] = "event"]
        /\ UNCHANGED <<db, doing, written, recent, cooling, clocks, told>>
  /\ UNCHANGED counters

InsertEvent(c) ==
  /\ pc[c] = "event" /\ MayWrite(c)
  /\ Write(c, [View(c) EXCEPT !.events = Append(@, doing[c])])
  /\ pc' = [pc EXCEPT ![c] = "commitEvent"]
  /\ UNCHANGED <<db, doing, written, recent, cooling, clocks, told, counters>>

CommitEvent(c) ==
  /\ pc[c] = "commitEvent"
  /\ Commit(c)
  /\ pc' = [pc EXCEPT ![c] = "deliver"]
  /\ UNCHANGED <<doing, written, recent, cooling, clocks, told, counters>>

(* Mutant: what could not be recorded is announced nevertheless.           *)
EventFailsLoudly(c) ==
  \/ /\ pc[c] = "event" /\ tx[c].stale
     /\ Rollback(c)
     /\ pc' = [pc EXCEPT ![c] = "deliver"]
     /\ UNCHANGED <<db, doing, written, recent, cooling, clocks, told, counters>>
  \/ /\ pc[c] \in {"select", "event", "commitEvent"} /\ Fault
     /\ Refused(c)
     /\ UNCHANGED <<records, changes, restarts>>

(* Of two shells that have read the same events only one can write.        *)
EventFails(c) ==
  \/ /\ pc[c] = "event" /\ tx[c].stale
     /\ Refused(c)
     /\ UNCHANGED counters
  \/ /\ pc[c] \in {"select", "event", "commitEvent"} /\ Fault
     /\ Refused(c)
     /\ UNCHANGED <<records, changes, restarts>>

(* deliverPrepared: the desktop notification and the webhook.              *)
Deliver(c) ==
  /\ pc[c] = "deliver"
  /\ told' = told \cup {<<Len(db.events), doing[c], c>>}
  /\ doing' = [doing EXCEPT ![c] = Nothing]
  /\ pc' = [pc EXCEPT ![c] = "idle"]
  /\ UNCHANGED <<db, tx, written, recent, cooling, clocks, counters>>

-----------------------------------------------------------------------------
(* The world *)

OutlookChanges(s) ==
  /\ changes < MaxChanges /\ s # outlook
  /\ outlook' = s /\ changes' = changes + 1
  /\ UNCHANGED <<db, tx, pc, doing, written, recent, cooling, forecast, quiet, told,
                 records, faults, restarts>>

(* A shell computes its forecasts anew.                                    *)
Forecast(c) ==
  /\ pc[c] = "idle" /\ forecast[c] # outlook
  /\ forecast' = [forecast EXCEPT ![c] = outlook]
  /\ UNCHANGED <<db, tx, pc, doing, written, recent, cooling, outlook, quiet, told, counters>>

Quiet ==
  /\ ~quiet /\ changes < MaxChanges
  /\ quiet' = TRUE /\ changes' = changes + 1
  /\ UNCHANGED <<db, tx, pc, doing, written, recent, cooling, outlook, forecast, told,
                 records, faults, restarts>>

QuietEnds ==
  /\ quiet /\ quiet' = FALSE
  /\ UNCHANGED <<db, tx, pc, doing, written, recent, cooling, outlook, forecast, told,
                 counters>>

MinutePasses(c) ==
  /\ recent[c] # {}
  /\ recent' = [recent EXCEPT ![c] = {}]
  /\ UNCHANGED <<db, tx, pc, doing, written, cooling, clocks, told, counters>>

CooldownEnds(c) ==
  /\ pc[c] = "idle" /\ cooling[c] # {}
  /\ cooling' = [cooling EXCEPT ![c] = {}]
  /\ UNCHANGED <<db, tx, pc, doing, written, recent, clocks, told, counters>>

(* A shell dies and is started again.                                      *)
Restart(c) ==
  /\ restarts < MaxRestarts /\ restarts' = restarts + 1
  /\ Rollback(c)
  /\ pc' = [pc EXCEPT ![c] = "idle"]
  /\ doing' = [doing EXCEPT ![c] = Nothing]
  /\ written' = [written EXCEPT ![c] = [k \in Keys |-> Nothing]]
  /\ recent' = [recent EXCEPT ![c] = {}]
  /\ cooling' = [cooling EXCEPT ![c] = {}]
  /\ UNCHANGED <<db, clocks, told, records, changes, faults>>

Step(c) ==
  \/ InsertSnapshot(c) \/ InsertObservations(c) \/ SnapshotFails(c) \/ CommitSnapshot(c)
  \/ RecordMetrics(c)
  \/ Select(c) \/ InsertEvent(c) \/ CommitEvent(c) \/ EventFails(c) \/ Deliver(c)

Next ==
  \/ \E c \in Shells :
       \/ \E v \in Values : Refresh(c, v) \/ RecordTool(c, v)
       \/ Process(c) \/ Step(c) \/ Forecast(c)
       \/ MinutePasses(c) \/ CooldownEnds(c) \/ Restart(c)
  \/ \E s \in States : OutlookChanges(s)
  \/ Quiet \/ QuietEnds

Spec == Init /\ [][Next]_vars

-----------------------------------------------------------------------------
(* Properties *)

(* A snapshot is stored with its observations or not at all, and what a    *)
(* shell will not write again because it has written it is in the file.    *)
SnapshotsAreWhole ==
  /\ db.snapshots = db.observations
  /\ \A c \in Shells :
       /\ written[c]["provider"] \in db.snapshots \cup {Nothing}
       /\ written[c]["tool"] \in db.tools \cup {Nothing}

(* However the shells and their failures interleave, the stored            *)
(* transitions change every time, begin with an alarm, and each is         *)
(* announced at most once and only after it was stored.                    *)
TransitionsAlternate ==
  /\ \A i \in DOMAIN db.events \ {1} : db.events[i] # db.events[i - 1]
  /\ db.events # <<>> => db.events[1] \in Alarms
  /\ \A t \in told : t[1] \in DOMAIN db.events
  /\ Cardinality(told) <= Len(db.events)

(* A connection between two calls is in no transaction, and nobody waits   *)
(* for its lock.                                                           *)
NoTransactionLeft == \A c \in Shells : pc[c] \in {"idle", "deliver", "metrics"} => tx[c] = Closed

(* Whatever fails and however two shells interleave, a snapshot is stored  *)
(* whole, what is taken for written is, no connection stays in a           *)
(* transaction, and the stored transitions of a forecast alternate and are *)
(* announced once each (usagedatabase.cpp, recordSnapshot and              *)
(* recordGuardrailTransition; NotificationController.qml,                  *)
(* processGuardrail).                                                      *)
RecordsAreSound == NoTransactionLeft /\ SnapshotsAreWhole /\ TransitionsAlternate

(* An alarm that lasts is stored: quiet hours, cooldowns, failures and     *)
(* restarts delay it only.                                                 *)
AlarmsAreStored ==
  \A s \in Alarms :
    <>[](\A c \in Shells : forecast[c] = s) => <>(Latest(db) = s)
=============================================================================
