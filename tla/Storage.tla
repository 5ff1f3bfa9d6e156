------------------------------- MODULE Storage -------------------------------
(***************************************************************************)
(* What is kept on disk and what is promised of it: the catalog cache      *)
(* (extended), and of the usage database its upgrade by the connections    *)
(* that open it, its maintenance, and what the shells record in it.  The   *)
(* parts share no state but the file the database is in.                   *)
(***************************************************************************)
EXTENDS CatalogCache

CONSTANTS
  \* SchemaMigration
  Connections, Rows, Oldest, MaxUpgradeFaults,
  \* HistoryOperations
  Pages, Files, MaxObservations, MaxOperations, MaxFailures,
  \* HistoryRecording
  Shells, Values, MaxRecords, MaxChanges, MaxEvents, MaxStatementFaults, MaxRestarts

VARIABLES
  \* SchemaMigration
  version, tables, rows, scoped, wal, backups, pc, target, seen, mFaults,
  \* HistoryOperations
  oVersion, active, jobs, page, saved, disk, serial, failures, completed, oSeen,
  \* HistoryRecording
  db, tx, rPc, doing, written, recent, cooling, outlook, forecast, quiet, told,
  records, changes, rFaults, restarts

Upgrade == INSTANCE SchemaMigration WITH MaxFaults <- MaxUpgradeFaults, faults <- mFaults
Operations == INSTANCE HistoryOperations WITH
                MaxRecords <- MaxObservations, version <- oVersion, seen <- oSeen
Recording == INSTANCE HistoryRecording WITH
               MaxFaults <- MaxStatementFaults, pc <- rPc, faults <- rFaults

mVars == <<version, tables, rows, scoped, wal, backups, pc, target, seen, mFaults>>
oVars == <<oVersion, active, jobs, page, saved, disk, serial, failures, completed, oSeen>>
rVars == <<db, tx, rPc, doing, written, recent, cooling, outlook, forecast, quiet, told,
           records, changes, rFaults, restarts>>

-----------------------------------------------------------------------------
(* The properties of the parts *)

(* An upgrade can be interrupted anywhere: the version never promises a    *)
(* table that is missing and, where no other connection upgrades the file  *)
(* meanwhile, nothing is left that the next attempt would create again,    *)
(* and the copy it may be undone with was made first (usagedatabase.cpp    *)
(* and budgetpolicyschema.cpp, the migrations).                            *)
UpgradeIsSafe == Upgrade!UpgradeIsSafe

(* No step of an upgrade loses an observation or the scope of one          *)
(* (usagedatabase.cpp, migrateToSchemaV4).                                 *)
ScopesKept == Upgrade!ScopesKept

(* Two prunes or exports never run at the same time, whoever asked         *)
(* (usagedatabase.cpp, acquireOperation).                                  *)
OneOfAKind == Operations!OneOfAKind

(* What the settings pages show of storage and exports is never older than *)
(* what their own operations left, and names the files written             *)
(* (HistoryMaintenanceController.qml; usagedatabase.cpp, requestExportAll).*)
ResultsAreCurrent == Operations!ResultsAreCurrent

(* Whatever fails and however two shells interleave, a snapshot is stored  *)
(* whole, what is taken for written is, no connection stays in a           *)
(* transaction, and the stored transitions of a forecast alternate and are *)
(* announced once each (usagedatabase.cpp, recordSnapshot and              *)
(* recordGuardrailTransition; NotificationController.qml,                  *)
(* processGuardrail).                                                      *)
RecordsAreSound == Recording!RecordsAreSound
=============================================================================
