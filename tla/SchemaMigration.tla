-------------------------- MODULE SchemaMigration --------------------------
(***************************************************************************)
(* Opening the history database: plugin/usagedatabase.cpp (initDatabase,   *)
(* createTables and the migrations to schemas 3 to 7) and                  *)
(* plugin/budgetpolicyschema.cpp (schemas 6, 8 and 9).                     *)
(*                                                                         *)
(* Every applet, settings page and worker thread opens a connection of its *)
(* own and brings the file up to date by itself: it reads the version,     *)
(* copies the file, and only then begins the transaction of the step.      *)
(* Between any two of these the process may die, a call may fail, and      *)
(* another connection may do the same.                                     *)
(***************************************************************************)
EXTENDS Integers, FiniteSets

CONSTANTS
  Connections,  \* that open the database
  Rows,         \* history the database may hold
  Oldest,       \* the oldest schema the file may have
  MaxFaults     \* bound: crashes and failed calls

Versions == {0} \cup 3 .. 9
Targets == 3 .. 9

(* The backup made before the step to a version; the step to 7 makes none. *)
BackupOf == [t \in Targets \ {7} |->
  CASE t = 3 -> "v11" [] t = 4 -> "v13" [] t = 5 -> "v17"
    [] t = 6 -> "v18" [] t = 8 -> "v21" [] t = 9 -> "v24"]
Backups == {BackupOf[t] : t \in Targets \ {7}}

(* What the steps add to the schema, and the first version with it.        *)
Since == [observations |-> 3, scope |-> 4, guardrail_events |-> 5,
          budget_policies |-> 6, tier_scope |-> 6, provenance |-> 7,
          deliveries |-> 8, sessions |-> 9]
Tables == DOMAIN Since

VARIABLES
  version,  \* PRAGMA user_version
  tables,   \* the parts of the schema the file has
  rows,     \* history rows committed
  scoped,   \* the rows that have their scope and window
  wal,      \* rows in the write-ahead log and not in the main file
  backups,  \* name -> the rows of the copy and its version, or NoCopy
  pc,       \* connection -> what it does next
  target,   \* connection -> the step it is at
  seen,     \* connection -> the version that step read
  faults

vars == <<version, tables, rows, scoped, wal, backups, pc, target, seen, faults>>
file == <<version, tables, rows, scoped, wal>>

NoCopy == [rows |-> {}, version |-> -1]
Phases == {"closed", "read", "backup", "checkpointed", "columns", "transaction",
           "ready", "failed"}

Init ==
  /\ version \in {v \in Versions : v >= Oldest}
  /\ tables = {f \in Tables : Since[f] <= version}
  /\ rows \in SUBSET Rows
  /\ wal \in {{}, rows}
  /\ scoped = IF version >= 4 THEN rows ELSE {}
  /\ backups = [b \in Backups |-> NoCopy]
  /\ pc = [c \in Connections |-> "closed"]
  /\ target = [c \in Connections |-> 3]
  /\ seen = [c \in Connections |-> 0]
  /\ faults = 0

-----------------------------------------------------------------------------
(* One connection *)

Goes(c, phase) == pc' = [pc EXCEPT ![c] = phase]

(* The next step begins, or the schema is complete.                        *)
Advance(c) ==
  IF target[c] = 9
  THEN Goes(c, "ready") /\ UNCHANGED target
  ELSE Goes(c, "read") /\ target' = [target EXCEPT ![c] = @ + 1]

(* initDatabase, init: also after an earlier attempt failed.               *)
Open(c) ==
  /\ pc[c] \in {"closed", "failed"}
  /\ target' = [target EXCEPT ![c] = 3]
  /\ Goes(c, "read")
  /\ UNCHANGED <<file, backups, seen, faults>>

(* Mutant: the step to 4 is not skipped at schema 4.                       *)
AdmitsOnce(t, v) ==
  \/ t \in {3, 5, 7} /\ v < t
  \/ t = 4 /\ v <= t
  \/ t = 6 /\ v \in {5, 6}
  \/ t \in {8, 9} /\ v = t - 1

(* The steps to 6 and above require the version just before; the one to 6  *)
(* is also run, for its columns, at 6.                                     *)
Admits(t, v) ==
  \/ t \in {3, 4, 5, 7} /\ v < t
  \/ t = 6 /\ v \in {5, 6}
  \/ t \in {8, 9} /\ v = t - 1

ReadVersion(c) ==
  /\ pc[c] = "read"
  /\ seen' = [seen EXCEPT ![c] = version]
  /\ \/ /\ Admits(target[c], version)
        /\ Goes(c, IF target[c] = 7 THEN "columns"
                   ELSE IF target[c] = 6 /\ version = 6 THEN "transaction"
                   ELSE "backup")
        /\ UNCHANGED target
     \/ ~Admits(target[c], version) /\ version >= target[c] /\ Advance(c)
     \/ /\ ~Admits(target[c], version) /\ version < target[c]
        /\ Goes(c, "failed") /\ UNCHANGED target
  /\ UNCHANGED <<file, backups, faults>>

(* Before the steps to 6, 8 and 9 the log is written back; 8 and 9 insist  *)
(* that all of it was.  An existing copy is kept by the steps below 8.     *)
Checkpoint(c) ==
  /\ pc[c] = "backup"
  /\ target[c] \in {6, 8, 9}
  /\ target[c] = 6 => backups["v18"] = NoCopy
  /\ wal' = {}
  /\ Goes(c, "checkpointed")
  /\ UNCHANGED <<version, tables, rows, scoped, backups, target, seen, faults>>

Kept(c) == target[c] < 8 /\ backups[BackupOf[target[c]]] # NoCopy

(* Mutant: an earlier copy is always good enough.                          *)
CopyOnce(c) ==
  /\ \/ pc[c] = "checkpointed"
     \/ pc[c] = "backup" /\ (target[c] < 6 \/ Kept(c))
  /\ backups' = IF backups[BackupOf[target[c]]] # NoCopy THEN backups
                ELSE [backups EXCEPT ![BackupOf[target[c]]] =
                        [rows |-> rows \ wal, version |-> version]]
  /\ Goes(c, "transaction")
  /\ UNCHANGED <<file, target, seen, faults>>

(* QFile::copy and QSaveFile: the main file, without its log.              *)
Copy(c) ==
  /\ \/ pc[c] = "checkpointed"
     \/ pc[c] = "backup" /\ (target[c] < 6 \/ Kept(c))
  /\ backups' = IF Kept(c) THEN backups
                ELSE [backups EXCEPT ![BackupOf[target[c]]] =
                        [rows |-> rows \ wal, version |-> version]]
  /\ Goes(c, "transaction")
  /\ UNCHANGED <<file, target, seen, faults>>

(* migrateToSchemaV7 has no transaction: first its columns,                *)
AddColumns(c) ==
  /\ pc[c] = "columns"
  /\ tables' = tables \cup {"provenance"}
  /\ Goes(c, "transaction")
  /\ UNCHANGED <<version, rows, scoped, wal, backups, target, seen, faults>>

(* What a step makes of the tables: the one to 4 builds the observations   *)
(* anew with the columns of that version, and each adds what is its own.   *)
Migrated(t) ==
  (IF t = 4 THEN tables \ {"tier_scope", "provenance"} ELSE tables)
    \cup {f \in Tables \ {"provenance"} : Since[f] = t}

(* CREATE TABLE without IF NOT EXISTS fails where the table exists.        *)
Refused(c) ==
  \/ target[c] = 6 /\ seen[c] = 5 /\ "budget_policies" \in tables
  \/ target[c] = 9 /\ "sessions" \in tables

(* The transaction of a step, with the version, and its commit.            *)
Migrate(c) ==
  /\ pc[c] = "transaction"
  /\ ~Refused(c)
  /\ version' = IF target[c] = 6 /\ seen[c] = 6 THEN version ELSE target[c]
  /\ tables' = Migrated(target[c])
  /\ scoped' = IF target[c] = 4 THEN {} ELSE scoped
  /\ wal' = rows
  /\ Advance(c)
  /\ UNCHANGED <<rows, backups, seen, faults>>

(* The transaction is rolled back and the database closed.                 *)
Reject(c) ==
  /\ pc[c] = "transaction"
  /\ Refused(c)
  /\ Goes(c, "failed")
  /\ UNCHANGED <<file, backups, target, seen, faults>>

(* recordProviderMetrics, once the schema is complete.             *)
Record(c) ==
  /\ pc[c] = "ready"
  /\ \E r \in Rows \ rows :
       /\ rows' = rows \cup {r}
       /\ scoped' = scoped \cup {r}
       /\ wal' = wal \cup {r}
  /\ UNCHANGED <<version, tables, backups, pc, target, seen, faults>>

(* A query, a copy or a commit fails: rolled back, closed.                 *)
Fail(c) ==
  /\ pc[c] \in {"read", "backup", "checkpointed", "columns", "transaction"}
  /\ faults < MaxFaults
  /\ faults' = faults + 1
  /\ Goes(c, "failed")
  /\ UNCHANGED <<file, backups, target, seen>>

Crash(c) ==
  /\ pc[c] # "closed"
  /\ faults < MaxFaults
  /\ faults' = faults + 1
  /\ Goes(c, "closed")
  /\ UNCHANGED <<file, backups, target, seen>>

(* The user puts the copy of schema 7 back and goes on with the release of *)
(* that time, which records more history, before upgrading again.          *)
Restore ==
  /\ faults < MaxFaults
  /\ \A c \in Connections : pc[c] = "closed"
  /\ backups["v21"].version = 7
  /\ faults' = faults + 1
  /\ version' = 7
  /\ tables' = {f \in Tables : Since[f] <= 7}
  /\ rows' \in {r \in SUBSET Rows : backups["v21"].rows \subseteq r}
  /\ scoped' = rows'
  /\ wal' \in {{}, rows'}
  /\ UNCHANGED <<backups, pc, target, seen>>

Step(c) ==
  \/ Open(c) \/ ReadVersion(c) \/ Checkpoint(c) \/ Copy(c) \/ AddColumns(c)
  \/ Migrate(c) \/ Reject(c)

Next ==
  \/ \E c \in Connections : Step(c) \/ Record(c) \/ Fail(c) \/ Crash(c)
  \/ Restore

Spec == Init /\ [][Next]_vars

(* The widget asks again for the database it could not open.               *)
FairSpec == Spec /\ \A c \in Connections : WF_vars(Step(c))

-----------------------------------------------------------------------------
(* Properties *)

(* Every variable stays in its domain.                                     *)
TypeOK ==
  /\ version \in Versions
  /\ tables \subseteq Tables
  /\ rows \subseteq Rows /\ scoped \subseteq rows /\ wal \subseteq rows
  /\ backups \in [Backups -> [rows : SUBSET Rows, version : Versions \cup {-1}]]
  /\ pc \in [Connections -> Phases]
  /\ target \in [Connections -> Targets]
  /\ seen \in [Connections -> Versions]
  /\ faults \in 0 .. MaxFaults

(* The version never promises a table or column the file does not have:    *)
(* nobody would add it any more.                                           *)
NothingMissing == {f \in Tables : Since[f] <= version} \subseteq tables

(* After a crash or failure no table is there that the next start would    *)
(* try, and fail, to create.                                               *)
NothingLeftBehind ==
  tables \subseteq {f \in Tables : Since[f] <= version} \cup {"provenance"}

(* No step of an upgrade loses an observation or the scope of one.         *)
KeepsScopes == faults' = faults => rows \subseteq rows' /\ scoped \subseteq scoped'
ScopesKept == [][KeepsScopes]_vars

(* docs/configuration-reference.md:106: the session tables are created     *)
(* only with a snapshot of schema 8 that includes the write-ahead log; and *)
(* likewise the delivery tables.                                           *)
SnapshotBeforeUpgrade ==
  \A c \in Connections : pc[c] = "transaction" /\ target[c] \in {8, 9} =>
    backups[BackupOf[target[c]]] = [rows |-> rows, version |-> target[c] - 1]

(* One connection at most.                                                 *)
Alone == \A c, d \in Connections : c = d

(* An upgrade can be interrupted anywhere: the version never promises a    *)
(* table that is missing and, where no other connection upgrades the file  *)
(* meanwhile, nothing is left that the next attempt would create again and *)
(* the copy it may be undone with was made first (usagedatabase.cpp and    *)
(* budgetpolicyschema.cpp, the migrations).                                *)
UpgradeIsSafe ==
  NothingMissing /\ (Alone => NothingLeftBehind /\ SnapshotBeforeUpgrade)

(* Whatever was interrupted, the database is up to date in the end.        *)
UpToDate == <>[](version = 9 /\ \A c \in Connections : pc[c] = "ready")

(* docs/configuration-reference.md:85: migration is idempotent - a file    *)
(* that is up to date stays so when another connection opens it.           *)
StaysUpToDate == [][version = 9 => version' = 9]_vars
=============================================================================
