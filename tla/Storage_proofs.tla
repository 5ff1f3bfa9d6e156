--------------------------- MODULE Storage_proofs ---------------------------
(***************************************************************************)
(* Proofs about what is kept on disk: CatalogCache, for every number of    *)
(* catalogs, checks, failed writes and crashes; SchemaMigration, for any   *)
(* number of connections, rows, crashes and failures; and the other parts  *)
(* of Storage by the theorems about their modules.                         *)
(*                                                                         *)
(* The catalog in use is the packaged one or the one the metadata names,   *)
(* and the metadata only moves up.  While an installation runs, the file   *)
(* it replaced is the one the metadata names, so that putting it back      *)
(* leaves a verified cache.                                                *)
(*                                                                         *)
(* An upgrade is safe: for one connection from any schema, and for any     *)
(* number of them from schema 4 on.  (Of two that find schema 3, the later *)
(* one drops the columns and scopes the earlier one has added since: the   *)
(* step to 4 is the only one that takes anything away.)  A connection that *)
(* is at a step has seen every step before it done, and the tables only    *)
(* grow, so what the step adds completes its version.  Alone, it also      *)
(* knows that the version is still the one it read.                        *)
(***************************************************************************)
EXTENDS Storage, FiniteSets, TLAPS

CacheInv ==
  /\ TypeOK
  /\ loaded \in {None, meta}
  /\ step = "metadata" => body > meta /\ catalog = body /\ previous = meta
  /\ step = "restore" => previous = meta /\ faults > 0
  /\ OneFaultIsUndone

USE DEF None, Sequences, Statuses, Steps

LEMMA InitInv == Init => CacheInv
  BY CatalogAssumption DEF Init, CacheInv, TypeOK, OneFaultIsUndone, Settled

(* Steps of an installation.                                               *)
LEMMA InstallInv ==
  ASSUME CacheInv,
         \/ Reject \/ WriteCatalog \/ CatalogWriteFails
         \/ WriteMetadata \/ MetadataWriteFails \/ Restore \/ RestoreFails
  PROVE  CacheInv'
<1> USE CatalogAssumption DEF CacheInv, TypeOK, OneFaultIsUndone, Settled, Ends, files, bounds
<1>1. CASE Reject
  BY <1>1 DEF Reject
<1>2. CASE WriteCatalog
  BY <1>2 DEF WriteCatalog, Installable
<1>3. CASE CatalogWriteFails
  BY <1>3 DEF CatalogWriteFails, Installable
<1>4. CASE WriteMetadata
  BY <1>4 DEF WriteMetadata
<1>5. CASE MetadataWriteFails
  BY <1>5 DEF MetadataWriteFails
<1>6. CASE Restore
  BY <1>6 DEF Restore
<1>7. CASE RestoreFails
  BY <1>7 DEF RestoreFails
<1> QED BY <1>1, <1>2, <1>3, <1>4, <1>5, <1>6, <1>7

(* Everything else leaves the two files alone.                             *)
LEMMA OtherInv ==
  ASSUME CacheInv,
         \/ Start \/ Stop \/ NotModified \/ CheckFails
         \/ \E v \in Sequences : FeedArrives(v)
         \/ Publish \/ DayPasses \/ Crash
         \/ UNCHANGED vars
  PROVE  CacheInv'
<1> USE CatalogAssumption DEF CacheInv, TypeOK, OneFaultIsUndone, Settled, Ends, files, bounds
<1>1. CASE Start
  BY <1>1 DEF Start, Located, Verified
<1>2. CASE Stop
  BY <1>2 DEF Stop
<1>0. ASSUME NEW tag \in 0 .. MaxSequence, Recorded(tag)
      PROVE  etag' \in 0 .. MaxSequence /\ due' \in BOOLEAN
  BY <1>0, Zenon DEF Recorded
<1>3. CASE NotModified
  <2>1. etag' \in 0 .. MaxSequence /\ due' \in BOOLEAN
    BY <1>0, <1>3 DEF NotModified
  <2> QED BY <1>3, <2>1 DEF NotModified
<1>4. CASE CheckFails
  <2>1. etag' \in 0 .. MaxSequence /\ due' \in BOOLEAN
    BY <1>0, <1>4 DEF CheckFails
  <2> QED BY <1>4, <2>1 DEF CheckFails
<1>5. ASSUME NEW v \in Sequences, FeedArrives(v) PROVE CacheInv'
  <2>1. etag' \in 0 .. MaxSequence /\ due' \in BOOLEAN
    BY <1>0, <1>5 DEF FeedArrives
  <2>2. v \in 0 .. MaxSequence
    OBVIOUS
  <2> QED BY <1>5, <2>1, <2>2 DEF FeedArrives
<1>6. CASE Publish
  BY <1>6 DEF Publish
<1>7. CASE DayPasses
  BY <1>7 DEF DayPasses
<1>8. CASE Crash
  BY <1>8 DEF Crash
<1>9. CASE UNCHANGED vars
  BY <1>9 DEF vars
<1> QED BY <1>1, <1>2, <1>3, <1>4, <1>5, <1>6, <1>7, <1>8, <1>9

LEMMA SpecInv == Spec => []CacheInv
<1>1. CacheInv /\ [Next]_vars => CacheInv'
  BY InstallInv, OtherInv DEF Next
<1> QED BY <1>1, InitInv, PTL DEF Spec

(* Type correctness: there is always a catalog to use.                     *)
THEOREM TypeCorrect == Spec => []TypeOK
<1>1. CacheInv => TypeOK
  BY DEF CacheInv
<1> QED BY <1>1, SpecInv, PTL

(* A failed write that is the only one leaves a verified cache.            *)
THEOREM FaultUndone == Spec => []OneFaultIsUndone
<1>1. CacheInv => OneFaultIsUndone
  BY DEF CacheInv
<1> QED BY <1>1, SpecInv, PTL

(* The signed catalog in use never goes back to an older one, through any  *)
(* number of failed writes, crashes and old copies of the feed.            *)
THEOREM NoRollback == Spec => NeverRollsBack
<1>1. CacheInv /\ CacheInv' /\ [Next]_vars =>
        [loaded' # None => \A v \in {loaded, meta} : v <= loaded']_vars
  <2> SUFFICES ASSUME CacheInv, CacheInv', Next, loaded' # None
               PROVE  \A v \in {loaded, meta} : v <= loaded'
    OBVIOUS
  <2>1. loaded' = meta' /\ meta \in Int /\ meta' \in Int /\ meta >= 0 /\ loaded \in {0, meta}
    BY CatalogAssumption DEF CacheInv, TypeOK
  <2>2. meta' = meta \/ WriteMetadata
    BY DEF Next, Start, Stop, NotModified, CheckFails, FeedArrives, Reject, WriteCatalog,
           CatalogWriteFails, MetadataWriteFails, Restore, RestoreFails, Publish,
           DayPasses, Crash, files
  <2>3. meta <= meta'
    BY <2>1, <2>2 DEF WriteMetadata, CacheInv
  <2> QED BY <2>1, <2>3
<1> QED BY <1>1, SpecInv, PTL DEF Spec, NeverRollsBack

-----------------------------------------------------------------------------
(* Upgrades of the usage database *)

Busy(c) == pc[c] \in {"read", "backup", "checkpointed", "columns", "transaction"}
Working(c) == Busy(c) /\ pc[c] # "read"

Upgradable == Upgrade!Alone \/ (Oldest \in Nat /\ Oldest >= 4)

Before(t) == {f \in Upgrade!Tables : Upgrade!Since[f] < t}
UpTo(v) == {f \in Upgrade!Tables : Upgrade!Since[f] <= v}

UpgradeTypes ==
  /\ version \in Nat
  /\ tables \subseteq Upgrade!Tables
  /\ pc \in [Connections -> Upgrade!Phases]
  /\ target \in [Connections -> Upgrade!Targets]
  /\ seen \in [Connections -> Nat]
  /\ DOMAIN backups = Upgrade!Backups

(* Every step before the one a connection is at is done.                   *)
TablesInv ==
  /\ Upgrade!NothingMissing
  /\ \A c \in Connections :
       /\ Busy(c) => Before(target[c]) \subseteq tables
       /\ pc[c] = "transaction" /\ target[c] = 7 => "provenance" \in tables
       /\ pc[c] \in {"backup", "checkpointed"} => target[c] # 7
       /\ pc[c] = "columns" => target[c] = 7

(* There are no scopes yet when the step to 4 clears them.                 *)
ScopesInv ==
  /\ version < 4 => Upgrade!Alone /\ scoped = {}
  /\ \A c \in Connections :
       /\ pc[c] = "ready" => version >= 4
       /\ Working(c) /\ target[c] < 5 => Upgrade!Alone /\ version < 4

(* The version is the one that was read, and the log is still written back *)
(* when the file is copied.                                                *)
AloneInv ==
  /\ Upgrade!NothingLeftBehind
  /\ \A c \in Connections :
       /\ Working(c) => Upgrade!Admits(target[c], version) /\ seen[c] = version
       /\ pc[c] = "checkpointed" => wal = {}
  /\ Upgrade!SnapshotBeforeUpgrade

UpgradeInv == UpgradeTypes /\ TablesInv /\ ScopesInv /\ (Upgrade!Alone => AloneInv)

-----------------------------------------------------------------------------
(* The schema *)

LEMMA SinceFacts ==
  /\ \A f \in Upgrade!Tables :
       Upgrade!Since[f] \in Nat /\ Upgrade!Since[f] >= 3 /\ Upgrade!Since[f] <= 9
  /\ "provenance" \in Upgrade!Tables /\ Upgrade!Since["provenance"] = 7
  /\ "tier_scope" \in Upgrade!Tables /\ Upgrade!Since["tier_scope"] = 6
  /\ \A f \in Upgrade!Tables : Upgrade!Since[f] = 7 => f = "provenance"
BY DEF Upgrade!Tables, Upgrade!Since

LEMMA BeforeFacts ==
  ASSUME NEW t \in Upgrade!Targets
  PROVE  /\ UpTo(t - 1) = Before(t)
         /\ t # 9 => t + 1 \in Upgrade!Targets /\ Before(t + 1) = UpTo(t)
         /\ t \in Nat
         /\ \A v \in Nat : v >= t => UpTo(t) \subseteq UpTo(v)
         /\ UpTo(9) = Upgrade!Tables
         /\ Before(3) = {}
BY SinceFacts DEF Before, UpTo, Upgrade!Targets

(* What a step adds completes the tables of its version.                   *)
LEMMA MigratedFacts ==
  ASSUME NEW t \in Upgrade!Targets, Before(t) \subseteq tables, tables \subseteq Upgrade!Tables,
         t = 7 => "provenance" \in tables
  PROVE  /\ UpTo(t) \subseteq Upgrade!Migrated(t)
         /\ Upgrade!Migrated(t) \subseteq tables \union UpTo(t)
         /\ Upgrade!Migrated(t) \subseteq Upgrade!Tables
         /\ t # 4 => tables \subseteq Upgrade!Migrated(t)
<1>1. t \in Nat
  BY DEF Upgrade!Targets
<1>2. UpTo(t) \subseteq Upgrade!Migrated(t)
  <2> SUFFICES ASSUME NEW f \in Upgrade!Tables, Upgrade!Since[f] <= t
               PROVE  f \in Upgrade!Migrated(t)
    BY DEF UpTo
  <2>1. CASE Upgrade!Since[f] = t
    BY <2>1, SinceFacts DEF Upgrade!Migrated
  <2>2. CASE Upgrade!Since[f] < t
    BY <1>1, <2>2, SinceFacts DEF Before, Upgrade!Migrated
  <2> QED
    BY <1>1, <2>1, <2>2, SinceFacts
<1> QED
  BY <1>1, <1>2, SinceFacts DEF Upgrade!Migrated, UpTo

-----------------------------------------------------------------------------
(* What the steps of one connection do *)

(* Nothing of the other connections changes.                               *)
Others(c) ==
  \A d \in Connections : d # c =>
    pc'[d] = pc[d] /\ target'[d] = target[d] /\ seen'[d] = seen[d]

(* It is at the start of a step, or done.                                  *)
AtNext(c) ==
  \/ /\ target[c] # 9
     /\ pc'[c] = "read" /\ target'[c] = target[c] + 1
  \/ /\ target[c] = 9
     /\ pc'[c] = "ready" /\ target'[c] = target[c]

LEMMA AdvanceTo ==
  ASSUME UpgradeTypes, NEW c \in Connections, Upgrade!Advance(c)
  PROVE  /\ AtNext(c)
         /\ pc' \in [Connections -> Upgrade!Phases] /\ target' \in [Connections -> Upgrade!Targets]
         /\ \A d \in Connections : d # c => pc'[d] = pc[d] /\ target'[d] = target[d]
BY DEF UpgradeTypes, Upgrade!Advance, Upgrade!Goes, AtNext, Upgrade!Phases,
   Upgrade!Targets

(* It stops, or begins to open the file.                                   *)
Leaves(c) ==
  /\ UNCHANGED <<Upgrade!file, backups>> /\ UpgradeTypes' /\ Others(c)
  /\ \/ pc'[c] \in {"closed", "failed"}
     \/ pc'[c] = "read" /\ target'[c] = 3

LEMMA LeavesStep ==
  ASSUME UpgradeTypes, NEW c \in Connections,
         Upgrade!Open(c) \/ Upgrade!Reject(c) \/ Upgrade!Fail(c) \/ Upgrade!Crash(c)
  PROVE  Leaves(c)
<1>1. pc' \in [Connections -> Upgrade!Phases] /\ target' \in [Connections -> Upgrade!Targets]
      /\ UNCHANGED <<Upgrade!file, backups, seen>>
  BY DEF UpgradeTypes, Upgrade!Open, Upgrade!Reject, Upgrade!Fail, Upgrade!Crash,
     Upgrade!Goes, Upgrade!Phases, Upgrade!Targets
<1>2. Others(c)
  BY <1>1 DEF UpgradeTypes, Others, Upgrade!Open, Upgrade!Reject, Upgrade!Fail,
     Upgrade!Crash, Upgrade!Goes
<1>3. pc'[c] \in {"closed", "failed"} \/ (pc'[c] = "read" /\ target'[c] = 3)
  BY DEF UpgradeTypes, Upgrade!Open, Upgrade!Reject, Upgrade!Fail, Upgrade!Crash,
     Upgrade!Goes
<1> QED
  BY <1>1, <1>2, <1>3 DEF UpgradeTypes, Leaves, Upgrade!file

LEMMA LeavesInv ==
  ASSUME UpgradeInv, NEW c \in Connections, Leaves(c)
  PROVE  UpgradeInv'
<1>1. UNCHANGED <<version, tables, rows, scoped, wal, backups>>
  BY DEF Leaves, Upgrade!file
<1>2. \A d \in Connections :
        \/ pc'[d] = pc[d] /\ target'[d] = target[d] /\ seen'[d] = seen[d]
        \/ pc'[d] \in {"closed", "failed"}
        \/ pc'[d] = "read" /\ target'[d] = 3
  BY DEF Leaves, Others
<1>3. Before(3) = {}
  BY BeforeFacts DEF Upgrade!Targets
<1>4. TablesInv'
  BY <1>1, <1>2, <1>3 DEF UpgradeInv, TablesInv, Upgrade!NothingMissing, Busy
<1>5. ScopesInv'
  BY <1>1, <1>2 DEF UpgradeInv, ScopesInv, Upgrade!Alone, Busy, Working
<1>6. Upgrade!Alone' => AloneInv'
  BY <1>1, <1>2 DEF UpgradeInv, AloneInv, Upgrade!Alone, Upgrade!NothingLeftBehind,
     Upgrade!SnapshotBeforeUpgrade, Busy, Working
<1> QED
  BY <1>4, <1>5, <1>6 DEF UpgradeInv, Leaves

(* It reads the version, and begins the step, skips it, or gives up.       *)
LEMMA ReadStep ==
  ASSUME UpgradeInv, NEW c \in Connections, Upgrade!ReadVersion(c)
  PROVE  /\ UNCHANGED <<version, tables, rows, scoped, wal, backups>>
         /\ UpgradeTypes' /\ Others(c) /\ pc[c] = "read"
         /\ \/ /\ Upgrade!Admits(target[c], version)
               /\ seen'[c] = version /\ target'[c] = target[c]
               /\ \/ pc'[c] = "backup" /\ target[c] # 7
                  \/ pc'[c] = "columns" /\ target[c] = 7
                  \/ pc'[c] = "transaction" /\ target[c] = 6
            \/ AtNext(c) /\ version >= target[c]
            \/ pc'[c] = "failed"
<1>1. /\ UpgradeTypes /\ pc[c] = "read" /\ seen' = [seen EXCEPT ![c] = version]
      /\ UNCHANGED <<version, tables, rows, scoped, wal, backups>>
  BY DEF Upgrade!ReadVersion, UpgradeInv, Upgrade!file
<1>2. seen' \in [Connections -> Nat] /\ seen'[c] = version
      /\ \A d \in Connections : d # c => seen'[d] = seen[d]
  BY <1>1 DEF UpgradeTypes
<1>3. CASE Upgrade!Admits(target[c], version)
  <2> DEFINE phase == IF target[c] = 7 THEN "columns"
                      ELSE IF target[c] = 6 /\ version = 6 THEN "transaction"
                      ELSE "backup"
  <2>1. pc' = [pc EXCEPT ![c] = phase] /\ target' = target
    BY <1>3 DEF Upgrade!ReadVersion, Upgrade!Goes
  <2>2. phase \in Upgrade!Phases
    BY DEF Upgrade!Phases
  <2>3. /\ pc' \in [Connections -> Upgrade!Phases] /\ pc'[c] = phase
        /\ \A d \in Connections : d # c => pc'[d] = pc[d]
    BY <1>1, <2>1, <2>2 DEF UpgradeTypes
  <2>4. UpgradeTypes' /\ Others(c)
    BY <1>1, <1>2, <2>1, <2>3 DEF UpgradeTypes, Others
  <2>5. \/ phase = "backup" /\ target[c] # 7
        \/ phase = "columns" /\ target[c] = 7
        \/ phase = "transaction" /\ target[c] = 6
    OBVIOUS
  <2> HIDE DEF phase
  <2> QED
    BY <1>1, <1>2, <1>3, <2>1, <2>3, <2>4, <2>5
<1>4. CASE ~Upgrade!Admits(target[c], version)
  <2>1. CASE version >= target[c] /\ Upgrade!Advance(c)
    BY <1>1, <1>2, <2>1, AdvanceTo DEF UpgradeTypes, Others
  <2>2. CASE pc' = [pc EXCEPT ![c] = "failed"] /\ target' = target
    BY <1>1, <1>2, <2>2 DEF UpgradeTypes, Others, Upgrade!Phases
  <2> QED
    BY <1>4, <2>1, <2>2 DEF Upgrade!ReadVersion, Upgrade!Goes
<1> QED
  BY <1>3, <1>4

LEMMA ReadInv ==
  ASSUME UpgradeInv, NEW c \in Connections, Upgrade!ReadVersion(c)
  PROVE  UpgradeInv'
<1>1. /\ UNCHANGED <<version, tables, rows, scoped, wal, backups>>
      /\ UpgradeTypes' /\ Others(c) /\ pc[c] = "read"
  BY ReadStep
<1>2. /\ version \in Nat /\ target[c] \in Upgrade!Targets /\ Upgrade!NothingMissing
      /\ Before(target[c]) \subseteq tables
  BY <1>1 DEF UpgradeInv, UpgradeTypes, TablesInv, Busy
<1>3. CASE /\ Upgrade!Admits(target[c], version)
           /\ seen'[c] = version /\ target'[c] = target[c]
           /\ \/ pc'[c] = "backup" /\ target[c] # 7
              \/ pc'[c] = "columns" /\ target[c] = 7
              \/ pc'[c] = "transaction" /\ target[c] = 6
  <2>1. TablesInv'
    BY <1>1, <1>2, <1>3 DEF UpgradeInv, TablesInv, Upgrade!NothingMissing, Busy, Others
  <2>2. target[c] < 5 => version < 4
    BY <1>2, <1>3 DEF Upgrade!Admits, Upgrade!Targets
  <2>3. ScopesInv'
    BY <1>1, <1>2, <1>3, <2>2 DEF UpgradeInv, ScopesInv, Upgrade!Alone, Busy, Working,
       Others
  <2>4. Upgrade!Alone' => AloneInv'
    BY <1>1, <1>3 DEF UpgradeInv, AloneInv, Upgrade!Alone, Upgrade!NothingLeftBehind,
       Upgrade!SnapshotBeforeUpgrade, Working, Busy, Others
  <2> QED
    BY <1>1, <2>1, <2>3, <2>4 DEF UpgradeInv
<1>4. CASE AtNext(c) /\ version >= target[c]
  <2>1. target[c] # 9 => Before(target[c] + 1) \subseteq tables
    <3>1. UpTo(target[c]) \subseteq UpTo(version) /\ UpTo(version) \subseteq tables
      BY <1>2, <1>4, BeforeFacts DEF Upgrade!NothingMissing, UpTo
    <3> QED
      BY <1>2, <3>1, BeforeFacts
  <2>2. TablesInv'
    BY <1>1, <1>4, <2>1 DEF UpgradeInv, TablesInv, Upgrade!NothingMissing, Busy, Others,
       AtNext
  <2>3. ScopesInv'
    BY <1>1, <1>2, <1>4 DEF UpgradeInv, ScopesInv, Upgrade!Alone, Busy, Working, Others,
       AtNext
  <2>4. Upgrade!Alone' => AloneInv'
    BY <1>1, <1>4 DEF UpgradeInv, AloneInv, Upgrade!Alone, Upgrade!NothingLeftBehind,
       Upgrade!SnapshotBeforeUpgrade, Working, Busy, Others, AtNext
  <2> QED
    BY <1>1, <2>2, <2>3, <2>4 DEF UpgradeInv
<1>5. CASE pc'[c] = "failed"
  BY <1>1, <1>5, LeavesInv DEF Leaves, Upgrade!file
<1> QED
  BY <1>3, <1>4, <1>5, ReadStep

(* It prepares the transaction: the log is written back, the file copied,  *)
(* the columns added.                                                      *)
Prepares(c) ==
  /\ UpgradeTypes' /\ Others(c) /\ Working(c)
  /\ UNCHANGED <<version, rows, scoped, target, seen>>
  /\ tables \subseteq tables' /\ tables' \subseteq tables \union {"provenance"}
  /\ \/ /\ pc[c] = "backup" /\ pc'[c] = "checkpointed" /\ wal' = {}
        /\ UNCHANGED <<tables, backups>>
     \/ /\ pc[c] \in {"backup", "checkpointed"} /\ pc'[c] = "transaction"
        /\ UNCHANGED <<tables, wal>>
        /\ target[c] \in {8, 9} =>
             /\ pc[c] = "checkpointed"
             /\ backups'[Upgrade!BackupOf[target[c]]] = [rows |-> rows \ wal, version |-> version]
     \/ /\ pc[c] = "columns" /\ pc'[c] = "transaction" /\ "provenance" \in tables'
        /\ UNCHANGED <<wal, backups>>

LEMMA PrepareStep ==
  ASSUME UpgradeInv, NEW c \in Connections,
                     Upgrade!Checkpoint(c) \/ Upgrade!Copy(c) \/ Upgrade!AddColumns(c)
  PROVE  Prepares(c)
<1>1. UNCHANGED <<version, rows, scoped, target, seen>> /\ UpgradeTypes /\ Working(c)
  BY DEF Upgrade!Checkpoint, Upgrade!Copy, Upgrade!AddColumns, Upgrade!file, UpgradeInv,
     UpgradeTypes, Working, Busy
<1>2. CASE Upgrade!Checkpoint(c)
  BY <1>1, <1>2 DEF Upgrade!Checkpoint, Upgrade!Goes, UpgradeTypes, Upgrade!Phases,
     Prepares, Others
<1>3. CASE Upgrade!AddColumns(c)
  BY <1>1, <1>3, SinceFacts DEF Upgrade!AddColumns, Upgrade!Goes, UpgradeTypes,
     Upgrade!Phases, Prepares, Others
<1>4. CASE Upgrade!Copy(c)
  <2>1. UNCHANGED <<version, tables, rows, scoped, wal>> /\ pc' = [pc EXCEPT ![c] = "transaction"]
        /\ pc[c] \in {"backup", "checkpointed"}
    BY <1>4 DEF Upgrade!Copy, Upgrade!Goes, Upgrade!file
  <2>2. target[c] \in {8, 9} => pc[c] = "checkpointed" /\ ~Upgrade!Kept(c)
    BY <1>4 DEF Upgrade!Copy, Upgrade!Kept
  <2>3. DOMAIN backups' = Upgrade!Backups
    BY <1>1, <1>4 DEF Upgrade!Copy, UpgradeTypes
  <2>4. target[c] \in {8, 9} =>
          backups'[Upgrade!BackupOf[target[c]]] = [rows |-> rows \ wal, version |-> version]
    <3>1. target[c] \in {8, 9} => Upgrade!BackupOf[target[c]] \in Upgrade!Backups
      BY DEF Upgrade!Backups, Upgrade!Targets
    <3> QED
      BY <1>1, <1>4, <2>2, <3>1 DEF Upgrade!Copy, UpgradeTypes
  <2> QED
    BY <1>1, <2>1, <2>2, <2>3, <2>4 DEF UpgradeTypes, Upgrade!Phases, Prepares, Others
<1> QED
  BY <1>2, <1>3, <1>4

LEMMA PrepareInv ==
  ASSUME UpgradeInv, NEW c \in Connections, Prepares(c)
  PROVE  UpgradeInv'
<1>1. TablesInv'
  BY DEF UpgradeInv, TablesInv, Upgrade!NothingMissing, Prepares, Others, Busy, Working
<1>2. ScopesInv'
  BY DEF UpgradeInv, ScopesInv, Upgrade!Alone, Prepares, Others, Busy, Working
<1>3. ASSUME Upgrade!Alone PROVE AloneInv'
  <2>1. Upgrade!NothingLeftBehind'
    BY <1>3 DEF UpgradeInv, AloneInv, Upgrade!NothingLeftBehind, Prepares
  <2>2. \A d \in Connections :
          /\ Working(d)' => Upgrade!Admits(target[d], version)' /\ (seen[d] = version)'
          /\ (pc[d] = "checkpointed" => wal = {})'
    BY <1>3 DEF UpgradeInv, AloneInv, Upgrade!Alone, Prepares, Others, Busy, Working
  <2>3. Upgrade!SnapshotBeforeUpgrade'
    <3> SUFFICES ASSUME NEW d \in Connections, pc'[d] = "transaction", target'[d] \in {8, 9}
                 PROVE  backups'[Upgrade!BackupOf[target'[d]]]
                          = [rows |-> rows', version |-> target'[d] - 1]
      BY DEF Upgrade!SnapshotBeforeUpgrade
    <3>1. d = c
      BY <1>3 DEF Upgrade!Alone
    <3>2. Upgrade!Admits(target[c], version)
      BY <1>3 DEF UpgradeInv, AloneInv, Prepares
    <3>3. version = target[c] - 1
      BY <3>1, <3>2 DEF Upgrade!Admits, Prepares
    <3>4. CASE pc[c] = "columns"
      BY <3>1, <3>4 DEF UpgradeInv, TablesInv, Prepares
    <3>5. CASE pc[c] # "columns"
      <4>1. backups'[Upgrade!BackupOf[target[c]]] = [rows |-> rows \ wal, version |-> version]
            /\ pc[c] = "checkpointed" /\ rows' = rows /\ target' = target
        BY <3>1, <3>5 DEF Prepares
      <4>2. wal = {}
        BY <1>3, <4>1 DEF UpgradeInv, AloneInv
      <4> QED
        BY <3>1, <3>3, <4>1, <4>2
    <3> QED
      BY <3>4, <3>5
  <2> QED
    BY <2>1, <2>2, <2>3 DEF AloneInv
<1> QED
  BY <1>1, <1>2, <1>3 DEF UpgradeInv, Prepares, Upgrade!Alone

-----------------------------------------------------------------------------
(* The transaction *)

Migrates(c) ==
  /\ UpgradeTypes' /\ Others(c) /\ AtNext(c)
  /\ pc[c] = "transaction" /\ UNCHANGED <<seen, rows, backups>>
  /\ \/ version' = target[c]
     \/ target[c] = 6 /\ seen[c] = 6 /\ version' = version
  /\ tables' = Upgrade!Migrated(target[c])
  /\ scoped' = IF target[c] = 4 THEN {} ELSE scoped

LEMMA MigrateStep ==
  ASSUME UpgradeInv, NEW c \in Connections, Upgrade!Migrate(c)
  PROVE  Migrates(c)
<1>1. /\ UpgradeTypes /\ pc[c] = "transaction" /\ Upgrade!Advance(c)
      /\ UNCHANGED <<seen, rows, backups>>
      /\ target[c] \in Upgrade!Targets /\ Before(target[c]) \subseteq tables
      /\ target[c] = 7 => "provenance" \in tables
  BY DEF Upgrade!Migrate, UpgradeInv, UpgradeTypes, TablesInv, Busy
<1>2. /\ AtNext(c)
      /\ pc' \in [Connections -> Upgrade!Phases] /\ target' \in [Connections -> Upgrade!Targets]
      /\ \A d \in Connections : d # c => pc'[d] = pc[d] /\ target'[d] = target[d]
  BY <1>1, AdvanceTo
<1>3. version' \in Nat /\ version' \in {version, target[c]}
  BY <1>1, BeforeFacts DEF Upgrade!Migrate, UpgradeTypes
<1>4. tables' \subseteq Upgrade!Tables
  BY <1>1, MigratedFacts DEF Upgrade!Migrate, UpgradeTypes
<1> QED
  BY <1>1, <1>2, <1>3, <1>4 DEF Upgrade!Migrate, Migrates, UpgradeTypes, Others

LEMMA MigrateInv ==
  ASSUME UpgradeInv, NEW c \in Connections, Migrates(c)
  PROVE  UpgradeInv'
<1> DEFINE t == target[c]
<1>1. /\ t \in Upgrade!Targets /\ t \in Nat /\ version \in Nat /\ Before(t) \subseteq tables
      /\ tables \subseteq Upgrade!Tables /\ Upgrade!NothingMissing
      /\ t = 7 => "provenance" \in tables
      /\ Working(c)
  BY BeforeFacts DEF Migrates, UpgradeInv, UpgradeTypes, TablesInv, Busy, Working
<1>2. /\ UpTo(t) \subseteq tables' /\ tables' \subseteq tables \union UpTo(t)
      /\ t # 4 => tables \subseteq tables'
  BY <1>1, MigratedFacts DEF Migrates
<1>3. t = 4 => Upgrade!Alone /\ version < 4
  BY <1>1 DEF UpgradeInv, ScopesInv
<1>4. TablesInv'
  <2>1. Upgrade!NothingMissing'
    BY <1>1, <1>2 DEF Migrates, Upgrade!NothingMissing, UpTo
  <2>2. t # 9 => Before(t + 1) \subseteq tables'
    BY <1>1, <1>2, BeforeFacts
  <2>3. CASE t = 4
    BY <1>3, <2>1, <2>2, <2>3 DEF TablesInv, Upgrade!Alone, Migrates, AtNext, Busy
  <2>4. CASE t # 4
    BY <1>2, <2>1, <2>2, <2>4 DEF UpgradeInv, TablesInv, Migrates, AtNext, Others, Busy
  <2> QED
    BY <2>3, <2>4
<1>5. ScopesInv'
  <2>1. t < 5 => Upgrade!Alone /\ version < 4
    BY <1>1 DEF UpgradeInv, ScopesInv
  <2>2. version' < 4 => Upgrade!Alone /\ scoped' = {}
    BY <1>1, <2>1 DEF UpgradeInv, ScopesInv, Migrates
  <2>3. ASSUME NEW d \in Connections
        PROVE  /\ pc'[d] = "ready" => version' >= 4
               /\ Working(d)' /\ target'[d] < 5 => Upgrade!Alone /\ version' < 4
    <3>1. CASE d = c
      BY <1>1, <3>1 DEF Migrates, AtNext, Working
    <3>2. CASE d # c
      <4>1. ~Upgrade!Alone
        BY <3>2 DEF Upgrade!Alone
      <4>2. version >= 4 /\ t >= 5
        BY <1>1, <2>1, <4>1 DEF UpgradeInv, ScopesInv
      <4> QED
        BY <1>1, <3>2, <4>1, <4>2 DEF UpgradeInv, ScopesInv, Migrates, Others, Working,
           Busy
    <3> QED
      BY <3>1, <3>2
  <2> QED
    BY <2>2, <2>3 DEF ScopesInv, Upgrade!Alone
<1>6. ASSUME Upgrade!Alone PROVE AloneInv'
  <2>1. Upgrade!Admits(t, version) /\ seen[c] = version
    BY <1>1, <1>6 DEF UpgradeInv, AloneInv
  <2>2. t <= version' /\ version <= version' /\ version' \in Nat
    BY <1>1, <2>1 DEF Upgrade!Admits, Migrates
  <2>3. Upgrade!NothingLeftBehind'
    <3>1. tables \subseteq UpTo(version) \union {"provenance"}
      BY <1>6 DEF UpgradeInv, AloneInv, Upgrade!NothingLeftBehind, UpTo
    <3>2. UpTo(version) \subseteq UpTo(version') /\ UpTo(t) \subseteq UpTo(version')
      BY <1>1, <2>2, SinceFacts DEF UpTo
    <3> QED
      BY <1>2, <3>1, <3>2 DEF Upgrade!NothingLeftBehind, UpTo
  <2>4. \A d \in Connections : d = c
    BY <1>6 DEF Upgrade!Alone
  <2> QED
    BY <2>3, <2>4 DEF AloneInv, Upgrade!SnapshotBeforeUpgrade, Migrates, AtNext, Working,
       Busy
<1> QED
  BY <1>4, <1>5, <1>6 DEF UpgradeInv, Migrates, Upgrade!Alone

-----------------------------------------------------------------------------
(* The rest *)

LEMMA RecordInv ==
  ASSUME UpgradeInv, NEW c \in Connections, Upgrade!Record(c)
  PROVE  UpgradeInv'
<1>1. UNCHANGED <<version, tables, backups, pc, target, seen>> /\ pc[c] = "ready"
  BY DEF Upgrade!Record
<1>2. version >= 4 /\ version \in Nat
  BY <1>1 DEF UpgradeInv, ScopesInv, UpgradeTypes
<1>3. UpgradeTypes' /\ TablesInv'
  BY <1>1 DEF UpgradeInv, UpgradeTypes, TablesInv, Upgrade!NothingMissing, Busy
<1>4. ScopesInv'
  BY <1>1, <1>2 DEF UpgradeInv, ScopesInv, Upgrade!Alone, Busy, Working
<1>5. ASSUME Upgrade!Alone PROVE AloneInv'
  <2>1. \A d \in Connections : pc[d] = "ready"
    BY <1>1, <1>5 DEF Upgrade!Alone
  <2> QED
    BY <1>1, <1>5, <2>1 DEF UpgradeInv, AloneInv, Upgrade!NothingLeftBehind,
       Upgrade!SnapshotBeforeUpgrade, Working, Busy
<1> QED
  BY <1>3, <1>4, <1>5 DEF UpgradeInv, Upgrade!Alone

LEMMA RestoreInv ==
  ASSUME UpgradeInv, Upgrade!Restore
  PROVE  UpgradeInv'
<1>1. /\ version' = 7 /\ tables' = UpTo(7) /\ UNCHANGED <<backups, pc, target, seen>>
      /\ \A c \in Connections : pc[c] = "closed"
  BY DEF Upgrade!Restore, UpTo
<1>2. UpgradeTypes' /\ TablesInv'
  BY <1>1 DEF UpgradeInv, UpgradeTypes, TablesInv, Upgrade!NothingMissing, UpTo, Busy
<1>3. ScopesInv'
  BY <1>1 DEF ScopesInv, Busy, Working
<1>4. AloneInv'
  BY <1>1 DEF AloneInv, Upgrade!NothingLeftBehind, Upgrade!SnapshotBeforeUpgrade, UpTo,
     Working, Busy
<1> QED
  BY <1>2, <1>3, <1>4 DEF UpgradeInv

LEMMA UpgradeInitially == Upgradable /\ Upgrade!Init => UpgradeInv
<1> SUFFICES ASSUME Upgradable, Upgrade!Init PROVE UpgradeInv
  OBVIOUS
<1>1. version \in Nat /\ tables = UpTo(version) /\ \A c \in Connections : pc[c] = "closed"
  BY DEF Upgrade!Init, Upgrade!Versions, UpTo
<1>2. UpgradeTypes
  BY <1>1 DEF Upgrade!Init, UpgradeTypes, Upgrade!Phases, Upgrade!Targets, UpTo
<1>3. TablesInv
  BY <1>1 DEF TablesInv, Upgrade!NothingMissing, UpTo, Busy
<1>4. ScopesInv
  <2>1. version < 4 => Upgrade!Alone
    BY <1>1 DEF Upgradable, Upgrade!Init
  <2>2. version < 4 => scoped = {}
    BY <1>1 DEF Upgrade!Init
  <2> QED
    BY <1>1, <2>1, <2>2 DEF ScopesInv, Working, Busy
<1>5. AloneInv
  BY <1>1 DEF AloneInv, Upgrade!NothingLeftBehind, Upgrade!SnapshotBeforeUpgrade, UpTo,
     Working, Busy
<1> QED
  BY <1>2, <1>3, <1>4, <1>5 DEF UpgradeInv

LEMMA UpgradeSteps == UpgradeInv /\ [Upgrade!Next]_(Upgrade!vars) => UpgradeInv'
<1> SUFFICES ASSUME UpgradeInv, [Upgrade!Next]_(Upgrade!vars) PROVE UpgradeInv'
  OBVIOUS
<1>1. ASSUME NEW c \in Connections,
             Upgrade!Open(c) \/ Upgrade!Reject(c) \/ Upgrade!Fail(c) \/ Upgrade!Crash(c)
      PROVE  UpgradeInv'
  BY <1>1, LeavesStep, LeavesInv DEF UpgradeInv
<1>2. ASSUME NEW c \in Connections,
             Upgrade!Checkpoint(c) \/ Upgrade!Copy(c) \/ Upgrade!AddColumns(c)
      PROVE  UpgradeInv'
  BY <1>2, PrepareStep, PrepareInv
<1>3. ASSUME NEW c \in Connections, Upgrade!Migrate(c)
      PROVE  UpgradeInv'
  BY <1>3, MigrateStep, MigrateInv
<1>4. CASE UNCHANGED Upgrade!vars
  BY <1>4 DEF Upgrade!vars, UpgradeInv, UpgradeTypes, TablesInv, ScopesInv, AloneInv,
     Upgrade!NothingMissing, Upgrade!NothingLeftBehind, Upgrade!SnapshotBeforeUpgrade,
     Upgrade!Alone, Busy, Working
<1> QED
  BY <1>1, <1>2, <1>3, <1>4, ReadInv, RecordInv, RestoreInv DEF Upgrade!Next, Upgrade!Step

LEMMA AlwaysUpgradeInv ==
  ASSUME Upgradable
  PROVE  Upgrade!Spec => []UpgradeInv
<1> QED
  BY UpgradeInitially, UpgradeSteps, PTL DEF Upgrade!Spec

(* The version never promises a table the file does not have and, where    *)
(* one connection upgrades the file, nothing is left behind that the next  *)
(* attempt would create again, and the copy was made first: whatever       *)
(* crashes, fails or is restored (usagedatabase.cpp and                    *)
(* budgetpolicyschema.cpp, the migrations).                                *)
THEOREM UpgradesAreSafe ==
  ASSUME Upgradable
  PROVE  Upgrade!Spec => []UpgradeIsSafe
<1>1. UpgradeInv => UpgradeIsSafe
  BY DEF UpgradeInv, TablesInv, AloneInv, UpgradeIsSafe, Upgrade!UpgradeIsSafe
<1> QED
  BY <1>1, AlwaysUpgradeInv, PTL

LEMMA FaultsCounted == Upgrade!Spec => [](mFaults \in Nat)
<1>1. Upgrade!Init => mFaults \in Nat
  BY DEF Upgrade!Init
<1>2. mFaults \in Nat /\ [Upgrade!Next]_(Upgrade!vars) => (mFaults \in Nat)'
  <2> SUFFICES ASSUME mFaults \in Nat, [Upgrade!Next]_(Upgrade!vars)
               PROVE  mFaults' \in {mFaults, mFaults + 1}
    OBVIOUS
  <2> QED
    BY DEF Upgrade!Next, Upgrade!Step, Upgrade!Open, Upgrade!ReadVersion,
       Upgrade!Checkpoint, Upgrade!Copy, Upgrade!AddColumns, Upgrade!Migrate,
       Upgrade!Reject, Upgrade!Record, Upgrade!Fail, Upgrade!Crash, Upgrade!Restore,
       Upgrade!vars
<1> QED
  BY <1>1, <1>2, PTL DEF Upgrade!Spec

(* No step of an upgrade loses an observation or the scope of one          *)
(* (usagedatabase.cpp, migrateToSchemaV4).                                 *)
THEOREM ScopesAreKept ==
  ASSUME Upgradable
  PROVE  Upgrade!Spec => ScopesKept
<1>1. UpgradeInv /\ mFaults \in Nat /\ [Upgrade!Next]_(Upgrade!vars) =>
        [Upgrade!KeepsScopes]_(Upgrade!vars)
  <2> SUFFICES ASSUME UpgradeInv, mFaults \in Nat, Upgrade!Next, mFaults' = mFaults
               PROVE  rows \subseteq rows' /\ scoped \subseteq scoped'
    BY DEF Upgrade!KeepsScopes
  <2>1. CASE Upgrade!Restore
    BY <2>1 DEF Upgrade!Restore
  <2>2. ASSUME NEW c \in Connections, Upgrade!Migrate(c)
        PROVE  rows \subseteq rows' /\ scoped \subseteq scoped'
    <3>1. target[c] = 4 => scoped = {}
      BY <2>2 DEF Upgrade!Migrate, UpgradeInv, ScopesInv, Working, Busy
    <3> QED
      BY <2>2, <3>1 DEF Upgrade!Migrate
  <2>3. ASSUME NEW c \in Connections, Upgrade!Record(c)
        PROVE  rows \subseteq rows' /\ scoped \subseteq scoped'
    BY <2>3 DEF Upgrade!Record
  <2>4. ASSUME NEW c \in Connections,
               \/ Upgrade!Open(c) \/ Upgrade!ReadVersion(c) \/ Upgrade!Checkpoint(c)
               \/ Upgrade!Copy(c) \/ Upgrade!AddColumns(c)
               \/ Upgrade!Reject(c) \/ Upgrade!Fail(c) \/ Upgrade!Crash(c)
        PROVE  rows' = rows /\ scoped' = scoped
    BY <2>4 DEF Upgrade!Open, Upgrade!ReadVersion, Upgrade!Checkpoint, Upgrade!Copy,
       Upgrade!AddColumns, Upgrade!Reject, Upgrade!Fail, Upgrade!Crash, Upgrade!file
  <2> QED
    BY <2>1, <2>2, <2>3, <2>4 DEF Upgrade!Next, Upgrade!Step
<1> QED
  BY <1>1, AlwaysUpgradeInv, FaultsCounted, PTL DEF Upgrade!Spec, ScopesKept, Upgrade!ScopesKept

-----------------------------------------------------------------------------
(* Maintenance of it, and what is recorded *)

Maintenance == INSTANCE HistoryOperations_proofs WITH
                 MaxRecords <- MaxObservations, version <- oVersion, seen <- oSeen
Records == INSTANCE HistoryRecording_proofs WITH
             MaxFaults <- MaxStatementFaults, pc <- rPc, faults <- rFaults

(* However many pages and timers ask for maintenance, two operations of a  *)
(* kind never run at the same time (usagedatabase.cpp, acquireOperation).  *)
THEOREM RunsAlone == Maintenance!Spec => []OneOfAKind
<1>1. Maintenance!OneOfAKind <=> OneOfAKind
  BY DEF OneOfAKind, Operations!OneOfAKind, Maintenance!OneOfAKind
<1> QED
  BY <1>1, Maintenance!RunsAlone, PTL

(* For any number of pages, files, operations and failures, what the pages *)
(* show of storage and exports is never older than what their operations   *)
(* left, and names the files written (HistoryMaintenanceController.qml;    *)
(* usagedatabase.cpp, requestExportAll).                                   *)
THEOREM ResultsCurrent == Maintenance!Spec => []ResultsAreCurrent
<1>1. Maintenance!ResultsAreCurrent <=> ResultsAreCurrent
  BY DEF ResultsAreCurrent, Operations!ResultsAreCurrent, Maintenance!ResultsAreCurrent,
         Operations!LastScheduledShown, Maintenance!LastScheduledShown,
         Operations!StorageIsCurrent, Maintenance!StorageIsCurrent,
         Operations!ReportsFiles, Maintenance!ReportsFiles,
         Operations!Busy, Maintenance!Busy
<1> QED
  BY <1>1, Maintenance!ResultsCurrent, PTL

(* However many shells record, whichever statements fail and whichever of  *)
(* the shells die: snapshots are whole, what is taken for written is, no   *)
(* connection rests in a transaction, and the stored transitions of a      *)
(* forecast alternate and are announced once each, after they were stored  *)
(* (usagedatabase.cpp, recordSnapshot and recordGuardrailTransition;       *)
(* NotificationController.qml, processGuardrail).                          *)
THEOREM RecordsStaySound ==
  ASSUME IsFiniteSet(Shells)
  PROVE  Records!Spec => []RecordsAreSound
<1>1. Records!RecordsAreSound <=> RecordsAreSound
  BY DEF RecordsAreSound, Recording!RecordsAreSound, Records!RecordsAreSound,
         Recording!NoTransactionLeft, Records!NoTransactionLeft,
         Recording!SnapshotsAreWhole, Records!SnapshotsAreWhole,
         Recording!TransitionsAlternate, Records!TransitionsAlternate,
         Recording!Closed, Records!Closed, Recording!Empty, Records!Empty,
         Recording!Nothing, Records!Nothing, Recording!Alarms, Records!Alarms,
         Recording!Cardinality, Records!Cardinality
<1>2. IsFiniteSet(Shells) <=> Records!IsFiniteSet(Shells)
  BY DEF IsFiniteSet, Records!IsFiniteSet
<1>3. Records!Spec => []Records!RecordsAreSound
  BY <1>2, Records!RecordsStaySound
<1> QED
  BY <1>1, <1>3, PTL
=============================================================================
