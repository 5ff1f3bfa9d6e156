------------------------- MODULE HistoryOperations -------------------------
(***************************************************************************)
(* Maintenance of the usage history: storage inspection, pruning and       *)
(* export (UsageDatabase::requestMaintenance, requestExportAll), as asked  *)
(* for by the settings pages (HistoryMaintenanceController.qml,            *)
(* configHistory.qml) and by the timers of the plasmoid                    *)
(* (RefreshScheduler.qml).                                                 *)
(*                                                                         *)
(* Each operation runs on a worker thread with a connection of its own. A  *)
(* set shared by the process keeps operations of a kind apart: a second    *)
(* one is told so from inside the call that asks for it. Answers are       *)
(* events, and those of a page that was closed are lost.                   *)
(***************************************************************************)
EXTENDS Naturals, FiniteSets

CONSTANTS
  Pages,         \* history settings pages, one for each widget
  Files,         \* how many files an export writes, one after the other: 1 to 6
  MaxRecords,    \* bound: observations recorded meanwhile
  MaxOperations, \* bound: operations asked for
  MaxFailures    \* bound: failures to open, write, prune or save

Timers == "timers"          \* the plasmoid's own requests
Kinds == {"storage", "prune", "export"}

VARIABLES
  version,   \* of the stored history
  active,    \* activeOperations: kinds of operations that run
  jobs,      \* workers, and answers that wait in the event loop
  page,      \* the settings pages
  saved,     \* history_operations: the scheduled export remembered
  disk,      \* files written, and whether they have every row
  serial,    \* operations asked for
  failures,
  completed, \* the last scheduled export that completed
  seen       \* of each page, the version its last operation left

vars == <<version, active, jobs, page, saved, disk, serial, failures,
          completed, seen>>

Result(status, at, paths) == [status |-> status, version |-> at, paths |-> paths, id |-> 0]
NoResult == Result("none", 0, {})
OperationBusy == Result("failed", 0, {})

Job(by, kind, id) ==
  [by |-> by, kind |-> kind, id |-> id, phase |-> "open", next |-> 1,
   result |-> NoResult]

Closed == [open |-> FALSE, storage |-> NoResult, lastResult |-> NoResult,
           storageRequest |-> 0, pruneRequest |-> 0, exportRequest |-> 0]

Busy(pg) == {pg.storageRequest, pg.pruneRequest, pg.exportRequest} # {0}

Init ==
  /\ version = 0 /\ active = {} /\ jobs = {}
  /\ page = [p \in Pages |-> Closed]
  /\ saved = NoResult /\ disk = {} /\ serial = 0 /\ failures = 0
  /\ completed = NoResult /\ seen = [p \in Pages |-> 0]

-----------------------------------------------------------------------------
(* The settings page *)

(* refreshStorage, when the page pg has nothing under way: a request, or   *)
(* the answer that another inspection runs.                                *)
RefreshStorage(p, pg, others, kinds) ==
  IF Busy(pg)
  THEN /\ page' = [page EXCEPT ![p] = pg]
       /\ active' = kinds /\ jobs' = others /\ UNCHANGED serial
  ELSE /\ serial' = serial + 1
       /\ IF "storage" \in kinds
          THEN /\ page' = [page EXCEPT ![p] = [pg EXCEPT !.storage = OperationBusy]]
               /\ active' = kinds /\ jobs' = others
          ELSE /\ page' = [page EXCEPT ![p] = [pg EXCEPT !.storageRequest = serial + 1]]
               /\ active' = kinds \union {"storage"}
               /\ jobs' = others \union {Job(p, "storage", serial + 1)}

(* Component.onCompleted of a page that opens                              *)
OpenPage(p) ==
  /\ ~page[p].open /\ serial < MaxOperations
  /\ RefreshStorage(p, [Closed EXCEPT !.open = TRUE], jobs, active)
  /\ seen' = [seen EXCEPT ![p] = 0]
  /\ UNCHANGED <<version, saved, disk, failures, completed>>

(* The page is closed: its database and the watchers of its workers go,    *)
(* the workers do not.                                                     *)
ClosePage(p) ==
  /\ page[p].open
  /\ page' = [page EXCEPT ![p] = Closed]
  /\ UNCHANGED <<version, active, jobs, saved, disk, serial, failures,
                 completed, seen>>

(* Mutant: the page notes the request after the call that makes it.        *)
PruneThenNote(p) ==
  /\ page[p].open /\ ~Busy(page[p]) /\ page[p].storage.status = "success"
  /\ serial < MaxOperations
  /\ serial' = serial + 1
  /\ page' = [page EXCEPT ![p].pruneRequest = serial + 1]
  /\ IF "prune" \in active
     THEN UNCHANGED <<active, jobs>>
     ELSE /\ active' = active \union {"prune"}
          /\ jobs' = jobs \union {Job(p, "prune", serial + 1)}
  /\ UNCHANGED <<version, saved, disk, failures, completed, seen>>

(* prune: the button is there when the storage is known; a refusal is      *)
(* handled like a failure, by looking at the storage again.                *)
Prune(p) ==
  /\ page[p].open /\ ~Busy(page[p]) /\ page[p].storage.status = "success"
  /\ serial < MaxOperations
  /\ IF "prune" \in active
     THEN RefreshStorage(p, [page[p] EXCEPT !.lastResult = OperationBusy], jobs, active)
     ELSE /\ serial' = serial + 1
          /\ page' = [page EXCEPT ![p].pruneRequest = serial + 1]
          /\ active' = active \union {"prune"}
          /\ jobs' = jobs \union {Job(p, "prune", serial + 1)}
  /\ UNCHANGED <<version, saved, disk, failures, completed, seen>>

(* exportFiles                                                             *)
Export(p) ==
  /\ page[p].open /\ ~Busy(page[p]) /\ serial < MaxOperations
  /\ IF "export" \in active
     THEN RefreshStorage(p, [page[p] EXCEPT !.lastResult = OperationBusy], jobs, active)
     ELSE /\ serial' = serial + 1
          /\ page' = [page EXCEPT ![p].exportRequest = serial + 1]
          /\ active' = active \union {"export"}
          /\ jobs' = jobs \union {Job(p, "export", serial + 1)}
  /\ UNCHANGED <<version, saved, disk, failures, completed, seen>>

(* The timers of the plasmoid: nobody waits for the answers, and a refusal *)
(* is forgotten.                                                           *)
TimerFires(kind) ==
  /\ serial < MaxOperations /\ serial' = serial + 1
  /\ IF kind \in active THEN UNCHANGED <<active, jobs>>
     ELSE /\ active' = active \union {kind}
          /\ jobs' = jobs \union {Job(Timers, kind, serial + 1)}
  /\ UNCHANGED <<version, page, saved, disk, failures, completed, seen>>

-----------------------------------------------------------------------------
(* The workers *)

(* An observation is recorded by the plasmoid.                             *)
Record ==
  /\ version < MaxRecords /\ version' = version + 1
  /\ UNCHANGED <<active, jobs, page, saved, disk, serial, failures, completed, seen>>

Becomes(j, k) == jobs' = (jobs \ {j}) \union {k}

Fails == failures < MaxFailures /\ failures' = failures + 1

(* What the operation leaves, for the page that still waits for it.        *)
Left(j, at) ==
  seen' = [p \in Pages |-> IF j.id \in {page[p].pruneRequest, page[p].exportRequest}
                           THEN at ELSE seen[p]]

(* The worker opens the database; without it the operation has failed and  *)
(* saveOperation saves nothing.                                            *)
Open(j) ==
  /\ j.phase = "open"
  /\ \/ Becomes(j, [j EXCEPT !.phase = IF j.kind = "storage" THEN "look" ELSE "run"])
        /\ UNCHANGED failures
     \/ Fails /\ Becomes(j, [j EXCEPT !.phase = "release",
                                      !.result = Result("failed", version, {})])
  /\ UNCHANGED <<version, active, page, saved, disk, serial, completed, seen>>

(* pruneResult: one transaction                                            *)
Delete(j) ==
  /\ j.phase = "run" /\ j.kind = "prune"
  /\ \/ /\ version' = version + 1 /\ Becomes(j, [j EXCEPT !.phase = "look"])
        /\ Left(j, version + 1)
        /\ UNCHANGED failures
     \/ /\ Fails /\ Becomes(j, [j EXCEPT !.phase = "save",
                                         !.result = Result("failed", version, {})])
        /\ UNCHANGED <<version, seen>>
  /\ UNCHANGED <<active, page, saved, disk, serial, completed>>

(* storageStatus                                                           *)
Look(j) ==
  /\ j.phase = "look"
  /\ \/ /\ UNCHANGED failures
        /\ Becomes(j, [j EXCEPT !.phase = IF j.kind = "prune" THEN "save" ELSE "release",
                                !.result = Result("success", version, {})])
     \/ /\ Fails
        /\ Becomes(j, [j EXCEPT !.phase = IF j.kind = "prune" THEN "save" ELSE "release",
                                !.result = Result("failed", version, {})])
  /\ UNCHANGED <<version, active, page, saved, disk, serial, completed, seen>>

(* exportAllToDirectory, a file: it is opened, its rows are read and       *)
(* written, and it is committed unless a query failed or a byte was lost.  *)
(* A query that fails between two rows ends like one that is done.         *)
WriteFile(j) ==
  /\ j.phase = "run" /\ j.kind = "export"
  /\ \/ /\ disk' = disk \union {[id |-> j.id, file |-> j.next, whole |-> TRUE]}
        /\ Becomes(j, [j EXCEPT !.next = @ + 1, !.result.paths = @ \union {j.next}])
        /\ UNCHANGED failures
     \/ /\ Fails
        /\ disk' = disk \union {[id |-> j.id, file |-> j.next, whole |-> FALSE]}
        /\ Becomes(j, [j EXCEPT !.next = @ + 1, !.result.paths = @ \union {j.next}])
     \/ /\ Fails
        /\ Becomes(j, [j EXCEPT !.next = @ + 1]) /\ UNCHANGED disk
  /\ UNCHANGED <<version, active, page, saved, serial, completed, seen>>

(* The history as JSON is the first file, and five tables as CSV the rest. *)
WriteJson(j) == j.next = 1 /\ WriteFile(j)
WriteCsv(j) == j.next \in 2 .. Files /\ WriteFile(j)

(* exportAllToDirectory, its result                                        *)
Summarize(j) ==
  /\ j.phase = "run" /\ j.kind = "export" /\ j.next > Files
  /\ LET status == IF j.result.paths = 1 .. Files THEN "success"
                   ELSE IF j.result.paths = {} THEN "failed" ELSE "partial"
     IN Becomes(j, [j EXCEPT !.phase = "save",
                             !.result = [Result(status, version, @.paths) EXCEPT !.id = j.id]])
  /\ Left(j, version)
  /\ UNCHANGED <<version, active, page, saved, disk, serial, failures, completed>>

(* Mutant: the next operation may begin before this one is saved.          *)
ReleaseThenSave(j) ==
  /\ \/ /\ j.phase = "save" /\ j.kind \in active
        /\ active' = active \ {j.kind}
        /\ completed' = IF j.by = Timers /\ j.kind = "export" THEN j.result ELSE completed
        /\ UNCHANGED <<jobs, saved>>
     \/ /\ j.phase = "save" /\ ~\E i \in jobs : i.id = j.id /\ i.kind \in active
        /\ Becomes(j, [j EXCEPT !.phase = "release"])
        /\ saved' = IF j.by = Timers /\ j.kind = "export" THEN j.result ELSE saved
        /\ UNCHANGED <<active, completed>>
  /\ UNCHANGED <<version, page, disk, serial, failures, seen>>

(* saveOperation: each kind of operation has one row, the last result.     *)
Save(j) ==
  /\ j.phase = "save" /\ Becomes(j, [j EXCEPT !.phase = "release"])
  /\ saved' = IF j.by = Timers /\ j.kind = "export" THEN j.result ELSE saved
  /\ UNCHANGED <<version, active, page, disk, serial, failures, completed, seen>>

(* releaseOperation; the answer is queued for whoever still waits for it.  *)
Release(j) ==
  /\ j.phase = "release"
  /\ active' = active \ {j.kind}
  /\ Becomes(j, [j EXCEPT !.phase = "done"])
  /\ completed' = IF j.by = Timers /\ j.result.id # 0 THEN j.result ELSE completed
  /\ UNCHANGED <<version, page, saved, disk, serial, failures, seen>>

-----------------------------------------------------------------------------
(* The answers *)

(* Mutant: after an export the page keeps what it knew of the storage.     *)
DeliverOnly(j) ==
  /\ j.phase = "done"
  /\ jobs' = jobs \ {j}
  /\ page' = IF j.by \notin Pages THEN page
             ELSE [page EXCEPT ![j.by] =
                     IF j.id = @.storageRequest
                     THEN [@ EXCEPT !.storageRequest = 0, !.storage = j.result]
                     ELSE IF j.id = @.exportRequest
                     THEN [@ EXCEPT !.exportRequest = 0, !.lastResult = j.result]
                     ELSE IF j.id = @.pruneRequest
                     THEN [@ EXCEPT !.pruneRequest = 0, !.lastResult = j.result]
                     ELSE @]
  /\ UNCHANGED <<version, active, saved, disk, serial, failures, completed, seen>>

(* onMaintenanceFinished, onExportFinished: a request of this page         *)
Deliver(j) ==
  /\ j.phase = "done"
  /\ LET p == j.by IN
     IF p \notin Pages
     THEN jobs' = jobs \ {j} /\ UNCHANGED <<active, page, serial>>
     ELSE LET pg == page[p] IN
          \/ /\ j.id = pg.pruneRequest /\ j.result.status = "success"
             /\ page' = [page EXCEPT ![p] = [pg EXCEPT !.pruneRequest = 0,
                                                       !.lastResult = j.result,
                                                       !.storage = j.result]]
             /\ jobs' = jobs \ {j} /\ UNCHANGED <<active, serial>>
          \/ /\ j.id = pg.pruneRequest /\ j.result.status # "success"
             /\ RefreshStorage(p, [pg EXCEPT !.pruneRequest = 0, !.lastResult = j.result],
                               jobs \ {j}, active)
          \/ /\ j.id = pg.storageRequest
             /\ page' = [page EXCEPT ![p] = [pg EXCEPT !.storageRequest = 0,
                                                       !.storage = j.result]]
             /\ jobs' = jobs \ {j} /\ UNCHANGED <<active, serial>>
          \/ /\ j.id = pg.exportRequest
             /\ RefreshStorage(p, [pg EXCEPT !.exportRequest = 0, !.lastResult = j.result],
                               jobs \ {j}, active)
          \/ /\ j.id \notin {pg.storageRequest, pg.pruneRequest, pg.exportRequest}
             /\ jobs' = jobs \ {j} /\ UNCHANGED <<active, page, serial>>
  /\ UNCHANGED <<version, saved, disk, failures, completed, seen>>

Workers ==
  \E j \in jobs :
    \/ Open(j) \/ Delete(j) \/ Look(j) \/ WriteJson(j) \/ WriteCsv(j)
    \/ Summarize(j) \/ Save(j) \/ Release(j) \/ Deliver(j)

Next ==
  \/ \E p \in Pages : OpenPage(p) \/ ClosePage(p) \/ Prune(p) \/ Export(p)
  \/ \E kind \in {"prune", "export"} : TimerFires(kind)
  \/ Record
  \/ Workers

Spec == Init /\ [][Next]_vars

(* Workers end, and the event loop tells their results.                    *)
FairSpec == Spec /\ WF_vars(Workers)

-----------------------------------------------------------------------------
(* Properties *)

(* Types; every request a page waits for will be answered.                 *)
TypeOK ==
  /\ version \in Nat /\ active \subseteq Kinds /\ failures \in 0 .. MaxFailures
  /\ \A p \in Pages :
       \A r \in {page[p].storageRequest, page[p].pruneRequest, page[p].exportRequest} \ {0} :
         \E j \in jobs : j.by = p /\ j.id = r

(* Two operations of a kind never run at the same time, whoever asked for  *)
(* them (usagedatabase.cpp, acquireOperation): an export directory never   *)
(* gets files of two batches in turns.                                     *)
OneOfAKind ==
  \A i, j \in jobs :
    i.kind = j.kind /\ {i.phase, j.phase} \intersect {"done"} = {} => i = j

(* "Last scheduled export" is never older than the last one that           *)
(* completed, though saving it, letting the next one start and telling it  *)
(* are three steps (usagedatabase.cpp, requestExportAll).                  *)
LastScheduledShown == saved.id >= completed.id

(* A page that is idle does not show a storage older than what its own     *)
(* last operation left (HistoryMaintenanceController.qml, "Ignore storage  *)
(* results captured before this maintenance operation").                   *)
StorageIsCurrent ==
  \A p \in Pages : page[p].open /\ ~Busy(page[p]) /\ page[p].storage.status = "success"
                     => page[p].storage.version >= seen[p]

(* The paths a result names are the files that were written, also of a     *)
(* partial batch (usagedatabase.cpp, exportAllToDirectory).                *)
ReportsFiles ==
  \A r \in {saved} \union {page[p].lastResult : p \in Pages} :
    r.id # 0 => r.paths = {d.file : d \in {d \in disk : d.id = r.id}}

(* What the settings pages show of storage and exports is never older than *)
(* what their own operations left, and names the files written             *)
(* (HistoryMaintenanceController.qml; usagedatabase.cpp, requestExportAll).*)
ResultsAreCurrent == LastScheduledShown /\ StorageIsCurrent /\ ReportsFiles

(* No page stays busy, and no operation is locked out for good, also when  *)
(* a page is closed or refused in the middle of it.                        *)
Settles == <>[](active = {} /\ \A p \in Pages : ~Busy(page[p]))
=============================================================================
