----------------------- MODULE HistoryOperations_proofs -----------------------
(***************************************************************************)
(* Two prunes or exports never run at the same time, and what the pages    *)
(* show of storage and exports is never older than what their operations   *)
(* left, for any number of pages, files and operations.                    *)
(*                                                                         *)
(* Everything rests on the set of active kinds: a kind stays in it as long *)
(* as an operation of that kind runs, so whoever asks meanwhile is         *)
(* refused, and the last export that was saved is the last one that ran.   *)
(***************************************************************************)
EXTENDS HistoryOperations, TLAPS

Phases == {"open", "run", "look", "save", "release", "done"}
Results == [status : {"none", "success", "partial", "failed"}, version : Nat,
            paths : SUBSET Nat, id : Nat]
Jobs == [by : Pages \union {Timers}, kind : Kinds, id : Nat, phase : Phases, next : Nat,
         result : Results]

-----------------------------------------------------------------------------
(* The kinds that run *)

JobTypes ==
  /\ serial \in Nat /\ version \in Nat
  /\ active \subseteq Kinds
  /\ jobs \subseteq Jobs

(* Operations have numbers of their own, none of them yet to be given.     *)
Numbered ==
  /\ \A j \in jobs : j.id \in 1 .. serial
  /\ \A i, j \in jobs : i.id = j.id => i = j

Runs(j) == j.phase # "done"

(* A kind is active as long as an operation of it runs.                    *)
RunsActive == \A j \in jobs : Runs(j) => j.kind \in active

KindsInv == JobTypes /\ Numbered /\ RunsActive /\ OneOfAKind

(* A step of an operation that goes on.                                    *)
GoesOn(j, k) ==
  /\ j \in jobs /\ Runs(j) /\ Becomes(j, k)
  /\ k \in Jobs /\ k.by = j.by /\ k.kind = j.kind /\ k.id = j.id
  /\ UNCHANGED <<active, serial>>

Released(j, k) ==
  /\ j \in jobs /\ Runs(j) /\ Becomes(j, k)
  /\ k \in Jobs /\ k.by = j.by /\ k.kind = j.kind /\ k.id = j.id /\ ~Runs(k)
  /\ active' = active \ {j.kind} /\ UNCHANGED serial

(* An answer is delivered, and a refused request takes a number.           *)
Less(others) ==
  /\ others \subseteq jobs /\ jobs' = others
  /\ active' = active
  /\ serial' \in {serial, serial + 1}

(* An operation is admitted.                                               *)
Admitted(others, by, kind) ==
  /\ others \subseteq jobs /\ by \in Pages \union {Timers} /\ kind \in Kinds \ active
  /\ jobs' = others \union {Job(by, kind, serial + 1)}
  /\ active' = active \union {kind}
  /\ serial' = serial + 1

LEMMA NewJob ==
  ASSUME NEW by \in Pages \union {Timers}, NEW kind \in Kinds, NEW id \in Nat
  PROVE  Job(by, kind, id) \in Jobs
BY DEF Job, Jobs, Phases, Results, NoResult, Result

LEMMA GoesOnKinds ==
  ASSUME KindsInv, NEW j, NEW k, GoesOn(j, k) \/ Released(j, k), version' \in Nat
  PROVE  KindsInv'
<1>1. /\ j \in jobs /\ jobs' = (jobs \ {j}) \union {k} /\ k \in Jobs
      /\ k.kind = j.kind /\ k.id = j.id /\ serial' = serial /\ Runs(j)
  BY DEF GoesOn, Released, Becomes
<1>2. JobTypes'
  BY <1>1 DEF KindsInv, JobTypes, GoesOn, Released
<1>3. Numbered'
  BY <1>1 DEF KindsInv, Numbered
<1>4. OneOfAKind'
  BY <1>1 DEF KindsInv, OneOfAKind, Runs
<1>5. RunsActive'
  <2>1. CASE GoesOn(j, k)
    BY <1>1, <2>1 DEF KindsInv, RunsActive, GoesOn
  <2>2. CASE Released(j, k)
    BY <1>1, <2>2 DEF KindsInv, RunsActive, OneOfAKind, Released, Runs
  <2> QED
    BY <2>1, <2>2
<1> QED
  BY <1>2, <1>3, <1>4, <1>5 DEF KindsInv

LEMMA LessKinds ==
  ASSUME KindsInv, NEW others, Less(others), version' \in Nat
  PROVE  KindsInv'
BY DEF KindsInv, JobTypes, Numbered, RunsActive, OneOfAKind, Runs, Less

LEMMA AdmittedKinds ==
  ASSUME KindsInv, NEW others, NEW by, NEW kind, Admitted(others, by, kind), version' \in Nat
  PROVE  KindsInv'
<1> DEFINE new == Job(by, kind, serial + 1)
<1>1. new \in Jobs /\ new.id = serial + 1 /\ new.kind = kind
  BY NewJob DEF Admitted, KindsInv, JobTypes, Job
<1>2. /\ others \subseteq jobs /\ jobs' = others \union {new} /\ kind \in Kinds \ active
      /\ active' = active \union {kind} /\ serial' = serial + 1
  BY DEF Admitted
<1> HIDE DEF new
<1>3. JobTypes'
  BY <1>1, <1>2 DEF KindsInv, JobTypes
<1>4. Numbered'
  BY <1>1, <1>2 DEF KindsInv, JobTypes, Numbered
<1>5. RunsActive' /\ OneOfAKind'
  BY <1>1, <1>2 DEF KindsInv, RunsActive, OneOfAKind, Runs
<1> QED
  BY <1>3, <1>4, <1>5 DEF KindsInv

(* What the settings pages ask for                                         *)
LEMMA RefreshKinds ==
  ASSUME KindsInv, NEW p \in Pages, NEW pg, NEW others, others \subseteq jobs,
         RefreshStorage(p, pg, others, active), version' \in Nat
  PROVE  KindsInv'
<1>1. CASE Less(others)
  BY <1>1, LessKinds
<1>2. CASE Admitted(others, p, "storage")
  BY <1>2, AdmittedKinds
<1>3. Less(others) \/ Admitted(others, p, "storage")
  BY DEF RefreshStorage, Less, Admitted, Kinds
<1> QED
  BY <1>1, <1>2, <1>3

(* What each step of a worker makes of its operation                       *)
Typed == version \in Nat /\ jobs \subseteq Jobs

Same(j, k) == k \in Jobs /\ k.by = j.by /\ k.kind = j.kind /\ k.id = j.id

With(j, phase, r) == [j EXCEPT !.phase = phase, !.result = r]
At(j, phase) == [j EXCEPT !.phase = phase]

LEMMA Then ==
  ASSUME NEW j \in Jobs, NEW phase \in Phases, NEW r \in Results
  PROVE  /\ Same(j, With(j, phase, r))
         /\ With(j, phase, r).phase = phase /\ With(j, phase, r).result = r
BY DEF Jobs, Same, With

LEMMA Goes ==
  ASSUME NEW j \in Jobs, NEW phase \in Phases
  PROVE  Same(j, At(j, phase)) /\ At(j, phase).phase = phase /\ At(j, phase).result = j.result
BY DEF Jobs, Same, At

LEMMA Failed ==
  ASSUME NEW status \in {"success", "failed"}, NEW at \in Nat
  PROVE  Result(status, at, {}) \in Results
BY DEF Result, Results

LEMMA OpenStep ==
  ASSUME Typed, NEW j \in jobs, Open(j)
  PROVE  \E k : /\ Becomes(j, k) /\ Same(j, k)
                /\ \/ /\ k.phase = IF j.kind = "storage" THEN "look" ELSE "run"
                      /\ k.result = j.result
                   \/ k.phase = "release" /\ k.result = Result("failed", version, {})
<1> DEFINE phase == IF j.kind = "storage" THEN "look" ELSE "run"
           r == Result("failed", version, {})
<1>1. j \in Jobs /\ phase \in Phases /\ "release" \in Phases /\ r \in Results
  BY Failed DEF Typed, Phases
<1>2. Becomes(j, At(j, phase)) \/ Becomes(j, With(j, "release", r))
  BY DEF Open, At, With
<1> HIDE DEF r
<1> QED
  BY <1>1, <1>2, Goes, Then DEF r

LEMMA DeleteStep ==
  ASSUME Typed, NEW j \in jobs, Delete(j)
  PROVE  \E k : /\ Becomes(j, k) /\ Same(j, k)
                /\ \/ /\ k.phase = "look" /\ k.result = j.result
                      /\ version' = version + 1 /\ Left(j, version + 1)
                   \/ /\ k.phase = "save" /\ k.result = Result("failed", version, {})
                      /\ UNCHANGED <<version, seen>>
<1> DEFINE r == Result("failed", version, {})
<1>1. j \in Jobs /\ {"look", "save"} \subseteq Phases /\ r \in Results
  BY Failed DEF Typed, Phases
<1>2. \/ /\ Becomes(j, At(j, "look"))
         /\ version' = version + 1 /\ Left(j, version + 1)
      \/ Becomes(j, With(j, "save", r)) /\ UNCHANGED <<version, seen>>
  BY DEF Delete, At, With
<1>3. Same(j, At(j, "look")) /\ At(j, "look").phase = "look" /\ At(j, "look").result = j.result
  BY <1>1, Goes
<1>4. /\ Same(j, With(j, "save", r)) /\ With(j, "save", r).phase = "save"
      /\ With(j, "save", r).result = r
  BY <1>1, Then
<1> QED
  BY <1>2, <1>3, <1>4

LEMMA LookStep ==
  ASSUME Typed, NEW j \in jobs, Look(j)
  PROVE  \E k, status :
           /\ Becomes(j, k) /\ Same(j, k)
           /\ k.phase = IF j.kind = "prune" THEN "save" ELSE "release"
           /\ k.result = Result(status, version, {})
<1> DEFINE phase == IF j.kind = "prune" THEN "save" ELSE "release"
<1>1. PICK status \in {"success", "failed"} :
        Becomes(j, With(j, phase, Result(status, version, {})))
  BY DEF Look, With
<1> DEFINE r == Result(status, version, {})
<1>2. j \in Jobs /\ phase \in Phases /\ r \in Results
  BY Failed DEF Typed, Phases
<1>3. /\ Same(j, With(j, phase, r)) /\ With(j, phase, r).phase = phase
      /\ With(j, phase, r).result = r
  <2> HIDE DEF r, phase
  <2> QED
    BY <1>2, Then
<1> QED
  BY <1>1, <1>3

LEMMA WriteStep ==
  ASSUME Typed, NEW j \in jobs, WriteFile(j)
  PROVE  \E k : /\ Becomes(j, k) /\ Same(j, k) /\ k.phase = "run"
                /\ k.result.id = j.result.id /\ k.result.status = j.result.status
                /\ \/ /\ k.result.paths = j.result.paths \union {j.next}
                      /\ \E whole \in BOOLEAN :
                           disk' = disk \union {[id |-> j.id, file |-> j.next, whole |-> whole]}
                   \/ k.result.paths = j.result.paths /\ UNCHANGED disk
<1> DEFINE kept == [j EXCEPT !.next = @ + 1, !.result.paths = @ \union {j.next}]
           lost == [j EXCEPT !.next = @ + 1]
           r == [j.result EXCEPT !.paths = @ \union {j.next}]
<1>1. j \in Jobs /\ j.phase = "run"
  BY DEF Typed, WriteFile
<1>2. r \in Results /\ r.paths = j.result.paths \union {j.next}
      /\ r.id = j.result.id /\ r.status = j.result.status
  BY <1>1 DEF Jobs, Results
<1>3. Same(j, kept) /\ kept.phase = "run" /\ kept.result = r
  <2>1. kept = [j EXCEPT !.next = j.next + 1, !.result = r]
    BY <1>1 DEF Jobs
  <2> HIDE DEF r, kept
  <2>2. j.next + 1 \in Nat
    BY <1>1 DEF Jobs
  <2> QED
    BY <1>1, <1>2, <2>1, <2>2 DEF Jobs, Same
<1>4. Same(j, lost) /\ lost.phase = "run" /\ lost.result = j.result
  BY <1>1 DEF Jobs, Same
<1>5. \/ /\ Becomes(j, kept)
         /\ \E whole \in BOOLEAN :
              disk' = disk \union {[id |-> j.id, file |-> j.next, whole |-> whole]}
      \/ Becomes(j, lost) /\ UNCHANGED disk
  BY DEF WriteFile
<1> HIDE DEF kept, lost, r
<1> QED
  BY <1>2, <1>3, <1>4, <1>5

LEMMA SummarizeStep ==
  ASSUME Typed, NEW j \in jobs, Summarize(j)
  PROVE  \E k : /\ Becomes(j, k) /\ Same(j, k) /\ k.phase = "save"
                /\ k.result.id = j.id /\ k.result.paths = j.result.paths
                /\ k.result.version = version
<1>1. PICK status \in {"success", "failed", "partial"} :
        Becomes(j, With(j, "save", [Result(status, version, j.result.paths) EXCEPT !.id = j.id]))
  BY DEF Summarize, With
<1> DEFINE r == [Result(status, version, j.result.paths) EXCEPT !.id = j.id]
<1>2. j \in Jobs /\ "save" \in Phases
  BY DEF Typed, Phases
<1>3. /\ r \in Results /\ r.id = j.id /\ r.paths = j.result.paths
      /\ r.version = version
  BY <1>2 DEF Typed, Results, Result, Jobs
<1>4. Becomes(j, With(j, "save", r))
  BY <1>1
<1> HIDE DEF r
<1>5. /\ Same(j, With(j, "save", r)) /\ With(j, "save", r).phase = "save"
      /\ With(j, "save", r).result = r
  BY <1>2, <1>3, Then
<1> QED
  BY <1>3, <1>4, <1>5

LEMMA SaveStep ==
  ASSUME Typed, NEW j \in jobs, Save(j)
  PROVE  \E k : Becomes(j, k) /\ Same(j, k) /\ k.phase = "release" /\ k.result = j.result
<1>1. j \in Jobs /\ "release" \in Phases
  BY DEF Typed, Phases
<1> QED
  BY <1>1, Goes DEF Save, At

LEMMA ReleasedStep ==
  ASSUME Typed, NEW j \in jobs, Release(j)
  PROVE  \E k : Becomes(j, k) /\ Same(j, k) /\ k.phase = "done" /\ k.result = j.result
<1>1. j \in Jobs /\ "done" \in Phases
  BY DEF Typed, Phases
<1> QED
  BY <1>1, Goes DEF Release, At

LEMMA WorkerStep ==
  ASSUME KindsInv, NEW j \in jobs,
         Open(j) \/ Delete(j) \/ Look(j) \/ WriteJson(j) \/ WriteCsv(j)
           \/ Summarize(j) \/ Save(j)
  PROVE  (\E k : GoesOn(j, k)) /\ version' \in Nat
<1>1. Typed
  BY DEF KindsInv, JobTypes, Typed
<1>2. \E k : Becomes(j, k) /\ Same(j, k)
  BY <1>1, OpenStep, DeleteStep, LookStep, WriteStep, SummarizeStep, SaveStep
     DEF WriteJson, WriteCsv
<1>3. Runs(j) /\ UNCHANGED <<active, serial>> /\ version' \in Nat
  BY <1>1 DEF Typed, Open, Delete, Look, WriteJson, WriteCsv, WriteFile, Summarize, Save, Runs
<1> QED
  BY <1>2, <1>3 DEF GoesOn, Same

LEMMA ReleaseStep ==
  ASSUME KindsInv, NEW j \in jobs, Release(j)
  PROVE  Released(j, [j EXCEPT !.phase = "done"]) /\ version' \in Nat
BY DEF KindsInv, JobTypes, Release, Released, Runs, Jobs, Phases

LEMMA DeliverKinds ==
  ASSUME KindsInv, NEW j \in jobs, Deliver(j)
  PROVE  KindsInv'
<1>1. version' \in Nat
  BY DEF KindsInv, JobTypes, Deliver
<1>2. CASE Less(jobs \ {j})
  BY <1>1, <1>2, LessKinds
<1>3. CASE \E pg : j.by \in Pages /\ RefreshStorage(j.by, pg, jobs \ {j}, active)
  <2>1. PICK pg : j.by \in Pages /\ RefreshStorage(j.by, pg, jobs \ {j}, active)
    BY <1>3
  <2> DEFINE others == jobs \ {j}
  <2>2. others \subseteq jobs
    OBVIOUS
  <2> QED
    BY <1>1, <2>1, <2>2, RefreshKinds
<1> QED
  BY <1>2, <1>3 DEF Deliver, Less

LEMMA NextKinds ==
  ASSUME KindsInv, [Next]_vars
  PROVE  KindsInv'
<1>1. ASSUME NEW p \in Pages, OpenPage(p)
      PROVE  KindsInv'
  <2>1. jobs \subseteq jobs /\ version' \in Nat
    BY <1>1 DEF OpenPage, KindsInv, JobTypes
  <2> QED
    BY <1>1, <2>1, RefreshKinds DEF OpenPage
<1>2. ASSUME NEW p \in Pages, Prune(p)
      PROVE  KindsInv'
  <2>1. jobs \subseteq jobs /\ version' \in Nat
    BY <1>2 DEF Prune, KindsInv, JobTypes
  <2>2. CASE "prune" \in active
    BY <1>2, <2>1, <2>2, RefreshKinds DEF Prune
  <2>3. CASE "prune" \notin active
    <3>1. Admitted(jobs, p, "prune")
      BY <1>2, <2>3 DEF Prune, Admitted, Kinds
    <3> QED
      BY <2>1, <3>1, AdmittedKinds
  <2> QED
    BY <2>2, <2>3
<1>3. ASSUME NEW p \in Pages, Export(p)
      PROVE  KindsInv'
  <2>1. jobs \subseteq jobs /\ version' \in Nat
    BY <1>3 DEF Export, KindsInv, JobTypes
  <2>2. CASE "export" \in active
    BY <1>3, <2>1, <2>2, RefreshKinds DEF Export
  <2>3. CASE "export" \notin active
    <3>1. Admitted(jobs, p, "export")
      BY <1>3, <2>3 DEF Export, Admitted, Kinds
    <3> QED
      BY <2>1, <3>1, AdmittedKinds
  <2> QED
    BY <2>2, <2>3
<1>4. ASSUME NEW kind \in {"prune", "export"}, TimerFires(kind)
      PROVE  KindsInv'
  <2>1. version' \in Nat
    BY <1>4 DEF TimerFires, KindsInv, JobTypes
  <2>2. CASE Less(jobs)
    BY <2>1, <2>2, LessKinds
  <2>3. CASE Admitted(jobs, Timers, kind)
    BY <2>1, <2>3, AdmittedKinds
  <2>4. Less(jobs) \/ Admitted(jobs, Timers, kind)
    BY <1>4 DEF TimerFires, Less, Admitted, Kinds
  <2> QED
    BY <2>2, <2>3, <2>4
<1>5. CASE \/ \E p \in Pages : ClosePage(p)
           \/ Record \/ UNCHANGED vars
  <2>1. Less(jobs) /\ version' \in Nat
    BY <1>5 DEF ClosePage, Record, vars, Less, KindsInv, JobTypes
  <2> QED
    BY <2>1, LessKinds
<1>6. ASSUME NEW j \in jobs,
             \/ Open(j) \/ Delete(j) \/ Look(j) \/ WriteJson(j) \/ WriteCsv(j)
             \/ Summarize(j) \/ Save(j) \/ Release(j)
      PROVE  KindsInv'
  BY <1>6, WorkerStep, ReleaseStep, GoesOnKinds
<1>7. ASSUME NEW j \in jobs, Deliver(j)
      PROVE  KindsInv'
  BY <1>7, DeliverKinds
<1> QED
  BY <1>1, <1>2, <1>3, <1>4, <1>5, <1>6, <1>7 DEF Next, Workers

LEMMA InitKinds == Init => KindsInv
BY DEF Init, KindsInv, JobTypes, Numbered, RunsActive, OneOfAKind

LEMMA KindsHold == Spec => []KindsInv
BY InitKinds, NextKinds, PTL DEF Spec

(* However many pages and timers ask for maintenance, two operations of a  *)
(* kind never run at the same time.                                        *)
THEOREM RunsAlone == Spec => []OneOfAKind
<1>1. KindsInv => OneOfAKind
  BY DEF KindsInv
<1> QED
  BY <1>1, KindsHold, PTL

-----------------------------------------------------------------------------
(* The last scheduled export                                               *)

ScheduledExport(j) == j.by = Timers /\ j.kind = "export"

(* A scheduled export is newer than the one remembered until it is saved.  *)
ScheduledInv ==
  /\ {saved.id, completed.id} \subseteq Nat
  /\ completed.id <= saved.id /\ saved.id <= serial
  /\ \A j \in jobs : ScheduledExport(j) =>
       /\ j.phase \notin {"release", "done"} => j.id > saved.id
       /\ j.phase = "release" => j.result.id <= saved.id

-----------------------------------------------------------------------------
(* The files                                                               *)

Written(id) == {d.file : d \in {d \in disk : d.id = id}}

(* A result that names files names all of its operation, which writes no   *)
(* more.                                                                   *)
Told(r) ==
  r.id # 0 =>
    /\ r.id \in 1 .. serial /\ r.paths = Written(r.id)
    /\ \A j \in jobs : j.id = r.id => j.phase \notin {"open", "run"}

FilesOf(j) ==
  /\ j.result.id \in {0, j.id}
  /\ j.kind # "export" => j.result.id = 0
  /\ j.phase \in {"open", "run"} => j.result.id = 0
  /\ j.kind = "export" =>
       /\ j.phase \in {"open", "run"} => j.result.paths = Written(j.id)
       /\ j.phase # "look"
       /\ j.phase = "save" => j.result.id = j.id
  /\ Told(j.result)

Shown == {saved} \union {page[p].lastResult : p \in Pages}

FilesInv ==
  /\ \A d \in disk : d.id \in Nat /\ d.id <= serial
  /\ \A r \in Shown : Told(r)
  /\ \A j \in jobs : FilesOf(j)

-----------------------------------------------------------------------------
(* The pages                                                               *)

Page == [open : BOOLEAN, storage : Results, lastResult : Results,
         storageRequest : Nat, pruneRequest : Nat, exportRequest : Nat]

(* A page asks for one thing at a time.                                    *)
OneRequest(pg) ==
  /\ pg.storageRequest # 0 => pg.pruneRequest = 0 /\ pg.exportRequest = 0
  /\ pg.pruneRequest # 0 => pg.exportRequest = 0

(* An answer about the storage is of what the page's operations left.      *)
StorageInv ==
  /\ page \in [Pages -> Page] /\ seen \in [Pages -> Nat]
  /\ \A p \in Pages :
       /\ OneRequest(page[p]) /\ seen[p] <= version
       /\ \A j \in jobs :
            /\ j.id \in {page[p].storageRequest, page[p].pruneRequest}
            /\ j.phase \in {"save", "release", "done"} /\ j.result.status = "success"
            => j.result.version >= seen[p]
  /\ StorageIsCurrent

ResultsInv == KindsInv /\ ScheduledInv /\ FilesInv /\ StorageInv

-----------------------------------------------------------------------------
(* Steps that run no worker                                                *)

Newer(k, by) ==
  /\ k.by = by /\ k.phase = "open" /\ k.id = serial + 1 /\ k.id <= serial'
  /\ k.result = NoResult

Asked ==
  /\ \A k \in jobs' : k \in jobs \/ \E by \in Pages \union {Timers} : Newer(k, by)
  /\ serial' \in {serial, serial + 1}
  /\ UNCHANGED <<saved, completed, disk>>

Others ==
  \/ \E p \in Pages : OpenPage(p) \/ ClosePage(p) \/ Prune(p) \/ Export(p)
  \/ \E kind \in {"prune", "export"} : TimerFires(kind)
  \/ Record \/ UNCHANGED vars
  \/ \E j \in jobs : Deliver(j)

LEMMA RefreshAsked ==
  ASSUME KindsInv, NEW p \in Pages, NEW pg, NEW others, others \subseteq jobs, NEW kinds,
         RefreshStorage(p, pg, others, kinds)
  PROVE  /\ \A k \in jobs' : k \in jobs \/ Newer(k, p)
         /\ serial' \in {serial, serial + 1}
BY DEF KindsInv, JobTypes, RefreshStorage, Newer, Job

LEMMA AskedStep ==
  ASSUME KindsInv, Others
  PROVE  Asked
<1>0. serial \in Nat
  BY DEF KindsInv, JobTypes
<1>1. ASSUME NEW p \in Pages, OpenPage(p)
      PROVE  Asked
  <2>1. jobs \subseteq jobs
    OBVIOUS
  <2> QED
    BY <1>1, <2>1, RefreshAsked DEF OpenPage, Asked
<1>2. ASSUME NEW p \in Pages, ClosePage(p) \/ Record \/ UNCHANGED vars
      PROVE  Asked
  BY <1>2 DEF ClosePage, Record, vars, Asked
<1>3. ASSUME NEW p \in Pages, Prune(p)
      PROVE  Asked
  <2>1. CASE "prune" \in active
    <3>1. jobs \subseteq jobs
      OBVIOUS
    <3> QED
      BY <1>3, <2>1, <3>1, RefreshAsked DEF Prune, Asked
  <2>2. CASE "prune" \notin active
    BY <1>0, <1>3, <2>2 DEF Prune, Asked, Newer, Job
  <2> QED
    BY <2>1, <2>2
<1>4. ASSUME NEW p \in Pages, Export(p)
      PROVE  Asked
  <2>1. CASE "export" \in active
    <3>1. jobs \subseteq jobs
      OBVIOUS
    <3> QED
      BY <1>4, <2>1, <3>1, RefreshAsked DEF Export, Asked
  <2>2. CASE "export" \notin active
    BY <1>0, <1>4, <2>2 DEF Export, Asked, Newer, Job
  <2> QED
    BY <2>1, <2>2
<1>5. ASSUME NEW kind \in {"prune", "export"}, TimerFires(kind)
      PROVE  Asked
  BY <1>0, <1>5 DEF TimerFires, Asked, Newer, Job
<1>6. ASSUME NEW j \in jobs, Deliver(j)
      PROVE  Asked
  <2> DEFINE others == jobs \ {j}
  <2>1. others \subseteq jobs
    OBVIOUS
  <2>2. \/ jobs' = others /\ UNCHANGED serial
        \/ j.by \in Pages /\ \E pg : RefreshStorage(j.by, pg, others, active)
    BY <1>6 DEF Deliver
  <2>3. UNCHANGED <<saved, completed, disk>>
    BY <1>6 DEF Deliver
  <2> QED
    BY <2>1, <2>2, <2>3, RefreshAsked DEF Asked
<1>7. CASE Record \/ UNCHANGED vars
  BY <1>7 DEF Record, vars, Asked
<1> QED
  BY <1>1, <1>2, <1>3, <1>4, <1>5, <1>6, <1>7 DEF Others

(* An operation that goes on, and what remains of the others.              *)
Worked(j, k) ==
  /\ jobs' = (jobs \ {j}) \union {k} /\ Same(j, k) /\ UNCHANGED <<page, serial>>

LEMMA ScheduledStep ==
  ASSUME KindsInv, ScheduledInv, FilesInv, [Next]_vars
  PROVE  ScheduledInv'
<1>0. Typed /\ serial \in Nat /\ (\A j \in jobs : j.id \in Nat)
  BY DEF KindsInv, JobTypes, Typed, Numbered
<1>1. CASE Others
  <2>1. Asked
    BY <1>1, AskedStep
  <2> QED
    BY <1>0, <2>1 DEF Asked, ScheduledInv, ScheduledExport, Newer
<1>2. ASSUME NEW j \in jobs, NEW k, Becomes(j, k), Same(j, k), UNCHANGED <<saved, completed, serial>>,
             \/ k.phase \notin {"release", "done"} /\ j.phase \notin {"release", "done"}
             \/ k.phase = "release" /\ k.result.id = 0
             \/ k.phase = "done"
             \/ k.phase = "release" /\ j.kind # "export"
      PROVE  ScheduledInv'
  BY <1>0, <1>2 DEF ScheduledInv, ScheduledExport, Becomes, Same
<1>3. ASSUME NEW j \in jobs, Open(j)
      PROVE  ScheduledInv'
  <2>1. UNCHANGED <<saved, completed, serial>> /\ j.phase = "open"
    BY <1>3 DEF Open
  <2> QED
    BY <1>0, <1>2, <1>3, <2>1, OpenStep DEF Result
<1>4. ASSUME NEW j \in jobs, Delete(j)
      PROVE  ScheduledInv'
  <2>1. UNCHANGED <<saved, completed, serial>> /\ j.phase = "run"
    BY <1>4 DEF Delete
  <2> QED
    BY <1>0, <1>2, <1>4, <2>1, DeleteStep
<1>5. ASSUME NEW j \in jobs, Look(j)
      PROVE  ScheduledInv'
  <2>1. UNCHANGED <<saved, completed, serial>> /\ j.phase = "look"
    BY <1>5 DEF Look
  <2>2. PICK k, status :
          /\ Becomes(j, k) /\ Same(j, k)
          /\ k.phase = IF j.kind = "prune" THEN "save" ELSE "release"
          /\ k.result = Result(status, version, {})
    BY <1>0, <1>5, LookStep
  <2>3. k.phase = "save" \/ (k.phase = "release" /\ k.result.id = 0)
    BY <2>2 DEF Result
  <2> QED
    BY <1>2, <2>1, <2>2, <2>3
<1>6. ASSUME NEW j \in jobs, WriteFile(j)
      PROVE  ScheduledInv'
  <2>1. UNCHANGED <<saved, completed, serial>> /\ j.phase = "run"
    BY <1>6 DEF WriteFile
  <2> QED
    BY <1>0, <1>2, <1>6, <2>1, WriteStep
<1>7. ASSUME NEW j \in jobs, Summarize(j)
      PROVE  ScheduledInv'
  <2>1. UNCHANGED <<saved, completed, serial>> /\ j.phase = "run"
    BY <1>7 DEF Summarize
  <2> QED
    BY <1>0, <1>2, <1>7, <2>1, SummarizeStep
<1>8. ASSUME NEW j \in jobs, Save(j)
      PROVE  ScheduledInv'
  <2>1. PICK k : Becomes(j, k) /\ Same(j, k) /\ k.phase = "release" /\ k.result = j.result
    BY <1>0, <1>8, SaveStep
  <2>2. j.phase = "save" /\ UNCHANGED <<completed, serial>>
    BY <1>8 DEF Save
  <2>3. j.kind = "export" => j.result.id = j.id
    BY <2>2 DEF FilesInv, FilesOf
  <2>4. CASE ScheduledExport(j)
    <3>1. saved' = j.result /\ saved'.id = j.id /\ j.id > saved.id /\ j.id <= serial
      BY <1>8, <2>2, <2>3, <2>4 DEF Save, ScheduledExport, ScheduledInv, KindsInv, Numbered
    <3>2. \A i \in jobs : ScheduledExport(i) /\ i.phase # "done" => i = j
      BY <2>2, <2>4 DEF KindsInv, OneOfAKind, ScheduledExport
    <3> QED
      BY <1>0, <2>1, <2>2, <2>3, <2>4, <3>1, <3>2 DEF ScheduledInv, ScheduledExport, Becomes, Same
  <2>5. CASE ~ScheduledExport(j)
    <3>1. saved' = saved
      BY <1>8, <2>5 DEF Save, ScheduledExport
    <3> QED
      BY <1>0, <2>1, <2>2, <2>5, <3>1 DEF ScheduledInv, ScheduledExport, Becomes, Same
  <2> QED
    BY <2>4, <2>5
<1>9. ASSUME NEW j \in jobs, Release(j)
      PROVE  ScheduledInv'
  <2>1. PICK k : Becomes(j, k) /\ Same(j, k) /\ k.phase = "done" /\ k.result = j.result
    BY <1>0, <1>9, ReleasedStep
  <2>2. j.phase = "release" /\ UNCHANGED <<saved, serial>>
    BY <1>9 DEF Release
  <2>3. completed' = completed \/ (completed' = j.result /\ j.result.id <= saved.id /\ j.result.id \in Nat)
    BY <1>0, <1>9, <2>2 DEF Release, ScheduledInv, ScheduledExport, FilesInv, FilesOf
  <2> QED
    BY <1>0, <2>1, <2>2, <2>3 DEF ScheduledInv, ScheduledExport, Becomes, Same
<1> QED
  BY <1>1, <1>3, <1>4, <1>5, <1>6, <1>7, <1>8, <1>9
     DEF Next, Workers, Others, WriteJson, WriteCsv

(* What has been told of files stays true: nobody writes into a batch that *)
(* has ended.                                                              *)
Onwards ==
  /\ serial \in Nat /\ serial' \in Nat /\ serial <= serial'
  /\ \A k \in jobs' : k.phase \in {"open", "run"} =>
       k.id > serial \/ \E j \in jobs : j.id = k.id /\ j.phase \in {"open", "run"}
  /\ \A id : Written(id)' # Written(id) => \E j \in jobs : j.id = id /\ j.phase = "run"

LEMMA ToldStays ==
  ASSUME NEW r, Told(r), Onwards
  PROVE  Told(r)'
<1>1. CASE r.id = 0
  BY <1>1 DEF Told
<1>2. CASE r.id # 0
  <2>1. /\ r.id \in 1 .. serial /\ r.paths = Written(r.id)
        /\ \A j \in jobs : j.id = r.id => j.phase \notin {"open", "run"}
    BY <1>2 DEF Told
  <2>2. Written(r.id)' = Written(r.id)
    BY <2>1 DEF Onwards
  <2>3. r.id \in 1 .. serial' /\ \A k \in jobs' : k.id = r.id => k.phase \notin {"open", "run"}
    BY <2>1 DEF Onwards
  <2> QED
    BY <2>1, <2>2, <2>3 DEF Told
<1> QED
  BY <1>1, <1>2

LEMMA FilesOfStays ==
  ASSUME NEW i, FilesOf(i), Onwards, Written(i.id)' = Written(i.id)
  PROVE  FilesOf(i)'
<1>1. Told(i.result)'
  BY ToldStays DEF FilesOf
<1> QED
  BY <1>1 DEF FilesOf

LEMMA FilesAsked ==
  ASSUME KindsInv, FilesInv, Asked,
         \A p \in Pages : page'[p].lastResult.id = 0
                            \/ \E r \in Shown \union {j.result : j \in jobs} :
                                  page'[p].lastResult = r
  PROVE  FilesInv'
<1>1. /\ serial \in Nat /\ serial' \in Nat /\ serial <= serial'
      /\ \A j \in jobs : j.id \in 1 .. serial
  BY DEF KindsInv, JobTypes, Numbered, Asked
<1>2. \A id : Written(id)' = Written(id)
  BY DEF Asked, Written
<1>3. \A k \in jobs' : k \in jobs \/ (k.phase = "open" /\ k.id = serial + 1 /\ k.result = NoResult)
  BY DEF Asked, Newer
<1>4. Onwards
  BY <1>1, <1>2, <1>3 DEF Onwards
<1>5. \A d \in disk' : d.id \in Nat /\ d.id <= serial'
  BY <1>1 DEF FilesInv, Asked
<1>6. ASSUME NEW r \in Shown'
      PROVE  Told(r)'
  <2>1. r.id = 0 \/ r \in Shown \/ \E j \in jobs : r = j.result
    BY DEF Shown, Asked
  <2>2. r.id = 0 \/ Told(r)
    BY <2>1 DEF FilesInv, FilesOf
  <2> QED
    BY <1>4, <2>2, ToldStays DEF Told
<1>7. ASSUME NEW k \in jobs'
      PROVE  FilesOf(k)'
  <2>1. CASE k \in jobs
    BY <1>2, <1>4, <2>1, FilesOfStays DEF FilesInv
  <2>2. CASE k.phase = "open" /\ k.id = serial + 1 /\ k.result = NoResult
    <3>1. Written(k.id) = {}
      BY <1>1, <2>2 DEF Written, FilesInv
    <3>2. k.result.id = 0 /\ k.result.paths = {}
      BY <2>2 DEF NoResult, Result
    <3>3. Written(k.id)' = {}
      BY <1>2, <3>1
    <3> QED
      BY <2>2, <3>2, <3>3 DEF FilesOf, Told
  <2> QED
    BY <1>3, <2>1, <2>2
<1> QED
  BY <1>5, <1>6, <1>7 DEF FilesInv

LEMMA FilesWorked ==
  ASSUME KindsInv, FilesInv, NEW j \in jobs, NEW k, Becomes(j, k), Same(j, k),
         UNCHANGED <<page, disk, serial>>, saved' \in {saved, j.result},
         k.phase \in {"open", "run"} => j.phase \in {"open", "run"},
         FilesOf(k)'
  PROVE  FilesInv'
<1>1. /\ serial \in Nat /\ serial' = serial
      /\ \A i \in jobs : i.id \in 1 .. serial
  BY DEF KindsInv, JobTypes, Numbered
<1>2. \A id : Written(id)' = Written(id)
  BY DEF Written
<1>3. Onwards
  BY <1>1, <1>2 DEF Onwards, Becomes, Same
<1>4. ASSUME NEW r \in Shown'
      PROVE  Told(r)'
  <2>1. r \in Shown \/ r = j.result
    BY DEF Shown
  <2>2. Told(r)
    BY <2>1 DEF FilesInv, FilesOf
  <2> QED
    BY <1>3, <2>2, ToldStays
<1>5. ASSUME NEW i \in jobs'
      PROVE  FilesOf(i)'
  BY <1>2, <1>3, FilesOfStays DEF FilesInv, Becomes
<1>6. \A d \in disk' : d.id \in Nat /\ d.id <= serial'
  BY <1>1 DEF FilesInv
<1> QED
  BY <1>4, <1>5, <1>6 DEF FilesInv

LEMMA NoFiles ==
  ASSUME NEW k, k.result.id = 0, k.kind = "export" => k.phase \notin {"look", "save", "open", "run"}
  PROVE  FilesOf(k)'
BY DEF FilesOf, Told

LEMMA FilesOpen ==
  ASSUME KindsInv, FilesInv, NEW j \in jobs, Open(j)
  PROVE  FilesInv'
<1>0. Typed /\ FilesOf(j)
  BY DEF KindsInv, JobTypes, Typed, FilesInv
<1>1. UNCHANGED <<page, disk, serial, saved>> /\ j.phase = "open"
  BY DEF Open
<1>2. PICK k : /\ Becomes(j, k) /\ Same(j, k)
               /\ \/ /\ k.phase = IF j.kind = "storage" THEN "look" ELSE "run"
                     /\ k.result = j.result
                  \/ k.phase = "release" /\ k.result = Result("failed", version, {})
  BY <1>0, OpenStep
<1>3. Written(j.id)' = Written(j.id)
  BY <1>1 DEF Written
<1>4. FilesOf(k)'
  <2>1. CASE k.phase = "release" /\ k.result = Result("failed", version, {})
    BY <2>1, NoFiles DEF Result
  <2>2. CASE k.phase \in {"look", "run"} /\ k.result = j.result
             /\ (k.phase = "look" => j.kind = "storage")
    BY <1>0, <1>1, <1>2, <1>3, <2>2 DEF FilesOf, Same, Told
  <2> QED
    BY <1>2, <2>1, <2>2
<1> QED
  BY <1>1, <1>2, <1>4, FilesWorked

LEMMA FilesDelete ==
  ASSUME KindsInv, FilesInv, NEW j \in jobs, Delete(j)
  PROVE  FilesInv'
<1>0. Typed /\ FilesOf(j)
  BY DEF KindsInv, JobTypes, Typed, FilesInv
<1>1. UNCHANGED <<page, disk, serial, saved>> /\ j.phase = "run" /\ j.kind = "prune"
  BY DEF Delete
<1>2. PICK k : /\ Becomes(j, k) /\ Same(j, k) /\ k.phase \in {"look", "save"}
               /\ \/ k.result = j.result
                  \/ k.result = Result("failed", version, {})
  BY <1>0, DeleteStep
<1>3. k.result.id = 0 /\ k.kind # "export"
  BY <1>0, <1>1, <1>2 DEF Result, FilesOf, Same
<1>4. FilesOf(k)'
  BY <1>3, NoFiles
<1> QED
  BY <1>1, <1>2, <1>4, FilesWorked

LEMMA FilesLook ==
  ASSUME KindsInv, FilesInv, NEW j \in jobs, Look(j)
  PROVE  FilesInv'
<1>0. Typed /\ FilesOf(j)
  BY DEF KindsInv, JobTypes, Typed, FilesInv
<1>1. UNCHANGED <<page, disk, serial, saved>> /\ j.phase = "look"
  BY DEF Look
<1>2. PICK k, status :
        /\ Becomes(j, k) /\ Same(j, k)
        /\ k.phase = IF j.kind = "prune" THEN "save" ELSE "release"
        /\ k.result = Result(status, version, {})
  BY <1>0, LookStep
<1>3. k.result.id = 0 /\ k.kind # "export" /\ k.phase \in {"save", "release"}
  BY <1>0, <1>1, <1>2 DEF Result, FilesOf, Same
<1>4. FilesOf(k)'
  BY <1>3, NoFiles
<1> QED
  BY <1>1, <1>2, <1>3, <1>4, FilesWorked

LEMMA FilesWrite ==
  ASSUME KindsInv, FilesInv, NEW j \in jobs, WriteFile(j)
  PROVE  FilesInv'
<1>0. Typed /\ FilesOf(j) /\ j.id \in 1 .. serial /\ serial \in Nat
  BY DEF KindsInv, JobTypes, Typed, FilesInv, Numbered
<1>1. UNCHANGED <<page, serial, saved>> /\ j.phase = "run" /\ j.kind = "export"
  BY DEF WriteFile
<1>2. PICK k : /\ Becomes(j, k) /\ Same(j, k) /\ k.phase = "run"
               /\ k.result.id = j.result.id /\ k.result.status = j.result.status
               /\ \/ /\ k.result.paths = j.result.paths \union {j.next}
                     /\ \E whole \in BOOLEAN :
                          disk' = disk \union {[id |-> j.id, file |-> j.next, whole |-> whole]}
                  \/ k.result.paths = j.result.paths /\ UNCHANGED disk
  BY <1>0, WriteStep
<1>3. \A id : id # j.id => Written(id)' = Written(id)
  BY <1>2 DEF Written
<1>4. k.result.paths = Written(j.id)'
  <2>1. j.result.paths = Written(j.id)
    BY <1>0, <1>1 DEF FilesOf
  <2>2. CASE k.result.paths = j.result.paths /\ UNCHANGED disk
    BY <2>1, <2>2 DEF Written
  <2>3. CASE /\ k.result.paths = j.result.paths \union {j.next}
             /\ \E whole \in BOOLEAN :
                  disk' = disk \union {[id |-> j.id, file |-> j.next, whole |-> whole]}
    <3>1. PICK whole \in BOOLEAN :
            disk' = disk \union {[id |-> j.id, file |-> j.next, whole |-> whole]}
      BY <2>3
    <3> DEFINE new == [id |-> j.id, file |-> j.next, whole |-> whole]
    <3>2. new.id = j.id /\ new.file = j.next /\ disk' = disk \union {new}
      BY <3>1
    <3> HIDE DEF new
    <3>3. Written(j.id)' = Written(j.id) \union {j.next}
      BY <3>2 DEF Written
    <3> QED
      BY <2>1, <2>3, <3>3
  <2> QED
    BY <1>2, <2>2, <2>3
<1>5. Onwards
  BY <1>0, <1>1, <1>2, <1>3 DEF Onwards, Becomes, Same
<1>6. FilesOf(k)'
  BY <1>0, <1>1, <1>2, <1>4 DEF FilesOf, Told, Same
<1>7. ASSUME NEW i \in jobs'
      PROVE  FilesOf(i)'
  <2>1. CASE i = k
    BY <1>6, <2>1
  <2>2. CASE i \in jobs /\ i # j
    <3>1. Written(i.id)' = Written(i.id)
      BY <1>3, <2>2 DEF KindsInv, Numbered
    <3> QED
      BY <1>5, <2>2, <3>1, FilesOfStays DEF FilesInv
  <2> QED
    BY <1>2, <2>1, <2>2 DEF Becomes
<1>8. ASSUME NEW r \in Shown'
      PROVE  Told(r)'
  <2>1. Told(r)
    BY <1>1 DEF Shown, FilesInv
  <2> QED
    BY <1>5, <2>1, ToldStays
<1>9. \A d \in disk' : d.id \in Nat /\ d.id <= serial'
  BY <1>0, <1>1, <1>2 DEF FilesInv
<1> QED
  BY <1>7, <1>8, <1>9 DEF FilesInv

LEMMA FilesSummarize ==
  ASSUME KindsInv, FilesInv, NEW j \in jobs, Summarize(j)
  PROVE  FilesInv'
<1>0. Typed /\ FilesOf(j) /\ j.id \in 1 .. serial /\ serial \in Nat
  BY DEF KindsInv, JobTypes, Typed, FilesInv, Numbered
<1>1. UNCHANGED <<page, disk, serial, saved>> /\ j.phase = "run" /\ j.kind = "export"
  BY DEF Summarize
<1>2. PICK k : /\ Becomes(j, k) /\ Same(j, k) /\ k.phase = "save"
               /\ k.result.id = j.id /\ k.result.paths = j.result.paths
  BY <1>0, SummarizeStep
<1>3. Written(j.id)' = Written(j.id)
  BY <1>1 DEF Written
<1>4. \A i \in jobs' : i.id = j.id => i = k
  BY <1>2 DEF Becomes, KindsInv, Numbered
<1>5. FilesOf(k)'
  BY <1>0, <1>1, <1>2, <1>3, <1>4 DEF FilesOf, Told, Same
<1> QED
  BY <1>1, <1>2, <1>5, FilesWorked

LEMMA FilesKept ==
  ASSUME KindsInv, FilesInv, NEW j \in jobs, Save(j) \/ Release(j)
  PROVE  FilesInv'
<1>0. Typed /\ FilesOf(j)
  BY DEF KindsInv, JobTypes, Typed, FilesInv
<1>1. UNCHANGED <<page, disk, serial>> /\ saved' \in {saved, j.result}
      /\ j.phase \in {"save", "release"}
  BY DEF Save, Release
<1>2. PICK k : /\ Becomes(j, k) /\ Same(j, k) /\ k.phase \in {"release", "done"}
               /\ k.result = j.result
  BY <1>0, SaveStep, ReleasedStep
<1>3. \A i \in jobs' : i.id = j.id => i = k
  BY <1>2 DEF Becomes, KindsInv, Numbered
<1>4. Written(j.id)' = Written(j.id)
  BY <1>1 DEF Written
<1>5. FilesOf(k)'
  BY <1>0, <1>1, <1>2, <1>3, <1>4 DEF FilesOf, Told, Same
<1> QED
  BY <1>1, <1>2, <1>5, FilesWorked

(* A page's last result is one of an operation of its own.                 *)
LEMMA RefreshShows ==
  ASSUME NEW p \in Pages, NEW pg, NEW others, NEW kinds, RefreshStorage(p, pg, others, kinds),
         page \in [Pages -> Page], pg \in Page
  PROVE  \A q \in Pages : page'[q].lastResult = IF q = p THEN pg.lastResult
                                                ELSE page[q].lastResult
BY DEF RefreshStorage, Page

LEMMA FilesStep ==
  ASSUME KindsInv, FilesInv, StorageInv, [Next]_vars
  PROVE  FilesInv'
<1>0. page \in [Pages -> Page] /\ jobs \subseteq Jobs
      /\ OperationBusy \in Results /\ OperationBusy.id = 0
  BY DEF StorageInv, KindsInv, JobTypes, OperationBusy, Result, Results
<1> DEFINE Fine == \A p \in Pages : page'[p].lastResult.id = 0
                            \/ \E r \in Shown \union {j.result : j \in jobs} :
                                  page'[p].lastResult = r
<1>1. CASE Others
  <2>1. Asked
    BY <1>1, AskedStep
  <2>2. ASSUME NEW p \in Pages, OpenPage(p)
        PROVE  Fine
    <3>1. [Closed EXCEPT !.open = TRUE] \in Page
          /\ [Closed EXCEPT !.open = TRUE].lastResult.id = 0
      BY DEF Closed, Page, NoResult, Result, Results
    <3> QED
      BY <1>0, <2>2, <3>1, RefreshShows DEF OpenPage, Shown
  <2>3. ASSUME NEW p \in Pages, ClosePage(p)
        PROVE  Fine
    BY <1>0, <2>3 DEF ClosePage, Closed, NoResult, Result, Shown
  <2>4. ASSUME NEW p \in Pages, Prune(p) \/ Export(p)
        PROVE  Fine
    <3>1. [page[p] EXCEPT !.lastResult = OperationBusy] \in Page
          /\ [page[p] EXCEPT !.lastResult = OperationBusy].lastResult = OperationBusy
      BY <1>0 DEF Page
    <3>2. CASE RefreshStorage(p, [page[p] EXCEPT !.lastResult = OperationBusy], jobs, active)
      BY <1>0, <3>1, <3>2, RefreshShows DEF Shown
    <3>3. CASE \/ page' = [page EXCEPT ![p].pruneRequest = serial + 1]
               \/ page' = [page EXCEPT ![p].exportRequest = serial + 1]
      BY <1>0, <3>3 DEF Shown, Page
    <3> QED
      BY <2>4, <3>2, <3>3 DEF Prune, Export
  <2>5. ASSUME UNCHANGED page
        PROVE  Fine
    BY <2>5 DEF Shown
  <2>6. ASSUME NEW j \in jobs, Deliver(j)
        PROVE  Fine
    <3> DEFINE p == j.by
               pg == page[p]
               pruned == [pg EXCEPT !.pruneRequest = 0, !.lastResult = j.result,
                                    !.storage = j.result]
               refused == [pg EXCEPT !.pruneRequest = 0, !.lastResult = j.result]
               seenAll == [pg EXCEPT !.storageRequest = 0, !.storage = j.result]
               exported == [pg EXCEPT !.exportRequest = 0, !.lastResult = j.result]
    <3>1. CASE UNCHANGED page
      BY <3>1 DEF Shown
    <3>2. CASE p \in Pages
      <4>1. pg \in Page /\ j.result \in Results
        BY <1>0, <3>2 DEF Jobs
      <4>2. /\ pruned.lastResult = j.result /\ refused.lastResult = j.result
            /\ exported.lastResult = j.result /\ seenAll.lastResult = pg.lastResult
            /\ refused \in Page /\ exported \in Page
        BY <4>1 DEF Page
      <4>3. \/ \E npg \in {pruned, seenAll} : page' = [page EXCEPT ![p] = npg]
            \/ \E npg \in {refused, exported} : RefreshStorage(p, npg, jobs \ {j}, active)
            \/ UNCHANGED page
        BY <2>6, <3>2 DEF Deliver
      <4> HIDE DEF pruned, seenAll, refused, exported, pg, p
      <4>4. CASE \E npg \in {pruned, seenAll} : page' = [page EXCEPT ![p] = npg]
        BY <1>0, <3>2, <4>2, <4>4 DEF Shown, pg
      <4>5. CASE \E npg \in {refused, exported} : RefreshStorage(p, npg, jobs \ {j}, active)
        BY <1>0, <3>2, <4>2, <4>5, RefreshShows DEF Shown, pg
      <4> QED
        BY <3>1, <4>3, <4>4, <4>5
    <3> QED
      BY <2>6, <3>1, <3>2 DEF Deliver
  <2>7. Fine
    BY <1>1, <2>2, <2>3, <2>4, <2>5, <2>6 DEF Others, TimerFires, Record, vars
  <2> QED
    BY <2>1, <2>7, FilesAsked
<1> QED
  BY <1>1, FilesOpen, FilesDelete, FilesLook, FilesWrite, FilesSummarize, FilesKept
     DEF Next, Workers, Others, WriteJson, WriteCsv

-----------------------------------------------------------------------------
(* The storage that is shown                                               *)

(* What becomes of a page that asks, or is told.                           *)
Becoming(p, pg, left) ==
  /\ pg \in Page /\ OneRequest(pg) /\ left \in {0, seen[p]}
  /\ pg.storageRequest \in {0, page[p].storageRequest, serial + 1}
  /\ pg.pruneRequest \in {0, page[p].pruneRequest, serial + 1}
  /\ pg.open /\ ~Busy(pg) /\ pg.storage.status = "success" => pg.storage.version >= left

LEMMA StorageAsked ==
  ASSUME KindsInv, StorageInv, Asked, UNCHANGED version,
         NEW p \in Pages, NEW pg, NEW left, Becoming(p, pg, left),
         page' = [page EXCEPT ![p] = pg], seen' = [seen EXCEPT ![p] = left]
  PROVE  StorageInv'
<1>1. /\ page \in [Pages -> Page] /\ seen \in [Pages -> Nat] /\ version \in Nat
      /\ serial \in Nat /\ \A j \in jobs : j.id \in 1 .. serial /\ j \in Jobs
  BY DEF StorageInv, KindsInv, JobTypes, Numbered
<1>2. /\ page' \in [Pages -> Page] /\ seen' \in [Pages -> Nat]
      /\ page'[p] = pg /\ seen'[p] = left /\ seen[p] \in Nat
      /\ \A q \in Pages \ {p} : page'[q] = page[q] /\ seen'[q] = seen[q]
  BY <1>1 DEF Becoming
<1>3. \A k \in jobs' : k.phase \in {"save", "release", "done"} => k \in jobs
  BY DEF Asked, Newer
<1>4. ASSUME NEW q \in Pages
      PROVE  /\ OneRequest(page'[q]) /\ seen'[q] <= version'
             /\ \A j \in jobs' :
                  /\ j.id \in {page'[q].storageRequest, page'[q].pruneRequest}
                  /\ j.phase \in {"save", "release", "done"} /\ j.result.status = "success"
                  => j.result.version >= seen'[q]
             /\ page'[q].open /\ ~Busy(page'[q]) /\ page'[q].storage.status = "success"
                  => page'[q].storage.version >= seen'[q]
  <2>1. CASE q = p
    <3>1. seen'[q] <= version' /\ seen'[q] <= seen[p] /\ seen'[q] \in Nat
      BY <1>1, <1>2, <2>1 DEF StorageInv, Becoming
    <3>2. ASSUME NEW j \in jobs',
                 j.id \in {page'[q].storageRequest, page'[q].pruneRequest},
                 j.phase \in {"save", "release", "done"}, j.result.status = "success"
          PROVE  j.result.version >= seen'[q]
      <4>1. j \in jobs /\ j.id \in {page[p].storageRequest, page[p].pruneRequest}
        BY <1>1, <1>2, <1>3, <2>1, <3>2 DEF Becoming
      <4>2. j.result.version >= seen[p] /\ j.result.version \in Nat
        BY <1>1, <3>2, <4>1 DEF StorageInv, Jobs, Results
      <4> QED
        BY <1>2, <3>1, <4>2
    <3>3. OneRequest(page'[q])
          /\ (page'[q].open /\ ~Busy(page'[q]) /\ page'[q].storage.status = "success"
                => page'[q].storage.version >= seen'[q])
      BY <1>2, <2>1 DEF Becoming
    <3> QED
      BY <3>1, <3>2, <3>3
  <2>2. CASE q # p
    <3>1. page'[q] = page[q] /\ seen'[q] = seen[q] /\ version' = version
      BY <1>2, <2>2
    <3> QED
      BY <1>3, <3>1 DEF StorageInv, StorageIsCurrent
  <2> QED
    BY <2>1, <2>2
<1> QED
  BY <1>2, <1>4 DEF StorageInv, StorageIsCurrent

LEMMA StorageUntouched ==
  ASSUME KindsInv, StorageInv, Asked, UNCHANGED <<page, seen>>, version' \in {version, version + 1}
  PROVE  StorageInv'
<1>1. \A k \in jobs' : k.phase \in {"save", "release", "done"} => k \in jobs
  BY DEF Asked, Newer
<1>2. version \in Nat /\ seen \in [Pages -> Nat]
  BY DEF KindsInv, JobTypes, StorageInv
<1> QED
  BY <1>1, <1>2 DEF StorageInv, StorageIsCurrent

(* What an operation's step means for the pages: what it leaves is seen by *)
(* the page that waits for it, and what it answers is of now.              *)
LEMMA StorageWorked ==
  ASSUME KindsInv, StorageInv, NEW j \in jobs, NEW k, Becomes(j, k), Same(j, k),
         UNCHANGED page, version' \in {version, version + 1},
         UNCHANGED seen \/ (Left(j, version') /\ j.phase \notin {"save", "release", "done"}),
         k.phase \in {"save", "release", "done"} /\ k.result.status = "success" =>
           \/ k.result.version = version'
           \/ k.result = j.result /\ j.phase \in {"save", "release", "done"}
  PROVE  StorageInv'
<1>1. /\ page \in [Pages -> Page] /\ seen \in [Pages -> Nat] /\ version \in Nat
      /\ serial \in Nat /\ (\A i \in jobs : i.id \in 1 .. serial /\ i \in Jobs)
      /\ version' \in Nat /\ version <= version' /\ page' = page
  BY DEF StorageInv, KindsInv, JobTypes, Numbered
<1>2. \A p \in Pages :
        \/ seen'[p] = seen[p]
        \/ /\ j.id \in {page[p].pruneRequest, page[p].exportRequest}
           /\ seen'[p] = version' /\ j.phase \notin {"save", "release", "done"}
  BY <1>1 DEF Left
<1>3. seen' \in [Pages -> Nat]
  BY <1>1 DEF Left
<1>4. ASSUME NEW p \in Pages
      PROVE  /\ OneRequest(page'[p]) /\ seen'[p] <= version'
             /\ \A i \in jobs' :
                  /\ i.id \in {page'[p].storageRequest, page'[p].pruneRequest}
                  /\ i.phase \in {"save", "release", "done"} /\ i.result.status = "success"
                  => i.result.version >= seen'[p]
             /\ page'[p].open /\ ~Busy(page'[p]) /\ page'[p].storage.status = "success"
                  => page'[p].storage.version >= seen'[p]
  <2>0. /\ page[p] \in Page /\ OneRequest(page[p]) /\ seen[p] <= version
        /\ seen[p] \in Nat /\ seen'[p] \in Nat
    BY <1>1, <1>3 DEF StorageInv
  <2>1. seen'[p] <= version'
    BY <1>1, <1>2, <2>0
  <2>2. ~Busy(page[p]) => seen'[p] = seen[p]
    <3>1. j.id # 0
      BY <1>1
    <3>2. ~Busy(page[p]) => page[p].pruneRequest = 0 /\ page[p].exportRequest = 0
      BY DEF Busy
    <3> QED
      BY <1>2, <3>1, <3>2
  <2>3. ASSUME NEW i \in jobs', i.id \in {page[p].storageRequest, page[p].pruneRequest},
               i.phase \in {"save", "release", "done"}, i.result.status = "success"
        PROVE  i.result.version >= seen'[p]
    <3>1. CASE i = k /\ k.result.version = version'
      BY <1>1, <2>0, <2>1, <3>1
    <3>2. CASE i = k /\ k.result = j.result /\ j.phase \in {"save", "release", "done"}
      <4>1. seen'[p] = seen[p]
        BY <1>2, <3>2
      <4>2. j.id = i.id
        BY <3>2 DEF Same
      <4>3. j.result.version >= seen[p]
        BY <2>3, <3>2, <4>2 DEF StorageInv
      <4> QED
        BY <3>2, <4>1, <4>3
    <3>3. CASE i \in jobs /\ i # j
      <4>1. i.id # j.id
        BY <3>3 DEF KindsInv, Numbered
      <4>2. seen'[p] = seen[p]
        BY <1>1, <1>2, <2>0, <2>3, <3>3, <4>1 DEF OneRequest
      <4>3. i.result.version >= seen[p]
        BY <2>3, <3>3 DEF StorageInv
      <4> QED
        BY <4>2, <4>3
    <3> QED
      BY <2>3, <3>1, <3>2, <3>3 DEF Becomes
  <2> QED
    BY <1>1, <2>0, <2>1, <2>2, <2>3 DEF StorageInv, StorageIsCurrent
<1> QED
  BY <1>1, <1>3, <1>4 DEF StorageInv, StorageIsCurrent

(* refreshStorage: a refused page knows of no storage, another one waits.  *)
LEMMA RefreshStored ==
  ASSUME KindsInv, StorageInv, Asked, UNCHANGED version,
         NEW p \in Pages, NEW pg, NEW others, NEW kinds, NEW left,
         RefreshStorage(p, pg, others, kinds), pg \in Page, OneRequest(pg),
         pg.storageRequest \in {0, page[p].storageRequest},
         pg.pruneRequest \in {0, page[p].pruneRequest},
         left \in {0, seen[p]}, seen' = [seen EXCEPT ![p] = left]
  PROVE  StorageInv'
<1>0. serial \in Nat
  BY DEF KindsInv, JobTypes
<1> DEFINE busy == [pg EXCEPT !.storage = OperationBusy]
           asking == [pg EXCEPT !.storageRequest = serial + 1]
<1>1. \/ Busy(pg) /\ page' = [page EXCEPT ![p] = pg]
      \/ ~Busy(pg) /\ page' = [page EXCEPT ![p] = busy]
      \/ ~Busy(pg) /\ page' = [page EXCEPT ![p] = asking]
  BY DEF RefreshStorage
<1>2. CASE Busy(pg) /\ page' = [page EXCEPT ![p] = pg]
  <2>1. Becoming(p, pg, left)
    BY <1>2 DEF Becoming
  <2> QED
    BY <1>2, <2>1, StorageAsked
<1>3. CASE ~Busy(pg) /\ page' = [page EXCEPT ![p] = busy]
  <2>1. /\ busy \in Page /\ busy.storage.status = "failed"
        /\ busy.storageRequest = pg.storageRequest /\ busy.pruneRequest = pg.pruneRequest
        /\ busy.exportRequest = pg.exportRequest
    BY DEF Page, OperationBusy, Result, Results
  <2> HIDE DEF busy
  <2>2. Becoming(p, busy, left)
    BY <2>1 DEF Becoming, OneRequest
  <2> QED
    BY <1>3, <2>2, StorageAsked
<1>4. CASE ~Busy(pg) /\ page' = [page EXCEPT ![p] = asking]
  <2>1. /\ asking \in Page /\ asking.storageRequest = serial + 1
        /\ asking.pruneRequest = pg.pruneRequest /\ asking.exportRequest = pg.exportRequest
    BY <1>0 DEF Page
  <2>2. pg.pruneRequest = 0 /\ pg.exportRequest = 0
    BY <1>4 DEF Busy
  <2> HIDE DEF asking
  <2>3. serial + 1 # 0
    BY <1>0
  <2>4. OneRequest(asking) /\ Busy(asking)
    BY <2>1, <2>2, <2>3 DEF OneRequest, Busy
  <2>5. Becoming(p, asking, left)
    BY <2>1, <2>4 DEF Becoming
  <2> QED
    BY <1>4, <2>5, StorageAsked
<1> QED
  BY <1>1, <1>2, <1>3, <1>4

LEMMA StoragePrune ==
  ASSUME KindsInv, StorageInv, Asked, NEW p \in Pages, Prune(p) \/ Export(p)
  PROVE  StorageInv'
<1>0. /\ page[p] \in Page /\ OneRequest(page[p]) /\ serial \in Nat
      /\ page[p].storageRequest = 0 /\ page[p].pruneRequest = 0 /\ page[p].exportRequest = 0
      /\ seen \in [Pages -> Nat] /\ seen' = seen /\ version' = version
  BY DEF StorageInv, KindsInv, JobTypes, Prune, Export, Busy
<1>1. seen' = [seen EXCEPT ![p] = seen[p]]
  BY <1>0
<1> DEFINE told == [page[p] EXCEPT !.lastResult = OperationBusy]
           pruning == [page[p] EXCEPT !.pruneRequest = serial + 1]
           exporting == [page[p] EXCEPT !.exportRequest = serial + 1]
<1>2. /\ told \in Page /\ OneRequest(told) /\ told.storageRequest = 0 /\ told.pruneRequest = 0
  BY <1>0 DEF Page, OperationBusy, Result, Results, OneRequest
<1>3. /\ pruning \in Page /\ pruning.storageRequest = 0 /\ pruning.pruneRequest = serial + 1
      /\ pruning.exportRequest = 0
  BY <1>0 DEF Page
<1>4. /\ exporting \in Page /\ exporting.storageRequest = 0 /\ exporting.pruneRequest = 0
      /\ exporting.exportRequest = serial + 1
  BY <1>0 DEF Page
<1>5. \/ RefreshStorage(p, told, jobs, active)
      \/ page' = [page EXCEPT ![p] = pruning]
      \/ page' = [page EXCEPT ![p] = exporting]
  BY DEF Prune, Export
<1> HIDE DEF told, pruning, exporting
<1>6. serial + 1 # 0
  BY <1>0
<1>7. Becoming(p, pruning, seen[p]) /\ Becoming(p, exporting, seen[p])
  BY <1>0, <1>3, <1>4, <1>6 DEF Becoming, OneRequest, Busy
<1>8. CASE RefreshStorage(p, told, jobs, active)
  BY <1>0, <1>1, <1>2, <1>8, RefreshStored
<1> QED
  BY <1>0, <1>1, <1>5, <1>7, <1>8, StorageAsked

LEMMA StorageOpened ==
  ASSUME KindsInv, StorageInv, Asked, NEW p \in Pages, OpenPage(p) \/ ClosePage(p)
  PROVE  StorageInv'
<1>1. Closed \in Page /\ OneRequest(Closed) /\ ~Closed.open
      /\ Closed.storageRequest = 0 /\ Closed.pruneRequest = 0
  BY DEF Closed, Page, NoResult, Result, Results, OneRequest
<1>2. CASE OpenPage(p)
  <2> DEFINE opened == [Closed EXCEPT !.open = TRUE]
  <2>1. opened \in Page /\ OneRequest(opened)
        /\ opened.storageRequest = 0 /\ opened.pruneRequest = 0
    BY DEF Closed, Page, NoResult, Result, Results, OneRequest
  <2>2. RefreshStorage(p, opened, jobs, active) /\ seen' = [seen EXCEPT ![p] = 0]
        /\ version' = version
    BY <1>2 DEF OpenPage
  <2> HIDE DEF opened
  <2> QED
    BY <2>1, <2>2, RefreshStored
<1>3. CASE ClosePage(p)
  <2>1. /\ page' = [page EXCEPT ![p] = Closed] /\ seen' = [seen EXCEPT ![p] = seen[p]]
        /\ version' = version
    BY <1>3 DEF ClosePage, StorageInv
  <2>2. Becoming(p, Closed, seen[p])
    BY <1>1 DEF Becoming
  <2> QED
    BY <2>1, <2>2, StorageAsked
<1> QED
  BY <1>2, <1>3

LEMMA StorageDelivered ==
  ASSUME KindsInv, StorageInv, Asked, NEW j \in jobs, Deliver(j)
  PROVE  StorageInv'
<1>0. /\ version' = version /\ seen' = seen /\ j.phase = "done"
      /\ j \in Jobs /\ j.id # 0 /\ seen \in [Pages -> Nat] /\ page \in [Pages -> Page]
  BY DEF Deliver, KindsInv, JobTypes, Numbered, StorageInv
<1>1. CASE UNCHANGED page
  BY <1>0, <1>1, StorageUntouched
<1>2. CASE j.by \in Pages
  <2> DEFINE p == j.by
             pg == page[p]
             pruned == [pg EXCEPT !.pruneRequest = 0, !.lastResult = j.result,
                                  !.storage = j.result]
             refused == [pg EXCEPT !.pruneRequest = 0, !.lastResult = j.result]
             looked == [pg EXCEPT !.storageRequest = 0, !.storage = j.result]
             exported == [pg EXCEPT !.exportRequest = 0, !.lastResult = j.result]
  <2>1. \/ j.id = pg.pruneRequest /\ page' = [page EXCEPT ![p] = pruned]
        \/ RefreshStorage(p, refused, jobs \ {j}, active)
        \/ j.id = pg.storageRequest /\ page' = [page EXCEPT ![p] = looked]
        \/ RefreshStorage(p, exported, jobs \ {j}, active)
        \/ UNCHANGED page
    BY <1>2 DEF Deliver
  <2>2. /\ pg \in Page /\ OneRequest(pg) /\ j.result \in Results
        /\ seen' = [seen EXCEPT ![p] = seen[p]]
    BY <1>0, <1>2 DEF StorageInv, Jobs
  <2>3. j.id \in {pg.storageRequest, pg.pruneRequest} /\ j.result.status = "success"
          => j.result.version >= seen[p]
    BY <1>0, <1>2 DEF StorageInv
  <2> HIDE DEF pg
  <2>4. /\ pruned \in Page /\ pruned.pruneRequest = 0 /\ pruned.storage = j.result
        /\ pruned.storageRequest = pg.storageRequest /\ pruned.exportRequest = pg.exportRequest
    BY <2>2 DEF Page
  <2>5. /\ looked \in Page /\ looked.storageRequest = 0 /\ looked.storage = j.result
        /\ looked.pruneRequest = pg.pruneRequest /\ looked.exportRequest = pg.exportRequest
    BY <2>2 DEF Page
  <2>6. /\ refused \in Page /\ refused.pruneRequest = 0
        /\ refused.storageRequest = pg.storageRequest /\ refused.exportRequest = pg.exportRequest
    BY <2>2 DEF Page
  <2>7. /\ exported \in Page /\ exported.exportRequest = 0
        /\ exported.storageRequest = pg.storageRequest /\ exported.pruneRequest = pg.pruneRequest
    BY <2>2 DEF Page
  <2> HIDE DEF pruned, looked, refused, exported
  <2>8. CASE j.id = pg.pruneRequest /\ page' = [page EXCEPT ![p] = pruned]
    <3>1. Becoming(p, pruned, seen[p])
      BY <2>2, <2>3, <2>4, <2>8 DEF Becoming, OneRequest, pg
    <3> QED
      BY <1>0, <1>2, <2>2, <2>8, <3>1, StorageAsked
  <2>9. CASE j.id = pg.storageRequest /\ page' = [page EXCEPT ![p] = looked]
    <3>1. Becoming(p, looked, seen[p])
      BY <2>2, <2>3, <2>5, <2>9 DEF Becoming, OneRequest, pg
    <3> QED
      BY <1>0, <1>2, <2>2, <2>9, <3>1, StorageAsked
  <2>10. CASE RefreshStorage(p, refused, jobs \ {j}, active)
    <3>1. OneRequest(refused)
      BY <2>2, <2>6 DEF OneRequest
    <3>2. refused.storageRequest = page[p].storageRequest
      BY <2>6 DEF pg
    <3> HIDE DEF p
    <3> QED
      BY <1>0, <1>2, <2>2, <2>6, <2>10, <3>1, <3>2, RefreshStored DEF p
  <2>11. CASE RefreshStorage(p, exported, jobs \ {j}, active)
    <3>1. OneRequest(exported)
      BY <2>2, <2>7 DEF OneRequest
    <3>2. /\ exported.storageRequest = page[p].storageRequest
          /\ exported.pruneRequest = page[p].pruneRequest
      BY <2>7 DEF pg
    <3> QED
      BY <1>0, <1>2, <2>2, <2>7, <2>11, <3>1, <3>2, RefreshStored
  <2> QED
    BY <1>1, <2>1, <2>8, <2>9, <2>10, <2>11
<1> QED
  BY <1>1, <1>2 DEF Deliver

LEMMA StorageStep ==
  ASSUME KindsInv, FilesInv, StorageInv, [Next]_vars
  PROVE  StorageInv'
<1>0. Typed /\ version \in Nat
  BY DEF KindsInv, JobTypes, Typed
<1>1. CASE Others
  <2>1. Asked
    BY <1>1, AskedStep
  <2>2. ASSUME NEW kind \in {"prune", "export"}, TimerFires(kind)
        PROVE  StorageInv'
    BY <2>1, <2>2, StorageUntouched DEF TimerFires
  <2>3. CASE Record \/ UNCHANGED vars
    BY <2>1, <2>3, StorageUntouched DEF Record, vars
  <2> QED
    BY <1>1, <2>1, <2>2, <2>3, StoragePrune, StorageOpened, StorageDelivered DEF Others
<1>2. ASSUME NEW j \in jobs, Open(j)
      PROVE  StorageInv'
  <2>1. UNCHANGED <<page, version, seen>>
    BY <1>2 DEF Open
  <2>2. PICK k : /\ Becomes(j, k) /\ Same(j, k)
                 /\ \/ k.phase \in {"look", "run"}
                    \/ k.result = Result("failed", version, {})
    BY <1>0, <1>2, OpenStep
  <2>3. k.phase \notin {"save", "release", "done"} \/ k.result.status # "success"
    BY <2>2 DEF Result
  <2> QED
    BY <2>1, <2>2, <2>3, StorageWorked
<1>3. ASSUME NEW j \in jobs, Delete(j)
      PROVE  StorageInv'
  <2>1. UNCHANGED page /\ j.phase = "run"
    BY <1>3 DEF Delete
  <2>2. PICK k : /\ Becomes(j, k) /\ Same(j, k)
                 /\ \/ /\ k.phase = "look" /\ k.result = j.result
                       /\ version' = version + 1 /\ Left(j, version + 1)
                    \/ /\ k.phase = "save" /\ k.result = Result("failed", version, {})
                       /\ UNCHANGED <<version, seen>>
    BY <1>0, <1>3, DeleteStep
  <2>3. CASE k.phase = "look" /\ version' = version + 1 /\ Left(j, version + 1)
    <3>1. Left(j, version')
      BY <2>3 DEF Left
    <3> QED
      BY <2>1, <2>2, <2>3, <3>1, StorageWorked
  <2>4. CASE k.result = Result("failed", version, {}) /\ UNCHANGED <<version, seen>>
    <3>1. k.result.status # "success"
      BY <2>4 DEF Result
    <3> QED
      BY <2>1, <2>2, <2>4, <3>1, StorageWorked
  <2> QED
    BY <2>2, <2>3, <2>4
<1>4. ASSUME NEW j \in jobs, Look(j)
      PROVE  StorageInv'
  <2>1. UNCHANGED <<page, version, seen>>
    BY <1>4 DEF Look
  <2>2. PICK k, status : Becomes(j, k) /\ Same(j, k) /\ k.result = Result(status, version, {})
    BY <1>0, <1>4, LookStep
  <2>3. k.result.version = version'
    BY <2>1, <2>2 DEF Result
  <2> QED
    BY <2>1, <2>2, <2>3, StorageWorked
<1>5. ASSUME NEW j \in jobs, WriteFile(j)
      PROVE  StorageInv'
  <2>1. UNCHANGED <<page, version, seen>>
    BY <1>5 DEF WriteFile
  <2>2. PICK k : Becomes(j, k) /\ Same(j, k) /\ k.phase = "run"
    BY <1>0, <1>5, WriteStep
  <2> QED
    BY <2>1, <2>2, StorageWorked
<1>6. ASSUME NEW j \in jobs, Summarize(j)
      PROVE  StorageInv'
  <2>1. UNCHANGED <<page, version>> /\ Left(j, version) /\ j.phase = "run"
    BY <1>6 DEF Summarize
  <2>2. PICK k : Becomes(j, k) /\ Same(j, k) /\ k.result.version = version
    BY <1>0, <1>6, SummarizeStep
  <2>3. Left(j, version')
    BY <2>1 DEF Left
  <2> QED
    BY <2>1, <2>2, <2>3, StorageWorked
<1>7. ASSUME NEW j \in jobs, Save(j) \/ Release(j)
      PROVE  StorageInv'
  <2>1. UNCHANGED <<page, version, seen>> /\ j.phase \in {"save", "release"}
    BY <1>7 DEF Save, Release
  <2>2. PICK k : Becomes(j, k) /\ Same(j, k) /\ k.result = j.result
    BY <1>0, <1>7, SaveStep, ReleasedStep
  <2> QED
    BY <2>1, <2>2, StorageWorked
<1> QED
  BY <1>1, <1>2, <1>3, <1>4, <1>5, <1>6, <1>7 DEF Next, Workers, Others, WriteJson, WriteCsv

LEMMA InitResults == Init => ResultsInv
<1> SUFFICES ASSUME Init PROVE ResultsInv
  OBVIOUS
<1>1. Closed \in Page /\ OneRequest(Closed) /\ ~Closed.open /\ Closed.lastResult.id = 0
      /\ NoResult.id = 0
  BY DEF Closed, Page, OneRequest, NoResult, Result, Results
<1>2. ScheduledInv
  BY <1>1 DEF Init, ScheduledInv
<1>3. FilesInv
  BY <1>1 DEF Init, FilesInv, Shown, Told
<1>4. StorageInv
  BY <1>1 DEF Init, StorageInv, StorageIsCurrent
<1> QED
  BY <1>2, <1>3, <1>4, InitKinds DEF ResultsInv

LEMMA ResultsHold == Spec => []ResultsInv
<1>1. ResultsInv /\ [Next]_vars => ResultsInv'
  BY NextKinds, ScheduledStep, FilesStep, StorageStep DEF ResultsInv
<1> QED
  BY <1>1, InitResults, PTL DEF Spec

(* For any number of pages, files, operations and failures: the export     *)
(* that is remembered is never older than the last that completed, an idle *)
(* page never shows a storage older than what it left, and a result names  *)
(* exactly the files of its batch.                                         *)
THEOREM ResultsCurrent == Spec => []ResultsAreCurrent
<1>1. ResultsInv => ResultsAreCurrent
  BY DEF ResultsInv, ResultsAreCurrent, ScheduledInv, LastScheduledShown, FilesInv, Told,
         Shown, ReportsFiles, Written, StorageInv
<1> QED
  BY <1>1, ResultsHold, PTL
=============================================================================
