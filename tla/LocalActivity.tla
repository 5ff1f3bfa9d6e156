---------------------------- MODULE LocalActivity ----------------------------
(***************************************************************************)
(* The activity of a tool that keeps its files on this computer, counted   *)
(* by plugin/localactivitymonitorbase.cpp: watches on the files and        *)
(* folders, scans on a worker thread that compare the files with the last  *)
(* scan, and a timer that gathers the changes in between.                  *)
(*                                                                         *)
(* A scan of an earlier generation is one that was superseded.  Root is    *)
(* the tool's folder, or the nearest one above it while there is none.     *)
(***************************************************************************)
EXTENDS Integers, FiniteSets

CONSTANTS
  Entries, Folders, \* what may be in the folder of the tool
  Parent,           \* where an entry is: in Root or in one of Folders
  Root,
  MaxChanges,       \* bound: of files and folders
  MaxSuperseded,    \* bound: scans that were superseded and have not ended
  MaxFailures       \* bound: watches that are refused

Files == Entries \ Folders
Unread == -1
Absent == 0
NoBaseline == -1
Unknown == [e \in Entries |-> Absent]
NoScan == [since |-> NoBaseline, files |-> Unknown]

(* The folder of e is there, as far as d knows.                            *)
HasFolder(e, d) == IF Parent[e] = Root THEN TRUE ELSE d[Parent[e]] # Absent

VARIABLES
  disk,        \* when an entry was changed last
  clock,       \* changes so far
  present,     \* the tool is installed
  enabled, installed,
  m,           \* the monitor: watching, watched, baseline, since, snapshot, running,
               \* scan, again, debounce, incomplete
  superseded,  \* scans that were superseded and have not ended: since when they count
  event,       \* a watch has something to tell
  failures,
  uncounted,   \* history: changes of files since the watch began, less what was counted
  owed         \* history: files whose last change a watch or the first scan must see

environment == <<disk, clock, present>>
history == <<uncounted, owed>>
vars == <<environment, enabled, installed, m, superseded, event, failures, history>>

Idle ==
  [watching |-> FALSE, watched |-> {}, baseline |-> TRUE, since |-> 0, snapshot |-> Unknown,
   running |-> FALSE, scan |-> NoScan, again |-> FALSE, debounce |-> FALSE, incomplete |-> FALSE]

Init ==
  /\ disk \in [Entries -> {Absent, 1}]
  /\ \A e \in Entries : HasFolder(e, disk) \/ disk[e] = Absent
  /\ clock = 1
  /\ present \in BOOLEAN /\ enabled = FALSE /\ installed = FALSE
  /\ m = Idle /\ superseded = {} /\ event = FALSE /\ failures = 0
  /\ uncounted = 0 /\ owed = {}

-----------------------------------------------------------------------------
(* The monitor *)

(* Mutant: a change during a scan is left to the scan.                     *)
ScanRequestedOnce(mon) ==
  IF mon.running THEN mon
  ELSE [mon EXCEPT !.running = TRUE, !.again = FALSE,
                   !.scan = [since |-> IF mon.baseline THEN mon.since ELSE NoBaseline,
                             files |-> [e \in Entries |-> Unread]]]

(* requestScan: one that comes during a scan is served after it.           *)
ScanRequested(mon) ==
  IF mon.running THEN [mon EXCEPT !.again = TRUE]
  ELSE [mon EXCEPT !.running = TRUE, !.again = FALSE,
                   !.scan = [since |-> IF mon.baseline THEN mon.since ELSE NoBaseline,
                             files |-> [e \in Entries |-> Unread]]]

(* stopWatching: the scan is cancelled and of an earlier generation.       *)
StopWatching ==
  /\ m' = Idle
  /\ superseded' = IF m.running THEN superseded \cup {m.scan.since} ELSE superseded
  /\ Cardinality(superseded') <= MaxSuperseded
  /\ uncounted' = 0 /\ owed' = {}

(* setupWatcher, of one that is not watching yet.                          *)
SetupWatcher ==
  /\ m' = ScanRequested([Idle EXCEPT !.watching = TRUE, !.watched = {Root}, !.since = clock])
  /\ uncounted' = 0 /\ owed' = {}
  /\ UNCHANGED superseded

(* checkToolInstalled: the watch follows.                                  *)
FollowInstallation ==
  /\ installed' = present
  /\ IF enabled' /\ present /\ ~m.watching THEN SetupWatcher
     ELSE IF present # installed /\ ~(enabled' /\ present) THEN StopWatching
     ELSE UNCHANGED <<m, superseded, history>>

CheckToolInstalled ==
  /\ UNCHANGED enabled
  /\ FollowInstallation
  /\ UNCHANGED <<environment, event, failures>>

SetEnabled(on) ==
  /\ on # enabled /\ enabled' = on
  /\ IF on THEN FollowInstallation ELSE StopWatching /\ UNCHANGED installed
  /\ UNCHANGED <<environment, event, failures>>

(* detectActivity: the timer is not put off by further changes.            *)
EventArrives ==
  /\ event /\ event' = FALSE
  /\ m' = [m EXCEPT !.debounce = @ \/ (enabled /\ installed)]
  /\ UNCHANGED <<environment, enabled, installed, superseded, failures, history>>

DebounceFires ==
  /\ m.debounce
  /\ m' = ScanRequested([m EXCEPT !.debounce = FALSE])
  /\ UNCHANGED <<environment, enabled, installed, superseded, event, failures, history>>

-----------------------------------------------------------------------------
(* A scan *)

(* scanActivity goes down from folder to folder, in any order.             *)
Read(e) ==
  /\ m.running /\ m.scan.files[e] = Unread
  /\ Parent[e] \notin {f \in Folders : m.scan.files[f] = Unread}
  /\ m' = [m EXCEPT !.scan.files[e] = IF HasFolder(e, m.scan.files) THEN disk[e] ELSE Absent]
  /\ UNCHANGED <<environment, enabled, installed, superseded, event, failures, history>>

(* Mutant: all that a baseline finds is news.                              *)
ChangedSinceNever(scan) == \E f \in Files : scan.files[f] \notin {Absent, m.snapshot[f]}

(* A baseline counts what is younger than the watch, any other scan what   *)
(* differs from the last one.                                              *)
Changed(scan) ==
  IF m.baseline THEN \E f \in Files : scan.since # NoBaseline /\ scan.files[f] > scan.since
  ELSE \E f \in Files : scan.files[f] \notin {Absent, m.snapshot[f]}

(* The finished handler: watches for what was found, as far as they are    *)
(* granted, then the count, and after a baseline another scan, because     *)
(* nothing watched the files while it read them.                           *)
Finish(scan) ==
  LET desired == {Root} \cup {e \in Entries : scan.files[e] # Absent}
      gone == {e \in desired \ ({Root} \cup m.watched) : disk[e] = Absent}
  IN \E refused \in {{}} \cup {{e} : e \in desired \ (m.watched \cup gone)} :
       LET watched == desired \ (gone \cup refused)
           next == [m EXCEPT !.watched = watched, !.incomplete = gone \cup refused # {},
                             !.baseline = FALSE, !.running = FALSE, !.scan = NoScan,
                             !.snapshot = [e \in Entries |-> IF e \in Files THEN scan.files[e]
                                                             ELSE Absent]]
       IN /\ IF refused = {} THEN UNCHANGED failures
             ELSE failures < MaxFailures /\ failures' = failures + 1
          /\ m' = IF m.baseline THEN ScanRequested(next)
                  ELSE [next EXCEPT !.debounce = @ \/ m.again]
          /\ uncounted' = IF Changed(scan) THEN uncounted - 1 ELSE uncounted
          /\ UNCHANGED owed

(* Mutant: the watches of a baseline are taken for early enough.           *)
ScanFinishedOnce ==
  /\ m.running /\ \A e \in Entries : m.scan.files[e] # Unread
  /\ LET scan == m.scan
         desired == {Root} \cup {e \in Entries : scan.files[e] # Absent}
     IN m' = [m EXCEPT !.watched = {e \in desired : e = Root \/ disk[e] # Absent},
                       !.incomplete = FALSE, !.baseline = FALSE, !.running = FALSE,
                       !.scan = NoScan, !.debounce = @ \/ m.again,
                       !.snapshot = [e \in Entries |-> IF e \in Files THEN scan.files[e]
                                                       ELSE Absent]]
  /\ uncounted' = IF Changed(m.scan) THEN uncounted - 1 ELSE uncounted
  /\ UNCHANGED <<environment, enabled, installed, superseded, event, failures, owed>>

ScanFinished ==
  /\ m.running /\ \A e \in Entries : m.scan.files[e] # Unread
  /\ Finish(m.scan)
  /\ UNCHANGED <<environment, enabled, installed, superseded, event>>

(* Mutant: the generation of a scan is not compared.                       *)
SupersededFinishedAnyway(since) ==
  /\ superseded' = superseded \ {since}
  /\ IF enabled /\ installed THEN Finish([since |-> since, files |-> disk])
     ELSE UNCHANGED <<m, failures, history>>
  /\ UNCHANGED <<environment, enabled, installed, event>>

(* Whatever it had read when it was cancelled is dropped.                  *)
SupersededFinished(since) ==
  /\ superseded' = superseded \ {since}
  /\ UNCHANGED <<environment, enabled, installed, m, event, failures, history>>

-----------------------------------------------------------------------------
(* The computer *)

Inside(e) == {c \in Entries : Parent[c] = e /\ disk[c] # Absent}

(* A change of e, which the watches on seenBy would tell.                  *)
Changes(e, to, seenBy, watched) ==
  LET seen == seenBy \cap m.watched # {} IN
  /\ clock < MaxChanges /\ clock' = clock + 1
  /\ disk' = [disk EXCEPT ![e] = to]
  /\ event' = (event \/ seen)
  /\ m' = [m EXCEPT !.watched = watched]
  /\ uncounted' = IF e \in Files /\ to # Absent /\ m.watching THEN uncounted + 1 ELSE uncounted
  /\ owed' = IF e \in Files /\ to # Absent /\ m.watching /\ (seen \/ m.baseline)
             THEN owed \cup {e} ELSE owed \ {e}
  /\ UNCHANGED <<present, enabled, installed, superseded, failures>>

Create(e) ==
  /\ disk[e] = Absent
  /\ HasFolder(e, disk)
  /\ Changes(e, clock + 1, {Parent[e]}, m.watched)

Write(e) ==
  /\ e \in Files /\ disk[e] # Absent
  /\ Changes(e, clock + 1, {e}, m.watched)

(* Another file is renamed to it, and the watch goes with the old one.     *)
Replace(e) ==
  /\ e \in Files /\ disk[e] # Absent
  /\ Changes(e, clock + 1, {e, Parent[e]}, m.watched \ {e})

Delete(e) ==
  /\ disk[e] # Absent /\ Inside(e) = {}
  /\ Changes(e, Absent, {e, Parent[e]}, m.watched \ {e})

Installation ==
  /\ clock < MaxChanges /\ clock' = clock + 1
  /\ present' = ~present
  /\ UNCHANGED <<disk, enabled, installed, m, superseded, event, failures, history>>

Reads == \E e \in Entries : Read(e)

Next ==
  \/ CheckToolInstalled
  \/ \E on \in BOOLEAN : SetEnabled(on)
  \/ EventArrives \/ DebounceFires
  \/ Reads \/ ScanFinished
  \/ \E since \in superseded : SupersededFinished(since)
  \/ \E e \in Entries : Create(e) \/ Write(e) \/ Replace(e) \/ Delete(e)
  \/ Installation

Spec == Init /\ [][Next]_vars

-----------------------------------------------------------------------------
(* Properties *)

(* Every activity that is counted is a change of its own, made since the   *)
(* watch began: not one of before, one of a watch that was given up, or    *)
(* one that was counted already.                                           *)
CountedIsActivity == uncounted >= 0

(* A watch that is not called incomplete has every entry the last scan     *)
(* found and nobody changed since.                                         *)
CompleteWatchesAll ==
  m.watching /\ ~m.baseline /\ ~m.incomplete =>
    \A f \in Files : disk[f] # Absent /\ m.snapshot[f] = disk[f] => f \in m.watched

ActivityIsCounted == CountedIsActivity /\ CompleteWatchesAll

(* What a watch told, and what happened before the watches of a baseline,  *)
(* is found by a scan: infinitely often there is nothing left to find.     *)
NothingOwed == \A f \in owed : m.snapshot[f] = disk[f]
=============================================================================
