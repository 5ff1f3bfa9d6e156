---------------------------- MODULE SessionImport ----------------------------
(***************************************************************************)
(* The import of local session logs by plugin/localsessionmodel.cpp: which *)
(* files a scan takes, what it makes of their records, what a transaction  *)
(* stores, and what deletion, retention and scans that are given up do to  *)
(* it.  One importer works at a time, whoever asked for it: the widget and *)
(* the settings page have one each, which share a lock and the database.   *)
(*                                                                         *)
(* The tool is Codex, whose records hold the total of their session so     *)
(* far, or Claude, whose records hold the usage of a message; there is one *)
(* message in each session.  A file is written by one session.  Two        *)
(* records have different times.                                           *)
(***************************************************************************)
EXTENDS Integers, Sequences, SequencesExt, FiniteSetsExt

CONSTANTS
  Paths,        \* 1 .. n; a session is named by the path it began at
  Budget,       \* files in one scan
  Share,        \* new files before each changed one
  MaxTime,      \* bound: writes to the files
  MaxDisrupted  \* bound: what is not a write of whole records or a scan of them

Junk == -1            \* a record that cannot be read
Unreported == 0       \* a message without its usage
NoPoint == [offset |-> 0, size |-> -1, stamp |-> 0]
NoCounter == [at |-> 0, value |-> 0]
NoJob == [left |-> -1]
NoCursor == 0
Kinds == {"new", "changed"}

VARIABLES
  tool,        \* whose files are imported, "codex" or "claude-code"
  disk,        \* each path: [state, session, created, log, torn, stamp]
  total,       \* what each session has used, as it counts
  now,
  horizon,     \* what was written until then is beyond retention
  db,          \* events, counters, sessions, conflicts, points, cutoff, partial
  cursors,     \* the cursor files of the two queues
  job,         \* the scan of the one who holds session-import.lock
  disrupted,   \* how often the bound was used
  spent        \* history: what each session used since the last deletion

files == <<disk, total, now, horizon, spent>>
store == <<db, cursors>>
vars == <<tool, files, store, job, disrupted>>

Codex == tool = "codex"

Disrupts == disrupted < MaxDisrupted /\ disrupted' = disrupted + 1

EmptyDB ==
  [events |-> {}, counters |-> [s \in Paths |-> NoCounter],
   sessions |-> {},                     \* those stored, [id, last, partial]
   conflicts |-> {}, points |-> [p \in Paths |-> NoPoint],
   cutoff |-> 0, partial |-> FALSE]

Init ==
  /\ tool \in {"codex", "claude-code"}
  /\ disk = [p \in Paths |-> [state |-> "never", session |-> p, created |-> 0,
                              log |-> <<>>, torn |-> FALSE, stamp |-> 0]]
  /\ total = [s \in Paths |-> 0] /\ spent = total
  /\ now = 0 /\ horizon = 0
  /\ db = EmptyDB
  /\ cursors = [k \in Kinds |-> NoCursor]
  /\ job = NoJob
  /\ disrupted = 0

-----------------------------------------------------------------------------
(* The files, which the tools write *)

Here(p) == disk[p].state \in {"file", "refused"}
Size(f) == 2 * Len(f.log) - (IF f.torn THEN 1 ELSE 0)
Whole(f) == IF f.torn THEN Front(f.log) ELSE f.log
Created(f) == f.created   \* its session_meta, a record before all others

(* A write takes time and changes the time of the file.                    *)
Written(p, f) ==
  /\ now < MaxTime /\ now' = now + 1
  /\ disk' = [disk EXCEPT ![p] = [f EXCEPT !.stamp = now + 1]]

(* Codex repeats its total, raises it or begins again below it.            *)
Value(s, v) ==
  IF Codex
  THEN /\ v \in {total[s], total[s] + 1} \cup (IF total[s] > 1 THEN {1} ELSE {}) /\ v > 0
       /\ total' = [total EXCEPT ![s] = v]
       /\ spent' = [spent EXCEPT ![s] = IF v = total[s] THEN @ ELSE @ + 1]
  ELSE v \in {Unreported, 1, 2} /\ UNCHANGED <<total, spent>>

(* The file is smaller than when it was read, or changed without growing.  *)
Shrunk(d, p) ==
  LET c == d.points[p] f == disk[p] IN
  Size(f) < c.size \/ (Size(f) = c.size /\ f.stamp # c.stamp)

(* A file that was cut is scanned before it has outgrown its old size;     *)
(* otherwise nothing tells that it was.                                    *)
WriteRecord(p) ==
  LET f == disk[p] s == f.session IN
  /\ Shrunk(db, p) => Size(f) + 2 <= db.points[p].size
  /\ f.state # "gone" /\ f.state # "refused" /\ ~f.torn
  /\ \E v \in 0 .. 2 \cup {Junk}, torn \in BOOLEAN :
       /\ IF v = Junk THEN ~torn /\ UNCHANGED <<total, spent>> ELSE Value(s, v)
       /\ IF v = Junk \/ torn THEN Disrupts ELSE UNCHANGED disrupted
       /\ \E created \in IF f.state = "never" THEN {0, now + 1} ELSE {f.created} :
            Written(p, [f EXCEPT !.state = "file", !.created = created, !.torn = torn,
                                 !.log = Append(@, [id |-> s, time |-> now + 1, value |-> v])])
  /\ UNCHANGED <<tool, horizon, store, job>>

CompleteRecord(p) ==
  /\ disk[p].state = "file" /\ disk[p].torn
  /\ Written(p, [disk[p] EXCEPT !.torn = FALSE])
  /\ UNCHANGED <<tool, total, spent, horizon, store, job, disrupted>>

Cut(p) ==
  /\ disk[p].state = "file" /\ ~disk[p].torn /\ disk[p].log # <<>>
  /\ Disrupts
  /\ Written(p, [disk[p] EXCEPT !.log = Front(@)])
  /\ UNCHANGED <<tool, total, spent, horizon, store, job>>

(* It grows over the size limit, becomes a link or unreadable.             *)
BecomesRefused(p) ==
  /\ disk[p].state \in {"never", "file"}
  /\ Disrupts
  /\ Written(p, [disk[p] EXCEPT !.state = "refused"])
  /\ UNCHANGED <<tool, total, spent, horizon, store, job>>

Move(p, q) ==
  /\ disk[p].state = "file" /\ disk[q].state = "never"
  /\ Disrupts
  /\ disk' = [disk EXCEPT ![q] = disk[p], ![p].state = "gone"]
  /\ UNCHANGED <<tool, total, spent, now, horizon, store, job>>

Age ==
  /\ horizon < now /\ Disrupts /\ horizon' = now
  /\ UNCHANGED <<tool, disk, total, spent, now, store, job>>

-----------------------------------------------------------------------------
(* A record *)

Partly(d, s) == [d EXCEPT !.sessions = {IF r.id = s THEN [r EXCEPT !.partial = TRUE] ELSE r : r \in @}]
Partial(d, s) == [Partly(d, s) EXCEPT !.partial = TRUE]   \* and the tool's coverage

(* The session is stored, or seen again.                                   *)
Seen(d, s, time) ==
  LET old == {r \in d.sessions : r.id = s}
      row == IF old = {} THEN [id |-> s, last |-> time, partial |-> FALSE]
             ELSE [(CHOOSE r \in old : TRUE) EXCEPT !.last = IF @ < time THEN time ELSE @]
  IN [d EXCEPT !.sessions = (@ \ old) \cup {row}]

Store(d, r, delta) ==
  [d EXCEPT !.events = @ \cup {[id |-> r.id, time |-> r.time, value |-> r.value, delta |-> delta]}]

(* Mutant: a total that fell is the usage since it began again.            *)
SnapshotOfReset(d, r, created) ==
  LET before == d.counters[r.id]
      seen == Seen(d, r.id, r.time)
      delta == IF r.value < before.value THEN r.value ELSE r.value - before.value
  IN IF before.at > r.time THEN seen
     ELSE Store([seen EXCEPT !.counters[r.id] = [at |-> r.time, value |-> r.value]], r, delta)

(* A total of Codex.  The first one after a deletion only sets the counter *)
(* unless the session is known to be younger, one that fell sets it anew,  *)
(* and one that is older than the counter or repeats it counts nothing.    *)
Snapshot(d, r, created) ==
  LET before == d.counters[r.id]
      first == before = NoCounter
      seen == Seen(d, r.id, r.time)
      outside == r.time <= horizon
      baseline == first /\ d.cutoff # 0 /\ created <= d.cutoff
      reset == r.value < before.value
      marked == IF reset THEN Partial(seen, r.id)
                ELSE IF outside \/ baseline THEN Partly(seen, r.id) ELSE seen
      counted == [marked EXCEPT !.counters[r.id] = [at |-> r.time, value |-> r.value]]
  IN IF \E e \in d.events : e.id = r.id /\ e.time = r.time THEN d
     ELSE IF before.at > r.time \/ (~first /\ before.value = r.value)
          THEN IF outside THEN Partly(seen, r.id) ELSE seen
     ELSE IF outside \/ (d.cutoff # 0 /\ (baseline \/ reset)) THEN counted
     ELSE Store(counted, r, IF reset THEN 0 ELSE r.value - before.value)

(* Mutant: a conflict is forgotten with its event.                         *)
MessageForgets(d, r) ==
  LET old == {e \in d.events : e.id = r.id}
      seen == Seen(d, r.id, r.time)
  IN IF r.time <= horizon THEN d
     ELSE IF \E e \in old : e.value # Unreported /\ r.value # Unreported /\ e.value # r.value
     THEN [Partial(seen, r.id) EXCEPT !.events = @ \ old]
     ELSE IF old = {} THEN Store(seen, r, 0)
     ELSE [seen EXCEPT !.events = {IF e \in old /\ r.value # Unreported
                                   THEN [e EXCEPT !.value = r.value] ELSE e : e \in @}]

(* A message of Claude, which a later record completes and a differing one *)
(* excludes.                                                               *)
Message(d, r) ==
  LET old == {e \in d.events : e.id = r.id}
      seen == Seen(d, r.id, r.time)
      marked == IF r.value = Unreported THEN Partial(seen, r.id) ELSE seen
  IN IF r.time <= horizon \/ r.id \in d.conflicts THEN d
     ELSE IF \E e \in old : e.value # Unreported /\ r.value # Unreported /\ e.value # r.value
     THEN [Partial(seen, r.id) EXCEPT !.events = @ \ old, !.conflicts = @ \cup {r.id}]
     ELSE IF old = {} THEN Store(marked, r, 0)
     ELSE [marked EXCEPT !.events = {IF e \in old /\ r.value # Unreported
                                     THEN [e EXCEPT !.value = r.value] ELSE e : e \in @}]

Record(d, r, created) ==
  IF r.value = Junk \/ r.time <= d.cutoff THEN d
  ELSE IF Codex THEN Snapshot(d, r, created) ELSE Message(d, r)

(* The records of a file, in their order.                                  *)
Records(d, news, created) ==
  LET read[i \in 0 .. Len(news)] ==
        IF i = 0 THEN d ELSE Record(read[i - 1], news[i], created)
  IN read[Len(news)]

(* Where the scan of a file begins: where the last one ended, or anew.     *)
Begin(d, p) ==
  IF Shrunk(d, p) \/ d.points[p].offset > Size(disk[p]) THEN 0
  ELSE d.points[p].offset \div 2

(* What a file is not whole for: it was cut, or a record is not one.       *)
Incomplete(d, p) ==
  \/ Shrunk(d, p) \/ disk[p].torn
  \/ \E i \in Begin(d, p) + 1 .. Len(disk[p].log) : disk[p].log[i].value = Junk

(* Mutant: the record that is being written is passed.                     *)
ImportedTorn(d, p) ==
  LET f == disk[p]
      news == SubSeq(Whole(f), Begin(d, p) + 1, Len(Whole(f)))
  IN [Records(d, news, Created(f))
        EXCEPT !.points[p] = [offset |-> 2 * Len(f.log), size |-> Size(f), stamp |-> f.stamp]]

(* One file, in one transaction.                                           *)
Imported(d, p) ==
  LET f == disk[p]
      news == SubSeq(Whole(f), Begin(d, p) + 1, Len(Whole(f)))
  IN [Records(d, news, Created(f))
        EXCEPT !.points[p] = [offset |-> 2 * Len(Whole(f)), size |-> Size(f), stamp |-> f.stamp]]

-----------------------------------------------------------------------------
(* A scan *)

(* What is beyond retention is deleted, and with a session its counter.    *)
Retained(d) ==
  LET old == {e \in d.events : e.time <= horizon}
      trimmed == {r \in d.sessions : \E e \in old : e.id = r.id}
      kept == {r \in d.sessions : r.last > horizon}
  IN [d EXCEPT
        !.events = {e \in @ \ old : \E r \in kept : r.id = e.id},
        !.sessions = {IF r \in trimmed THEN [r EXCEPT !.partial = TRUE] ELSE r : r \in kept},
        !.counters = [s \in Paths |-> IF \E r \in kept : r.id = s THEN @[s] ELSE NoCounter]]

AtEnd(p) == db.points[p] = [offset |-> Size(disk[p]), size |-> Size(disk[p]), stamp |-> disk[p].stamp]
Discovered(kind) ==
  {p \in Paths : Here(p) /\ IF kind = "new" THEN db.points[p] = NoPoint
                            ELSE db.points[p] # NoPoint /\ ~AtEnd(p)}

(* The newest first, and after the file where the last scan ended.         *)
Newest(ps) ==
  SetToSortSeq(ps, LAMBDA p, q : disk[p].stamp > disk[q].stamp
                                   \/ (disk[p].stamp = disk[q].stamp /\ p < q))
Rotated(ps, cursor) ==
  IF \E i \in DOMAIN ps : ps[i] = cursor
  THEN LET i == CHOOSE i \in DOMAIN ps : ps[i] = cursor
       IN SubSeq(ps, i + 1, Len(ps)) \o SubSeq(ps, 1, i)
  ELSE ps

(* Mutant: both queues go on after the last file of the scan.              *)
QueueOfOneCursor(kind) ==
  Rotated(Newest(Discovered(kind)), cursors["changed"])

Queue(kind) == Rotated(Newest(Discovered(kind)), cursors[kind])

(* Share new files, then a changed one, and so on.                         *)
Merged ==
  LET new == Queue("new") changed == Queue("changed")
      round == [p \in Discovered("new") |-> (CHOOSE i \in DOMAIN new : new[i] = p) - 1]
      turn == [p \in Discovered("changed") |-> (CHOOSE i \in DOMAIN changed : changed[i] = p) - 1]
      place(p) == IF p \in Discovered("new") THEN round[p] + round[p] \div Share
                  ELSE Share * (turn[p] + 1) + turn[p]
  IN SetToSortSeq(Discovered("new") \cup Discovered("changed"), LAMBDA p, q : place(p) < place(q))

(* The lock is free.  The retention cleanup is a transaction of its own,   *)
(* and a tool that was partly read once stays so until a deletion.         *)
BeginScan ==
  /\ job = NoJob
  /\ \E cleaned \in BOOLEAN :
       /\ IF cleaned THEN db' = Retained(db) /\ UNCHANGED disrupted ELSE Disrupts /\ UNCHANGED db
       /\ job' = [queue |-> Merged, news |-> Discovered("new"), left |-> Budget,
                  last |-> [k \in Kinds |-> NoCursor], partial |-> db.partial \/ ~cleaned]
  /\ UNCHANGED <<tool, files, cursors>>

Passed(p) ==
  [job EXCEPT !.queue = Tail(@), !.left = @ - 1,
              !.last[IF p \in job.news THEN "new" ELSE "changed"] = p]

ImportFile(p) ==
  /\ job # NoJob /\ job.queue # <<>> /\ job.left > 0 /\ p = Head(job.queue)
  /\ \/ /\ disk[p].state # "file"
        /\ job' = [Passed(p) EXCEPT !.partial = TRUE]
        /\ UNCHANGED <<db, disrupted>>
     \/ /\ disk[p].state = "file"
        /\ db' = [Imported(db, p) EXCEPT !.partial = @ \/ job.partial \/ Incomplete(db, p)]
        /\ job' = [Passed(p) EXCEPT !.partial = db'.partial]
        /\ UNCHANGED disrupted
     \/ /\ disk[p].state = "file" /\ Disrupts
        /\ job' = [Passed(p) EXCEPT !.partial = TRUE]
        /\ UNCHANGED db
  /\ UNCHANGED <<tool, files, cursors>>

EndScan ==
  /\ job # NoJob /\ (job.queue = <<>> \/ job.left = 0)
  /\ cursors' = [k \in Kinds |-> IF job.last[k] = NoCursor THEN cursors[k] ELSE job.last[k]]
  /\ db' = [db EXCEPT !.partial = @ \/ job.partial \/ job.queue # <<>>]
  /\ job' = NoJob
  /\ UNCHANGED <<tool, files, disrupted>>

(* The generation has changed, or the shell dies: the transaction of the   *)
(* file is rolled back, and no cursor is written.                          *)
AbandonScan ==
  /\ job # NoJob /\ Disrupts
  /\ job' = NoJob
  /\ UNCHANGED <<tool, files, store>>

(* clearSessions, when it has the lock: the rows, points and conflicts go, *)
(* and the cutoff keeps what was written until then from coming back.      *)
ClearSessions ==
  /\ job = NoJob /\ Disrupts
  /\ db' = [EmptyDB EXCEPT !.cutoff = now]
  /\ cursors' = [k \in Kinds |-> NoCursor]
  /\ spent' = [s \in Paths |-> 0]
  /\ UNCHANGED <<tool, disk, total, now, horizon, job>>

Scans == BeginScan \/ (\E p \in Paths : ImportFile(p)) \/ EndScan

Next ==
  \/ \E p \in Paths : WriteRecord(p) \/ CompleteRecord(p) \/ Cut(p) \/ BecomesRefused(p)
  \/ \E p, q \in Paths : Move(p, q)
  \/ Age
  \/ Scans
  \/ AbandonScan
  \/ ClearSessions

Spec == Init /\ [][Next]_vars

-----------------------------------------------------------------------------
(* Properties *)

Sum(s) == SumFunction([e \in {e \in db.events : e.id = s} |-> e.delta])

(* No token of Codex is in the events twice, or once more after it was     *)
(* deleted.                                                                *)
CountedOnce == Codex => \A s \in Paths : Sum(s) <= spent[s]

(* A session that is not called partial has all the usage of its logs in   *)
(* the events, when they were read.                                        *)
ReportedIsWhole ==
  Codex => \A r \in db.sessions, p \in Paths :
             ~r.partial /\ disk[p].session = r.id /\ disk[p].state = "file" /\ AtEnd(p)
               => \A i \in DOMAIN disk[p].log :
                    disk[p].log[i].time > db.cutoff /\ disk[p].log[i].time > horizon
                      => disk[p].log[i].value <= Sum(r.id)

(* A message of Claude that was reported twice over is excluded, and any   *)
(* other is stored as it was reported.                                     *)
MessagesAsReported ==
  ~Codex => \A p \in Paths : disk[p].state = "file" /\ AtEnd(p) =>
    \A i \in DOMAIN disk[p].log :
      LET r == disk[p].log[i] IN
      r.value > 0 /\ r.time > db.cutoff /\ horizon = 0 =>
        \/ r.id \in db.conflicts /\ \A e \in db.events : e.id # r.id
        \/ \E e \in db.events : e.id = r.id /\ e.value = r.value

ImportIsFaithful == CountedOnce /\ ReportedIsWhole /\ MessagesAsReported

(* Every file that can be read is read to its end, whatever others refuse. *)
ReadWhole(p) == disk[p].state = "file" /\ ~disk[p].torn => AtEnd(p)
ImportsEverything == \A p \in Paths : []<>ReadWhole(p)
=============================================================================
