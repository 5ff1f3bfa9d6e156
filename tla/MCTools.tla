------------------------------- MODULE MCTools -------------------------------
(***************************************************************************)
(* The subscription tools, the schedule and the import of session logs     *)
(* (extended) for TLC: of Codex, of Claude, and of files among others that *)
(* are refused.  A behaviour runs the component that is checked and leaves *)
(* the others as they start.                                               *)
(***************************************************************************)
EXTENDS Tools

VARIABLE checked

(* Months of different lengths.                                            *)
Calendar == <<3, 2, 4, 2>>
SyncGenerations == [claude |-> 2, codex |-> 2, copilot |-> 2]

Gemini == <<"gemini">>
Weekly == <<"weekly">>

(* Two places for three files, two of which cannot be read.                *)
RefusedLogs == INSTANCE SessionImport WITH
               Paths <- 1 .. 3, MaxTime <- MaxWrites, tool <- logTool, now <- written

(* The newest was never read, the next one became too large after it was.  *)
File(p, was, stamp) ==
  [state |-> was, session |-> p, created |-> 0, torn |-> FALSE, stamp |-> stamp,
   log |-> <<[id |-> p, time |-> p, value |-> 1]>>]
RefusedFiles ==
  /\ logTool = "codex"
  /\ disk = [p \in 1 .. 3 |-> File(p, IF p = 3 THEN "file" ELSE "refused", 4 - p)]
  /\ total = [p \in 1 .. 3 |-> 1] /\ spent = total
  /\ written = 3 /\ horizon = 0
  /\ db = [events |-> {}, counters |-> [s \in 1 .. 3 |-> [at |-> 0, value |-> 0]],
           sessions |-> {}, conflicts |-> {}, cutoff |-> 0, partial |-> TRUE,
           points |-> [p \in 1 .. 3 |-> IF p = 2 THEN [offset |-> 0, size |-> 1, stamp |-> 1]
                                        ELSE [offset |-> 0, size |-> -1, stamp |-> 0]]]
  /\ cursors = [k \in {"new", "changed"} |-> 0]
  /\ job = [left |-> -1] /\ disrupted = 0

rolling == <<uEnabled, count, start, resetDay, promised, uQuota, uNow>>
monthly == <<mEnabled, mCount, mStart, mResetDay, mPromised, mQuota, mNow>>
usage == <<rolling, monthly>>
antigravity == <<aEnabled, installed, aSyncing, aGeneration, pending, attempt, aCalls,
                 aState, code, synced, aShown, maximum, band>>
schedule == <<popup, net, seenOffline, recovery, hasKey, loading, error, hold,
              lastSuccess, lastAttempt, dueAt, refreshTimer>>
logs == <<logTool, disk, total, written, horizon, db, cursors, job, disrupted, spent>>
requests == <<iGeneration, iEnabled, request, requestGen, outcome, again, shown, clearing,
              lock, iFailures, read>>
others == <<usage, antigravity, schedule, logs, requests>>
all == <<checked, vars, others>>

AnyStart == tool = "claude" /\ login = [p \in Places |-> NoLogin]
AnySchedule == net = "online" /\ ~hasKey

MCInit ==
  /\ checked \in {"sync", "rolling", "monthly", "antigravity", "schedule",
                  "logs", "refused logs", "requests"}
  /\ Init
  /\ Rolling!Init /\ Monthly!Init
  /\ Antigravity!Init /\ Schedule!Init
  /\ IF checked = "refused logs" THEN RefusedFiles ELSE Logs!Init
  /\ checked = "logs" \/ logTool = "codex"
  /\ Requests!Init
  /\ checked = "sync" \/ AnyStart
  /\ resetDay = 1 /\ (checked = "monthly" \/ mResetDay = 1)
  /\ checked = "antigravity" \/ aEnabled
  /\ checked = "schedule" \/ AnySchedule
  /\ checked = "requests" \/ lock = "free"

InSync == checked = "sync" /\ UNCHANGED <<checked, others>>
Outside == UNCHANGED <<checked, vars>>
InUsage == Outside /\ UNCHANGED <<antigravity, schedule, logs, requests>>
InRolling == checked = "rolling" /\ InUsage /\ UNCHANGED monthly
InMonthly == checked = "monthly" /\ InUsage /\ UNCHANGED rolling
InAntigravity ==
  checked = "antigravity" /\ Outside /\ UNCHANGED <<usage, schedule, logs, requests>>
InSchedule == checked = "schedule" /\ Outside /\ UNCHANGED <<usage, antigravity, logs, requests>>
InLogs == Outside /\ UNCHANGED <<usage, antigravity, schedule, requests>>
InWritten == checked = "logs" /\ InLogs
InRefused == checked = "refused logs" /\ InLogs
InRequests == checked = "requests" /\ Outside /\ UNCHANGED <<usage, antigravity, schedule, logs>>

(* The messages of Claude are those of three writes to one file.           *)
FewMessages == Logs!Codex \/ (UNCHANGED disk[2] /\ written' <= 3)

MCNext ==
  \/ InSync /\ Next
  \/ InRolling /\ Rolling!Next
  \/ InMonthly /\ Monthly!Next
  \/ InAntigravity /\ Antigravity!Next
  \/ InSchedule /\ Schedule!Next
  \/ InWritten /\ Logs!Next /\ FewMessages
  \/ InRefused /\ RefusedLogs!Next
  \/ InRequests /\ Requests!Next

MCSpec ==
  /\ MCInit /\ [][MCNext]_all
  /\ WF_all(InSync /\ Replies)
  /\ WF_all(InRolling /\ Rolling!CheckAndResetPeriod)
  /\ WF_all(InAntigravity /\ Antigravity!Replies)
  /\ WF_all(InSchedule /\ Schedule!TimerFires)
  /\ WF_all(InSchedule /\ Schedule!RecoveryFires)
  /\ WF_all(InSchedule /\ Schedule!Answers)
  /\ WF_all(InSchedule /\ Schedule!Tick)
  /\ WF_all(InRefused /\ RefusedLogs!Scans)
  /\ WF_all(InRequests /\ Requests!ImportTimer)
  /\ WF_all(InRequests /\ Requests!Worker)
  /\ WF_all(InRequests /\ Requests!ImportFinished)
  /\ WF_all(InRequests /\ Requests!Clears)

-----------------------------------------------------------------------------
(* The properties of the modules, each of the component that is checked    *)

(* Every sync ends, no counter outlives its period, a provider is refreshed *)
(* again and again, every readable log is read, and no import runs for     *)
(* ever: SyncEnds, PeriodsEnd, KeepsRefreshing, ImportsEverything and      *)
(* RunningEnds.  checked never changes, so each may stand under []<>.      *)
Ended(n) ==
  /\ checked = "sync" => SyncOver(n)
  /\ checked = "rolling" => Rolling!CountedInTime
  /\ checked = "antigravity" => Antigravity!SyncOver(n)
  /\ checked = "refused logs" => RefusedLogs!ReadWhole(n)
  /\ checked = "requests" => Requests!RunOver
ToolsEnd ==
  /\ \A n \in 1 .. 3 : []<>Ended(n)
  /\ \A open \in BOOLEAN :
       <>[](checked = "schedule" /\ Schedule!Quiescent(open)) => []<>loading
=============================================================================
