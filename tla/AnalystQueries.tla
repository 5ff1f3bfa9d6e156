--------------------------- MODULE AnalystQueries --------------------------
(***************************************************************************)
(* The Insights view: AnalystState.qml asks UsageDatabase for a snapshot   *)
(* to display and for the reports the user copies; requestAnalyst of       *)
(* plugin/usagedatabase.cpp answers from worker threads and tells only the *)
(* last request of either kind.                                            *)
(*                                                                         *)
(* The view is created each time the user navigates to it and numbers its  *)
(* requests from one; the database, and workers of an earlier visit, live  *)
(* on.                                                                     *)
(***************************************************************************)
EXTENDS Naturals, FiniteSets

CONSTANTS
  Periods,      \* days of the reports the menu offers: 7 and 30
  Queries,      \* SELECTs a snapshot is read with: 4
  MaxVisits,    \* bound: times the view is opened
  MaxRequests,  \* bound: requests made
  MaxChanges    \* bound: changes of the stored history

None == [kind |-> "none", n |-> 0]
Display == "display"

VARIABLES
  version,     \* of the stored history
  visits,      \* times the view was opened
  open,        \* the view exists
  generation,  \* requestGeneration of the view
  displayId,   \* displayRequestId
  loading,
  reportId,    \* reportRequestId
  reportDays,
  snapshot,    \* what is displayed: the serial and the versions read
  report,      \* the last report: days in its title, days it was read for
  latest,      \* m_latestAnalystRequestId
  serial,      \* requests the database was given
  workers      \* queries on worker threads

view == <<open, generation, displayId, loading, reportId, reportDays, snapshot, report>>
vars == <<version, visits, view, latest, serial, workers>>

NoSnapshot == [serial |-> 0, seen |-> {}]

Init ==
  /\ version = 0 /\ visits = 0 /\ open = FALSE /\ generation = 0
  /\ displayId = None /\ loading = FALSE /\ reportId = None /\ reportDays = Display
  /\ snapshot = NoSnapshot /\ report = <<Display, Display>>
  /\ latest = None /\ serial = 0 /\ workers = {}

(* requestAnalyst: the request is the latest, and a worker is started.     *)
RequestAnalyst(id) ==
  /\ serial < MaxRequests
  /\ serial' = serial + 1 /\ latest' = id
  /\ workers' = workers \union {[serial |-> serial + 1, id |-> id, left |-> Queries,
                                 seen |-> {}]}

(* nextRequestId                                                           *)
NextId(kind) == [kind |-> kind, n |-> generation + 1]

-----------------------------------------------------------------------------
(* The view *)

(* Component.onCompleted of a new view: refreshData                        *)
OpenView ==
  /\ ~open /\ visits < MaxVisits
  /\ visits' = visits + 1 /\ open' = TRUE
  /\ LET id == [kind |-> Display, n |-> 1]
     IN /\ RequestAnalyst(id)
        /\ displayId' = id /\ generation' = 1
  /\ loading' = TRUE /\ reportId' = None /\ reportDays' = Display
  /\ snapshot' = NoSnapshot
  /\ UNCHANGED <<version, report>>

(* The user navigates elsewhere and the view is destroyed.                 *)
CloseView ==
  /\ open /\ open' = FALSE
  /\ loading' = FALSE /\ reportId' = None /\ snapshot' = NoSnapshot
  /\ UNCHANGED <<version, visits, generation, displayId, reportDays, report,
                 latest, serial, workers>>

(* refreshData, by the Refresh action or when the view is shown again      *)
RefreshData ==
  /\ open /\ reportId = None
  /\ RequestAnalyst(NextId(Display))
  /\ displayId' = NextId(Display) /\ generation' = generation + 1
  /\ loading' = TRUE
  /\ UNCHANGED <<version, visits, open, reportId, reportDays, snapshot, report>>

(* requestReport: enabled once the view is loaded and no report awaited    *)
RequestReport(days) ==
  /\ open /\ ~loading /\ reportId = None
  /\ RequestAnalyst(NextId(days))
  /\ reportDays' = days
  /\ reportId' = NextId(days) /\ generation' = generation + 1
  /\ UNCHANGED <<version, visits, open, displayId, loading, snapshot, report>>

-----------------------------------------------------------------------------
(* The database *)

Record ==
  /\ version < MaxChanges /\ version' = version + 1
  /\ UNCHANGED <<visits, view, latest, serial, workers>>

(* queryRows: the next SELECT; there is no transaction around them.        *)
Read(w) ==
  /\ w.left > 0
  /\ workers' = (workers \ {w}) \union
                  {[w EXCEPT !.left = @ - 1, !.seen = @ \union {version}]}
  /\ UNCHANGED <<version, visits, view, latest, serial>>

(* The finished handler of requestAnalyst, and acceptResult                *)
Deliver(w) ==
  /\ w.left = 0
  /\ workers' = workers \ {w}
  /\ \/ /\ open /\ w.id = latest /\ w.id = displayId
        /\ snapshot' = [serial |-> w.serial, seen |-> w.seen]
        /\ loading' = FALSE
        /\ UNCHANGED <<open, generation, displayId, reportId, reportDays, report>>
     \/ /\ open /\ w.id = latest /\ w.id # displayId /\ w.id = reportId
        /\ report' = <<reportDays, w.id.kind>>
        /\ reportId' = None
        /\ UNCHANGED <<open, generation, displayId, loading, reportDays, snapshot>>
     \/ /\ ~open \/ w.id # latest \/ w.id \notin {displayId, reportId}
        /\ UNCHANGED view
  /\ UNCHANGED <<version, visits, latest, serial>>

Answering == \E w \in workers : Read(w) \/ Deliver(w)

Next ==
  \/ OpenView \/ CloseView \/ RefreshData
  \/ \E days \in Periods : RequestReport(days)
  \/ Record \/ Answering

Spec == Init /\ [][Next]_vars

(* Worker threads run and the event loop delivers what they found.         *)
FairSpec == Spec /\ WF_vars(Answering)

-----------------------------------------------------------------------------
(* Properties *)

Kinds == Periods \union {Display}
Ids == [kind : Kinds \union {"none"}, n : Nat]

(* Types; a view that is loading, or waits for a report, is the last that  *)
(* asked, so its answer will be told (usagedatabase.cpp, requestAnalyst).  *)
TypeOK ==
  /\ {version, visits, generation, serial} \subseteq Nat
  /\ {open, loading} \subseteq BOOLEAN
  /\ {displayId, reportId, latest} \subseteq Ids /\ reportDays \in Kinds
  /\ loading \/ reportId # None =>
       /\ latest = IF reportId # None THEN reportId ELSE displayId
       /\ \E w \in workers : w.id = latest

(* A report is built from its own period, also when the view was closed    *)
(* and opened while an earlier report was read (requestReport).            *)
ReportOfItsPeriod == report[1] = report[2]

(* Neither the indicator nor the report action is stuck, though both kinds *)
(* of request supersede each other (AnalystTab.qml, insightsReportAction). *)
Answered == []<>~loading /\ []<>(reportId = None)
=============================================================================
