--------------------------- MODULE HistorySeries ---------------------------
(***************************************************************************)
(* The history view: HistoryController.qml asks UsageDatabase for the      *)
(* catalog of sources that have a history and then for the series of the   *)
(* selected ones; worker threads of plugin/usagedatabase.cpp answer in any *)
(* order.                                                                  *)
(*                                                                         *)
(* Requests of a kind are numbered and a later one supersedes the earlier. *)
(* Every change of the stored history asks for the catalog again, after a  *)
(* pause, and every accepted catalog for the series.                       *)
(***************************************************************************)
EXTENDS Naturals, FiniteSets

CONSTANTS
  Sources,     \* configured providers and tools
  MaxChanges,  \* bound: changes of the stored history
  MaxChoices,  \* bound: selections of the user
  MaxFailures  \* bound: queries that fail

(* What the view shows: a source, or all of them compared.                 *)
Compare == "compare"
Selections == Sources \union {Compare}

VARIABLES
  version,         \* of the stored history
  history,         \* sources with stored values
  selected,        \* selectedSourceId, compareMode
  later,           \* a refresh waits in Qt.callLater
  catalogTimer,    \* catalogRefreshTimer runs
  catalog,         \* storedCatalog: sources it gives metrics for
  catalogRequest,  \* catalogRequestId, m_latestHistoryCatalogRequestId
  catalogLoading,
  seriesRequest,   \* seriesRequestId, m_latestHistorySeriesRequestId
  loading,
  series,          \* seriesData: of which sources and version, or {}
  workers,         \* queries on worker threads
  choices, failures

view == <<selected, later, catalog, catalogRequest, catalogLoading,
          seriesRequest, loading, series>>
vars == <<version, history, catalogTimer, view, workers, choices, failures>>

NoAnswer == [ok |-> FALSE, of |-> {}, version |-> 0]

Worker(kind, id, rows) ==
  [kind |-> kind, id |-> id, rows |-> rows, done |-> FALSE, answer |-> NoAnswer]

(* The sources a refresh asks for: those of the selection that have the    *)
(* metric.                                                                 *)
Rows(choice, known) == IF choice = Compare THEN known ELSE {choice} \intersect known

(* The view opens: Component.onCompleted asks for the catalog.             *)
Init ==
  /\ version = 0 /\ history \in SUBSET Sources
  /\ selected \in Sources /\ later = FALSE /\ catalogTimer = FALSE
  /\ catalog = {} /\ catalogRequest = 1 /\ catalogLoading = TRUE
  /\ seriesRequest = 0 /\ loading = FALSE /\ series = NoAnswer
  /\ workers = {Worker("catalog", 1, {})}
  /\ choices = 0 /\ failures = 0

-----------------------------------------------------------------------------
(* The controller *)

(* refresh, with the catalog known: what was shown goes; without sources   *)
(* to ask for nothing is requested, and the last request stays the last.   *)
Refresh(known, others) ==
  /\ series' = NoAnswer
  /\ IF Rows(selected', known) = {}
     THEN /\ loading' = FALSE /\ workers' = others
          /\ UNCHANGED seriesRequest
     ELSE /\ seriesRequest' = seriesRequest + 1
          /\ loading' = TRUE
          /\ workers' = others \union
                          {Worker("series", seriesRequest + 1, Rows(selected', known))}

(* The user picks a source: the refresh runs when the handler is done.     *)
ChooseSource(s) ==
  /\ choices < MaxChoices /\ choices' = choices + 1
  /\ selected # Compare /\ s # selected
  /\ selected' = s /\ later' = TRUE
  /\ UNCHANGED <<version, history, catalogTimer, catalog, catalogRequest,
                 catalogLoading, seriesRequest, loading, series, workers,
                 failures>>

CallLater ==
  /\ later /\ later' = FALSE
  /\ UNCHANGED selected
  /\ Refresh(catalog, workers)
  /\ UNCHANGED <<version, history, catalogTimer, catalog, catalogRequest,
                 catalogLoading, choices, failures>>

(* The user picks a range or a metric, switches to comparing, or follows a *)
(* link to a source.                                                       *)
ChooseNow(choice) ==
  /\ choices < MaxChoices /\ choices' = choices + 1
  /\ selected' = choice
  /\ Refresh(catalog, workers)
  /\ UNCHANGED <<version, history, later, catalogTimer, catalog, catalogRequest,
                 catalogLoading, failures>>

(* Mutant: a change is noticed only when no catalog is being loaded.       *)
ChangeWhenIdle(h) ==
  /\ version < MaxChanges /\ version' = version + 1
  /\ h # history /\ history' = h
  /\ catalogTimer' = (catalogTimer \/ ~catalogLoading)
  /\ UNCHANGED <<view, workers, choices, failures>>

(* Values are recorded or pruned, and observationsChanged restarts         *)
(* catalogRefreshTimer.                                                    *)
Change(h) ==
  /\ version < MaxChanges /\ version' = version + 1
  /\ h # history /\ history' = h
  /\ catalogTimer' = TRUE
  /\ UNCHANGED <<view, workers, choices, failures>>

(* refreshCatalog, when the timer fires                                    *)
RefreshCatalog ==
  /\ catalogTimer /\ catalogTimer' = FALSE
  /\ catalogRequest' = catalogRequest + 1
  /\ catalogLoading' = TRUE
  /\ workers' = workers \union {Worker("catalog", catalogRequest + 1, {})}
  /\ UNCHANGED <<version, history, selected, later, catalog, seriesRequest,
                 loading, series, choices, failures>>

-----------------------------------------------------------------------------
(* The worker threads and what becomes of their answers *)

(* A worker thread reads with a database object of its own; it fails when  *)
(* that cannot be opened.                                                  *)
RunQuery(w, found) ==
  /\ ~w.done
  /\ \E ok \in BOOLEAN :
       /\ ok \/ failures < MaxFailures
       /\ failures' = failures + (IF ok THEN 0 ELSE 1)
       /\ workers' = (workers \ {w}) \union
            {[w EXCEPT !.done = TRUE,
                       !.answer = [ok |-> ok, version |-> version,
                                   of |-> IF ok THEN found ELSE {}]]}
  /\ UNCHANGED <<version, history, catalogTimer, view, choices>>

(* getHistoryCatalog: the sources with stored values and their metrics     *)
RunCatalog(w) == w.kind = "catalog" /\ RunQuery(w, history)

(* getHistorySeries, of the sources asked for                              *)
RunSeries(w) == w.kind = "series" /\ RunQuery(w, w.rows)

(* The finished handler of requestHistoryCatalog, and acceptCatalog        *)
DeliverCatalog(w) ==
  /\ w.done /\ w.kind = "catalog"
  /\ IF w.id = catalogRequest
     THEN /\ catalogLoading' = FALSE
          /\ catalog' = w.answer.of
          /\ UNCHANGED selected
          /\ Refresh(w.answer.of, workers \ {w})
     ELSE /\ workers' = workers \ {w}
          /\ UNCHANGED <<selected, catalog, catalogLoading, seriesRequest,
                         loading, series>>
  /\ UNCHANGED <<version, history, later, catalogTimer, catalogRequest,
                 choices, failures>>

(* Mutant: the answer of a superseded series query is accepted.            *)
DeliverAnySeries(w) ==
  /\ w.done /\ w.kind = "series"
  /\ workers' = workers \ {w}
  /\ loading' = FALSE /\ series' = w.answer
  /\ UNCHANGED <<version, history, catalogTimer, selected, later, catalog,
                 catalogRequest, catalogLoading, seriesRequest,
                 choices, failures>>

(* The finished handler of requestHistorySeries, and acceptSeries          *)
DeliverSeries(w) ==
  /\ w.done /\ w.kind = "series"
  /\ workers' = workers \ {w}
  /\ IF w.id = seriesRequest
     THEN loading' = FALSE /\ series' = w.answer
     ELSE UNCHANGED <<loading, series>>
  /\ UNCHANGED <<version, history, catalogTimer, selected, later, catalog,
                 catalogRequest, catalogLoading, seriesRequest,
                 choices, failures>>

Loop ==
  \/ CallLater \/ RefreshCatalog
  \/ \E w \in workers : RunCatalog(w) \/ RunSeries(w) \/ DeliverCatalog(w) \/ DeliverSeries(w)

Next ==
  \/ \E s \in Sources : ChooseSource(s)
  \/ \E c \in Selections : ChooseNow(c)
  \/ \E h \in SUBSET Sources : Change(h)
  \/ Loop

Spec == Init /\ [][Next]_vars

(* The event loop and the thread pool run what is queued.                  *)
FairSpec == Spec /\ WF_vars(Loop)

-----------------------------------------------------------------------------
(* Properties *)

Asked == Rows(selected, catalog)

(* Types; a view that is loading waits for a worker that will answer it.   *)
TypeOK ==
  /\ {version, catalogRequest, seriesRequest, choices, failures} \subseteq Nat
  /\ history \subseteq Sources /\ catalog \subseteq Sources /\ selected \in Selections
  /\ {later, catalogTimer, loading, catalogLoading} \subseteq BOOLEAN
  /\ series \in [ok : BOOLEAN, of : SUBSET Sources, version : Nat]
  /\ loading => \E w \in workers : w.kind = "series" /\ w.id = seriesRequest
  /\ catalogLoading => \E w \in workers : w.kind = "catalog" /\ w.id = catalogRequest

(* The catalog never goes back to an older one though the answers of its   *)
(* queries overtake each other: while nothing changed since the last       *)
(* request was answered, the catalog is the history                        *)
(* (usagedatabase.cpp, m_latestHistoryCatalogRequestId).                   *)
CatalogIsCurrent ==
  ~catalogLoading /\ ~catalogTimer /\ failures = 0 => catalog = history

(* A chart that is not loading shows what is selected, whenever the        *)
(* selection has anything to show: an older request never replaces a newer *)
(* one (HistoryController.qml, acceptSeries).                              *)
ShowsTheSelection ==
  ~later /\ ~loading /\ series.ok /\ Asked # {} => series.of = Asked

(* Once history and selection rest, so do the indicators, the catalog is   *)
(* the last history, and the chart shows it, unless a query failed         *)
(* (HistoryView.qml, catalogRefreshTimer).                                 *)
Settled ==
  /\ ~loading /\ ~catalogLoading
  /\ failures = 0 =>
       /\ catalog = history
       /\ Asked # {} => series = [ok |-> TRUE, of |-> Asked, version |-> version]
Settles == <>[]Settled
=============================================================================
