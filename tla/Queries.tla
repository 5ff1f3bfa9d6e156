------------------------------- MODULE Queries -------------------------------
(***************************************************************************)
(* What the window shows of its workers' answers: forecasts (extended),    *)
(* the history view, the series it draws, the analyst view and the         *)
(* activity of local tools, and the daily state of the sources.  They      *)
(* share the event loop that delivers the answers, and no state.           *)
(***************************************************************************)
EXTENDS ForecastQueries

CONSTANTS
  HistorySources, HistoryChanges, MaxChoices, MaxFailures,      \* of the history view
  To, Base, MaxPoints, Qualities, SampleValues, MaxSamples,     \* of a series
  Periods, Selects, MaxVisits, AnalystRequests, AnalystChanges,  \* of the analyst view
  Entries, Folders, Parent, Root,                               \* of a tool's files
  FileChanges, MaxSuperseded, RefusedWatches,
  Providers, Tool, SourceChanges, MaxTime                       \* of the daily state

(* Every entry is in the folder that is watched or in one of its folders.  *)
ASSUME EntriesAssumption ==
  /\ IsFiniteSet(Entries) /\ Folders \subseteq Entries /\ Root \notin Entries
  /\ Parent \in [Entries -> Folders \cup {Root}]

ASSUME SeriesAssumption ==
  /\ To \in Nat /\ Base \in Nat \ {0} /\ MaxPoints \in Nat \ {0} /\ SampleValues \subseteq Int

(* A provider is known by its place in the list.                           *)
ASSUME SourcesAssumption ==
  /\ IsFiniteSet(Providers) /\ Providers \subseteq Int
  /\ Tool \notin Providers /\ MaxTime \in Nat

VARIABLES
  \* HistorySeries
  sVersion, sHistory, selected, later, catalogTimer, catalog, catalogRequest,
  catalogLoading, seriesRequest, sLoading, series, sWorkers, choices, sFailures,
  samples,    \* HistoryBuckets
  \* AnalystQueries
  aVersion, visits, open, aGeneration, displayId, aLoading, reportId, reportDays,
  snapshot, report, latest, aSerial, aWorkers,
  \* LocalActivity
  disk, clock, present, lEnabled, installed, m, superseded, event, lFailures, uncounted, owed,
  world, now, inputs, drawn    \* DailyState

History == INSTANCE HistorySeries WITH
       Sources <- HistorySources, MaxChanges <- HistoryChanges,
       version <- sVersion, history <- sHistory, loading <- sLoading,
       workers <- sWorkers, failures <- sFailures
Chart == INSTANCE HistoryBuckets WITH Values <- SampleValues
Insights == INSTANCE AnalystQueries WITH
       Queries <- Selects, MaxRequests <- AnalystRequests, MaxChanges <- AnalystChanges,
       version <- aVersion, generation <- aGeneration, loading <- aLoading,
       serial <- aSerial, workers <- aWorkers
Local == INSTANCE LocalActivity WITH
       MaxChanges <- FileChanges, MaxFailures <- RefusedWatches,
       enabled <- lEnabled, failures <- lFailures
Daily == INSTANCE DailyState WITH MaxInputs <- SourceChanges

(* Whatever the order of the answers, the chart shows the selection, the   *)
(* catalog the history, and a report the period it was asked for           *)
(* (usagedatabase.cpp, the latest request of each kind).                   *)
ViewsAreCurrent == History!CatalogIsCurrent /\ History!ShowsTheSelection /\ Insights!ReportOfItsPeriod

(* A series counts every interval once, shows the latest gauge of each     *)
(* bucket and a gap exactly where nothing was observed, in a bounded       *)
(* number of buckets (usagedatabase.cpp, getHistorySeries and              *)
(* buildHistorySeriesPayload).                                             *)
SeriesIsFaithful == Chart!SeriesIsFaithful

(* Activity is counted only for changes since the watch began, and a watch *)
(* that does not say it is incomplete has every file the last scan found   *)
(* (localactivitymonitorbase.cpp, requestScan).                            *)
ActivityIsCounted == Local!ActivityIsCounted

(* Whatever the sources report, and however late, the rows count nothing   *)
(* that is old, the first is the most urgent and their spend adds up       *)
(* (dailystatemodel.cpp, rebuild).                                         *)
DailyStateIsSound == Daily!DailyStateIsSound
=============================================================================
