------------------------------ MODULE MCQueries ------------------------------
(***************************************************************************)
(* What the window shows, for TLC: forecasts (extended), the history view, *)
(* the series it draws, the analyst view, the daily state and the activity *)
(* of local tools.  They share no state, so a behaviour runs one of them,  *)
(* the one checked, and leaves the others as they start.                   *)
(***************************************************************************)
EXTENDS Queries

VARIABLE checked

(* One file in the tool's folder, another in a folder of it.               *)
Containment == [settings |-> "tool", log |-> "sessions", sessions |-> "tool"]

sVars == <<sVersion, sHistory, selected, later, catalogTimer, catalog, catalogRequest,
           catalogLoading, seriesRequest, sLoading, series, sWorkers, choices, sFailures>>
aVars == <<aVersion, visits, open, aGeneration, displayId, aLoading, reportId, reportDays,
           snapshot, report, latest, aSerial, aWorkers>>
dVars == <<world, now, inputs, drawn>>
lVars == <<disk, clock, present, lEnabled, installed, m, superseded, event, lFailures,
           uncounted, owed>>
all == <<checked, vars, sVars, samples, aVars, dVars, lVars>>

MCInit ==
  /\ checked \in {"forecasts", "series", "buckets", "analyst", "daily", "activity"}
  /\ Init /\ History!Init /\ Chart!Init /\ Insights!Init /\ Daily!Init /\ Local!Init
  /\ checked # "series" => sHistory = {} /\ selected = "openai"
  /\ world.enabled = IF checked = "daily" THEN Daily!Sources ELSE {}
  /\ IF checked = "activity" THEN disk.settings # Local!Absent ELSE ~present /\ disk = Local!Unknown

Forecasts == checked = "forecasts" /\ UNCHANGED <<checked, sVars, samples, aVars, dVars, lVars>>
Series == checked = "series" /\ UNCHANGED <<checked, vars, samples, aVars, dVars, lVars>>
Buckets == checked = "buckets" /\ UNCHANGED <<checked, vars, sVars, aVars, dVars, lVars>>
Analyst == checked = "analyst" /\ UNCHANGED <<checked, vars, sVars, samples, dVars, lVars>>
Today == checked = "daily" /\ UNCHANGED <<checked, vars, sVars, samples, aVars, lVars>>
Activity == checked = "activity" /\ UNCHANGED <<checked, vars, sVars, samples, aVars, dVars>>

MCNext ==
  \/ Forecasts /\ Next
  \/ Series /\ History!Next
  \/ Buckets /\ Chart!Next
  \/ Analyst /\ Insights!Next
  \/ Today /\ Daily!Next
  \/ Activity /\ Local!Next

MCSpec ==
  /\ MCInit /\ [][MCNext]_all
  /\ WF_all(Forecasts /\ PruneReported) /\ WF_all(Forecasts /\ Start)
  /\ WF_all(Forecasts /\ Workers)
  /\ WF_all(Series /\ History!Loop)
  /\ WF_all(Analyst /\ Insights!Answering)
  /\ WF_all(Today /\ Daily!Present)
  /\ WF_all(Activity /\ Local!EventArrives) /\ WF_all(Activity /\ Local!DebounceFires)
  /\ WF_all(Activity /\ Local!Reads) /\ WF_all(Activity /\ Local!ScanFinished)

-----------------------------------------------------------------------------
(* The properties of the modules, each of the component that is checked    *)

(* Once nothing changes any more every view shows the last state, no       *)
(* indicator or action is stuck, and a change a watch told of is scanned.  *)
QueriesSettle ==
  /\ <>[](/\ checked = "forecasts" => Settled
          /\ checked = "series" => History!Settled
          /\ checked = "daily" => Daily!IsOfNow)
  /\ []<>(checked = "analyst" => ~aLoading)
  /\ []<>(/\ checked = "analyst" => reportId = Insights!None
          /\ checked = "activity" => Local!NothingOwed)
=============================================================================
