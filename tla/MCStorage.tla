------------------------------ MODULE MCStorage ------------------------------
(***************************************************************************)
(* What is kept on disk, for TLC: the parts of Storage, and what two       *)
(* shells record of refreshes (its instance is about a forecast).  They    *)
(* share no state, so a behaviour runs one of them, the one checked, and   *)
(* leaves the others as they start.                                        *)
(***************************************************************************)
EXTENDS Storage

VARIABLE checked

Refreshes == INSTANCE HistoryRecording WITH
               Values <- {"v1"}, MaxRecords <- 2, MaxChanges <- 1,
               MaxFaults <- 1, MaxRestarts <- 0, pc <- rPc, faults <- rFaults

all == <<checked, vars, mVars, oVars, rVars>>

MCInit ==
  /\ checked \in {"catalog", "upgrade", "operations", "forecasts", "refreshes"}
  /\ Init /\ Upgrade!Init /\ Operations!Init /\ Recording!Init
  /\ checked # "upgrade" => version = 9 /\ rows = {}

Catalog == checked = "catalog" /\ UNCHANGED <<checked, mVars, oVars, rVars>>
InUpgrade == checked = "upgrade" /\ UNCHANGED <<checked, vars, oVars, rVars>>
InOperations == checked = "operations" /\ UNCHANGED <<checked, vars, mVars, rVars>>
InForecasts == checked = "forecasts" /\ UNCHANGED <<checked, vars, mVars, oVars>>
InRefreshes == checked = "refreshes" /\ UNCHANGED <<checked, vars, mVars, oVars>>

MCNext ==
  \/ Catalog /\ Next
  \/ InUpgrade /\ Upgrade!Next
  \/ InOperations /\ Operations!Next
  \/ InForecasts /\ Recording!Next
  \/ InRefreshes /\ Refreshes!Next

MCSpec ==
  /\ MCInit /\ [][MCNext]_all
  /\ WF_all(InUpgrade /\ Upgrade!Step("c1"))
  /\ WF_all(InOperations /\ Operations!Workers)
  /\ \A c \in Shells :
       /\ WF_all(InForecasts /\ Recording!Step(c))
       /\ WF_all(InForecasts /\ Recording!Process(c))
       /\ WF_all(InForecasts /\ Recording!CooldownEnds(c))
  /\ WF_all(InForecasts /\ Recording!QuietEnds)

-----------------------------------------------------------------------------
(* The properties that are checked and not proved *)

(* An upgrade that is retried gets done, no operation stays locked or page *)
(* busy, and an alarm that lasts is stored.                                *)
WorkEnds ==
  /\ checked = "upgrade" => Upgrade!UpToDate
  /\ checked = "operations" => Operations!Settles
  /\ checked = "forecasts" => Recording!AlarmsAreStored
=============================================================================
