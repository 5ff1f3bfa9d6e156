-------------------------------- MODULE Tools --------------------------------
(***************************************************************************)
(* When a source is asked and what its card shows of the answers: the      *)
(* syncs of the subscription tools (extended), the usage periods and quota *)
(* windows of a monitor, rolling and monthly, the sync with the local      *)
(* server of Antigravity, the import of session logs and the requests for  *)
(* it, and the refresh schedule of a provider.  They share the widget that *)
(* starts them, and no state.                                              *)
(***************************************************************************)
EXTENDS SubscriptionSync, Sequences, FiniteSets

CONSTANTS
  MaxUsage,
  RollingLength, Windows, FreshFor, RollingTime,             \* of a rolling period
  MonthLengths, DayLength, CalendarTime,                     \* of a monthly one
  Ports, Hosts, Models, Buckets, Window, Percentages,        \* of Antigravity
  Critical, Warning, MaxSyncs,
  OpenInterval, ClosedInterval, Jitter, RetryAfters,         \* of the schedule
  Paths, Budget, Share, MaxWrites, MaxDisrupted,             \* of the session logs
  MaxImports, MaxImportFailures                              \* of the requests

ASSUME ScheduleAssumption ==
  /\ OpenInterval \in Nat /\ ClosedInterval \in Nat /\ Jitter \in Nat
  /\ RetryAfters \subseteq Nat

VARIABLES
  \* SubscriptionUsage, rolling and monthly
  uEnabled, count, start, resetDay, promised, uQuota, uNow,
  mEnabled, mCount, mStart, mResetDay, mPromised, mQuota, mNow,
  \* AntigravitySync
  aEnabled, installed, aSyncing, aGeneration, pending, attempt, aCalls, aState, code,
  synced, aShown, maximum, band,
  \* RefreshSchedule
  popup, net, seenOffline, recovery, hasKey, loading, error, hold,
  lastSuccess, lastAttempt, dueAt, refreshTimer,
  \* SessionImport
  logTool, disk, total, written, horizon, db, cursors, job, disrupted, spent,
  \* SessionRequests
  iGeneration, iEnabled, request, requestGen, outcome, again, shown, clearing,
  lock, iFailures, read

Rolling == INSTANCE SubscriptionUsage WITH
       Monthly <- FALSE, Length <- RollingLength, DayLength <- 1,
       MaxTime <- RollingTime, enabled <- uEnabled, quota <- uQuota, now <- uNow
Monthly == INSTANCE SubscriptionUsage WITH
       Monthly <- TRUE, Length <- 1, Windows <- {}, FreshFor <- 1, MaxTime <- CalendarTime,
       enabled <- mEnabled, count <- mCount, start <- mStart, resetDay <- mResetDay,
       promised <- mPromised, quota <- mQuota, now <- mNow
Antigravity == INSTANCE AntigravitySync WITH
       Figures <- Percentages, MaxGenerations <- MaxSyncs,
       enabled <- aEnabled, syncing <- aSyncing, generation <- aGeneration,
       calls <- aCalls, shown <- aShown, state <- aState
Schedule == INSTANCE RefreshSchedule WITH timer <- refreshTimer
Logs == INSTANCE SessionImport WITH
       tool <- logTool, now <- written, MaxTime <- MaxWrites
Requests == INSTANCE SessionRequests WITH
       MaxGenerations <- MaxImports, MaxFailures <- MaxImportFailures,
       generation <- iGeneration, enabled <- iEnabled, failures <- iFailures

(* The months that are modelled go on after the last moment, so that every *)
(* period that begins has its reset day in the calendar.                   *)
ASSUME UsageAssumption ==
  /\ MaxUsage \in Nat /\ RollingLength \in Nat \ {0} /\ FreshFor \in Nat /\ RollingTime \in Nat
  /\ MonthLengths \in Seq(Nat \ {0}) /\ MonthLengths # <<>>
  /\ DayLength \in Nat \ {0} /\ CalendarTime \in Nat
  /\ CalendarTime < Monthly!Midnight(Len(MonthLengths), 1)

(* The models and the shared quotas of an account are told in some order.  *)
ASSUME AntigravityAssumption ==
  /\ "127.0.0.1" \in Hosts /\ IsFiniteSet(Hosts) /\ IsFiniteSet(Ports) /\ Ports \subseteq Nat
  /\ Models \in Seq(STRING) /\ Buckets \in Seq(STRING)
  /\ Window \in [DOMAIN Buckets -> {"5h", "weekly"}]
  /\ Percentages \subseteq 0 .. 100 /\ Critical \in Nat /\ Warning \in Nat
  /\ MaxSyncs \in Nat

(* A sync starts only when the last failure allows it, and a refused login *)
(* is not sent again by itself (subscriptiontoolbackend.cpp, canAutoSync;  *)
(* codexclimonitor.cpp, canAutoSyncFromLocalAuth).                         *)
SyncsWhenAllowed == [][AllowedStart /\ RefusedWaits]_vars

(* Activity is counted in the period it falls into                         *)
(* (subscriptiontoolbackend.cpp, incrementUsage).                          *)
CountedInItsPeriod == Rolling!CountedInItsPeriod /\ Monthly!CountedInItsPeriod

(* What a usage card shows is of now: a monthly period ends at the next    *)
(* reset midnight, a synced count lives until its end, and a quota window  *)
(* that counts is young, not reset and has a figure (calculatePeriodEnd,   *)
(* quotaWindowsAt, setSyncedQuotaWindows).                                 *)
PeriodsAreCurrent ==
  /\ Monthly!PeriodEndIsNextReset
  /\ Rolling!SyncedCountKept /\ Rolling!AvailableIsCurrent /\ Rolling!OnlyFiguresRefresh

(* Besides, a sync of Antigravity waits for one reply, that of its own     *)
(* generation, and fails only when every endpoint was asked                *)
(* (antigravitymonitor.cpp, tryNextEndpoint).                              *)
UsageIsCurrent ==
  /\ PeriodsAreCurrent
  /\ Antigravity!TypeOK /\ Antigravity!OneCallPerSync /\ Antigravity!EveryEndpointAsked

(* A provider's timer is set for the deadline it shows, and that for the   *)
(* state of the moment, whatever changed it (RefreshScheduler.qml).        *)
DeadlineIsCurrent == Schedule!DeadlineIsCurrent

(* What is imported of the session logs is what they hold: no token twice, *)
(* none left out of what is called reported, no message that was reported  *)
(* in two ways, and none shown as read that was not (localsessionmodel).   *)
ImportIsFaithful == Logs!ImportIsFaithful /\ Requests!OutcomeIsCurrent
=============================================================================
