------------------------- MODULE SubscriptionUsage -------------------------
(***************************************************************************)
(* What a subscription card counts and shows: the usage counter of a       *)
(* period and the synced quota windows of                                  *)
(* plugin/subscriptiontoolbackend.cpp.                                     *)
(*                                                                         *)
(* The counter is fed by local activity and overwritten by a sync, and     *)
(* starts again when its period ends, which a timer, or the next activity, *)
(* notices late.  The windows are merged from answers that may be          *)
(* malformed, and each is fresh, stale or past its reset by the clock,     *)
(* which the user may set back.                                            *)
(***************************************************************************)
EXTENDS Integers, Sequences, FiniteSetsExt

CONSTANTS
  Monthly,       \* the period ends on a day of the month, else after Length
  Length,        \* of a rolling period
  DayLength,     \* units of time in a day
  MonthLengths,  \* the calendar: days of each month
  Windows,       \* identities of quota windows: kind, window, scope, source
  FreshFor,      \* 15 minutes
  MaxTime,       \* bound: the last moment
  MaxUsage       \* bound: activity counted in a period

Never == -1
Times == 0 .. MaxTime
Months == DOMAIN MonthLengths
ResetDays == 1 .. Min({MonthLengths[m] : m \in Months})

(* What an answer may say of a window, as percentUsed or percentRemaining: *)
(* a share, nothing, or something that is no share.                        *)
Absent == -1
Unusable == -2
Figures == {Absent, Unusable, 40, 60}

(* The use a sync may report; activity alone never counts that far.        *)
Reported == {0, MaxUsage + 2}

VARIABLES
  enabled,   \* m_enabled: the timer of sixty seconds runs
  count,     \* m_usageCount
  start,     \* m_periodStart
  resetDay,  \* m_monthlyResetDay
  promised,  \* the end of the window the synced count is of, or Never
  quota,     \* m_syncedQuotaWindows
  now

vars == <<enabled, count, start, resetDay, promised, quota, now>>
counter == <<count, start, promised>>

-----------------------------------------------------------------------------
(* Periods *)

DaysBefore[m \in 0 .. Len(MonthLengths)] ==
  IF m = 0 THEN 0 ELSE DaysBefore[m - 1] + MonthLengths[m]

Day(t) == t \div DayLength
MonthOf(t) == CHOOSE m \in Months :
                Day(t) \in DaysBefore[m - 1] .. (DaysBefore[m] - 1)
DayOfMonth(t) == Day(t) - DaysBefore[MonthOf(t) - 1] + 1
Midnight(m, day) == (DaysBefore[m - 1] + day - 1) * DayLength

(* calculatePeriodEnd                                                      *)
PeriodEnd(t) ==
  IF ~Monthly THEN t + Length
  ELSE Midnight(MonthOf(t) + (IF DayOfMonth(t) < resetDay THEN 0 ELSE 1), resetDay)

Over == now >= PeriodEnd(start)

Init ==
  /\ enabled = TRUE
  /\ count = 0 /\ start = 0 /\ promised = Never
  /\ resetDay \in ResetDays
  /\ quota = [w \in Windows |-> [used |-> Absent, at |-> Never, reset |-> Never]]
  /\ now = 0

-----------------------------------------------------------------------------
(* The counter *)

(* Mutant: the activity is counted before the period is checked.           *)
IncrementThenCheck ==
  /\ count < MaxUsage
  /\ count' = count + 1
  /\ UNCHANGED <<enabled, start, promised, resetDay, quota, now>>

(* incrementUsage, on local activity: the period is checked first.         *)
IncrementUsage ==
  /\ count < MaxUsage
  /\ IF Over THEN count' = 1 /\ start' = now /\ promised' = Never
             ELSE count' = count + 1 /\ UNCHANGED <<start, promised>>
  /\ UNCHANGED <<enabled, resetDay, quota, now>>

(* The timer: checkAndResetPeriod.                                         *)
CheckAndResetPeriod ==
  /\ enabled
  /\ Over
  /\ count' = 0 /\ start' = now /\ promised' = Never
  /\ UNCHANGED <<enabled, resetDay, quota, now>>

(* A sync reports the use and mostly the end of the current window.         *)
SyncUsage(used, end) ==
  /\ enabled
  /\ ~Monthly
  /\ count' = used /\ promised' = end
  /\ start' = IF end = Never THEN start ELSE end - Length
  /\ UNCHANGED <<enabled, resetDay, quota, now>>

SetMonthlyResetDay(d) ==
  /\ Monthly
  /\ d # resetDay
  /\ resetDay' = d
  /\ UNCHANGED <<enabled, counter, quota, now>>

SetEnabled(b) ==
  /\ b # enabled
  /\ enabled' = b
  /\ UNCHANGED <<counter, resetDay, quota, now>>

(* Time passes, or the clock is set back.                                  *)
Tick(t) ==
  /\ t \in {now - 1, now + 1} \cap Times
  /\ now' = t
  /\ UNCHANGED <<enabled, counter, resetDay, quota>>

-----------------------------------------------------------------------------
(* The synced windows *)

(* A row counts when it has a figure, none is unusable, and two agree.     *)
Usable(used, remaining) ==
  /\ {used, remaining} # {Absent}
  /\ Unusable \notin {used, remaining}
  /\ Absent \notin {used, remaining} => used + remaining = 100

UsedShare(used, remaining) == IF used # Absent THEN used ELSE 100 - remaining

(* setSyncedQuotaWindows: a row replaces the row of the same window.       *)
MergeWindow(w, used, remaining, reset) ==
  /\ Usable(used, remaining)
  /\ quota' = [quota EXCEPT ![w] =
       [used |-> UsedShare(used, remaining), at |-> now, reset |-> reset]]
  /\ UNCHANGED <<enabled, counter, resetDay, now>>

(* Mutant: an observation from the future, after the clock was set back,   *)
(* is taken for fresh.                                                     *)
FreshnessByAge(w) ==
  IF quota[w].at = Never THEN "never_observed"
  ELSE IF quota[w].reset \in 0 .. now THEN "awaiting_refresh"
  ELSE IF now - quota[w].at >= FreshFor THEN "stale" ELSE "fresh"

(* quotaWindowsAt                                                          *)
Freshness(w) ==
  IF quota[w].at = Never THEN "never_observed"
  ELSE IF quota[w].reset \in 0 .. now THEN "awaiting_refresh"
  ELSE IF quota[w].at > now \/ now - quota[w].at >= FreshFor THEN "stale" ELSE "fresh"

(* The windows hasFreshQuota, alerts and totals count.                     *)
Available == {w \in Windows : Freshness(w) = "fresh"}

Next ==
  \/ IncrementUsage \/ CheckAndResetPeriod
  \/ \E used \in Reported, end \in {Never} \cup (now + 1) .. (now + Length) : SyncUsage(used, end)
  \/ \E d \in ResetDays : SetMonthlyResetDay(d)
  \/ \E b \in BOOLEAN : SetEnabled(b)
  \/ \E t \in Times : Tick(t)
  \/ \E w \in Windows, used, remaining \in Figures, reset \in {Never, now + 1} :
       MergeWindow(w, used, remaining, reset)

Spec == Init /\ [][Next]_vars

(* The timer of an enabled monitor keeps firing.                           *)
FairSpec == Spec /\ WF_vars(CheckAndResetPeriod)

-----------------------------------------------------------------------------
(* Properties *)

(* Every variable stays in its domain.                                     *)
TypeOK ==
  /\ enabled \in BOOLEAN
  /\ count \in 0 .. (MaxUsage + 2)
  /\ start \in (1 - Length) .. MaxTime
  /\ promised \in Int
  /\ resetDay \in ResetDays
  /\ quota \in [Windows -> [used : {Absent} \cup 0 .. 100, at : Times \cup {Never},
                            reset : {Never} \cup 1 .. (MaxTime + 1)]]
  /\ now \in Times

(* calculatePeriodEnd: a monthly period ends at the first midnight of a    *)
(* reset day after the day it began on, whatever the months' lengths.      *)
PeriodEndIsNextReset ==
  Monthly =>
    PeriodEnd(start) = Min({t \in {Midnight(m, resetDay) : m \in Months} :
                              Day(t) > Day(start)})

(* Activity is counted in the period it falls into, not added to the       *)
(* counter of a period that is over.                                       *)
CountInItsPeriod == count' = count + 1 /\ count > 0 /\ promised' = promised => ~Over
CountedInItsPeriod == [][CountInItsPeriod]_vars

(* The counter of an enabled monitor does not outlive its period.          *)
CountedInTime == enabled => ~Over
PeriodsEnd == []<>CountedInTime

(* A synced count is not wiped before the end the service reported for its *)
(* window: until then the period is not over.                              *)
SyncedCountKept == now < promised => ~Over

(* An available window was observed less than FreshFor ago, before its     *)
(* reset, also when the clock was set back.                                *)
AvailableIsCurrent ==
  \A w \in Available :
    /\ quota[w].at \in (now - FreshFor + 1) .. now
    /\ quota[w].reset \notin 0 .. now

(* subscriptiontoolbackend.cpp:857: empty or malformed responses cannot    *)
(* refresh evidence - what counts as observed always has a figure.         *)
OnlyFiguresRefresh ==
  \A w \in Windows : quota[w].at # Never => quota[w].used # Absent
=============================================================================
