--------------------------- MODULE BudgetDelivery ---------------------------
(***************************************************************************)
(* Budget policy notifications: the persisted store of one policy          *)
(* (plugin/budgetpolicyrepository.cpp), the QML controller that drives it  *)
(* (NotificationController.qml) and the webhook notifier it hands messages *)
(* to (plugin/webhooknotifier.cpp).                                        *)
(*                                                                         *)
(* An evaluation of a forecast writes the policy's recorded state and its  *)
(* transition events in one transaction, then hands every deliverable      *)
(* event to the channels, one transaction per call.  The controller runs   *)
(* to completion on the UI thread (work, due), a process may die between   *)
(* any two transactions, and webhook replies come back later.  Time is     *)
(* counted in minutes; a lease of max(60 s, cooldown) + 15 s is rounded up *)
(* to the next minute.                                                     *)
(***************************************************************************)
EXTENDS Integers, FiniteSets

CONSTANTS
  Levels,       \* risky forecast states ("warning", "critical", "exceeded")
  Kde,          \* the desktop notification channel, always enabled
  Webhooks,     \* the webhook channels (slack, discord)
  Cooldown,     \* channel -> its cooldown in minutes
  RetryAfters,  \* values a Retry-After header may carry, in minutes
  PeriodLen,    \* length of a budget period
  Modes,        \* notification modes the user switches between
  Initial,      \* the policy rows a run may start from
  MaxTime,      \* bound: the last minute modelled
  MaxCrashes,   \* bound: process deaths
  MaxApplies,   \* bound: times the settings dialog replaces the policies
  LateReplies   \* TRUE: a reply may outlive its lease (suspend to RAM)

Channels == Webhooks \cup {Kde}
MaxAttempts == 3
Never == -1

Transitions == Levels \cup {"recovered", "period_reset"}
States == Levels \cup {"safe", "unavailable"}
Periods == 0 .. MaxTime \div PeriodLen
Events == Periods \X Transitions       \* the deduplication keys of the policy
Slots == Events \X Channels            \* rows of budget_policy_deliveries

ASSUME BudgetAssumption ==
  /\ {"safe", "unavailable", "recovered", "period_reset", "none"} \cap Levels = {}
  /\ Kde \notin Webhooks
  /\ Cooldown \in [Channels -> Nat]
  /\ RetryAfters \subseteq Nat
  /\ PeriodLen \in Nat \ {0}
  /\ MaxTime \in Nat
  /\ Modes \subseteq {"none", "dnd", "off"}
  /\ Initial \subseteq [notify : BOOLEAN, snooze : Nat]
  /\ MaxCrashes \in Nat
  /\ MaxApplies \in Nat
  /\ LateReplies \in BOOLEAN

Suppressed == {"suppressed", "superseded"}
EventStatus == {"none", "pending", "delivered", "failed"} \cup Suppressed
Open == {"pending", "in_flight"}
SlotStatus == {"none", "delivered", "failed", "suppressed"} \cup Open

Policy == [notify : BOOLEAN, snooze : Nat]        \* snooze 0: not snoozed
Forecast == [level : States, period : Periods, at : Nat]
NoForecast == [level |-> "none", period |-> Never, at |-> 0]
NoRecord == [level |-> "none", period |-> Never]

VARIABLES
  now,
  \* the database, shared by the widget and the settings dialog
  row, recorded, event, delivery, attempts, nextAt, lastAt, epoch,
  \* the widget: its copy of the policy, its configuration and forecast
  cached, mode, enabled, forecast,
  \* the controller's loops over events and over due channels
  work, due,
  \* webhook requests not answered yet, and acceptances the widget has seen
  posts, taken,
  crashes

store == <<recorded, event, delivery, attempts, nextAt, lastAt>>
widget == <<cached, mode, enabled, forecast>>
vars == <<now, row, store, epoch, widget, work, due, posts, taken, crashes>>

-----------------------------------------------------------------------------
(* Helpers *)

PeriodAt(t) == t \div PeriodLen
PeriodEnd(p) == (p + 1) * PeriodLen
Idle == work = {} /\ due = {}
Max2(a, b) == IF a < b THEN b ELSE a

Init ==
  /\ now = 0
  /\ row \in Initial
  /\ cached = row
  /\ recorded = NoRecord
  /\ event = [e \in Events |-> "none"]
  /\ delivery = [s \in Slots |-> "none"]
  /\ attempts = [s \in Slots |-> 0]
  /\ nextAt = [s \in Slots |-> 0]
  /\ lastAt = [c \in Channels |-> Never]
  /\ epoch = 0
  /\ mode \in Modes
  /\ enabled \in SUBSET Webhooks
  /\ forecast = NoForecast
  /\ work = {}
  /\ due = {}
  /\ posts = {}
  /\ taken = {}
  /\ crashes = 0

-----------------------------------------------------------------------------
(* prepareTransitions: one transaction over the policy's state and events *)

(* Mutant: the snooze is not looked at.                                    *)
SuppressionUnsnoozed(f) == IF ~cached.notify THEN "off" ELSE mode

(* Why an evaluation may not notify: a live snooze outranks the policy's   *)
(* own switch, which outranks the controller's reason.  Both come from the *)
(* widget's cached policies and from the forecast's own time.              *)
Suppression(f) ==
  IF cached.snooze > f.at THEN "snoozed"
  ELSE IF ~cached.notify THEN "off"
  ELSE mode

PeriodChanged(f) == recorded.period # Never /\ recorded.period # f.period

LevelRaised(f) ==
  f.level \in Levels /\ (PeriodChanged(f) \/ recorded.level # f.level)

HasRecovered(f) ==
  ~PeriodChanged(f) /\ f.level = "safe" /\ recorded.level \in Levels

Active(f) ==
  {t \in Transitions : \/ t = f.level /\ LevelRaised(f)
                       \/ t = "recovered" /\ HasRecovered(f)}

Raised(f) ==
  Active(f) \cup {t \in {"period_reset"} : PeriodChanged(f)}

(* Mutant: a new announcement leaves the older one pending.                *)
EventsAfterUnsuperseded(f, why) ==
  [e \in Events |->
     LET open == event[e] = "pending"
                   \/ (event[e] = "none" /\ e[1] = f.period /\ e[2] \in Raised(f))
     IN  IF ~open THEN event[e]
         ELSE IF e[1] # f.period \/ why \notin {"none", "dnd"} THEN "suppressed"
         ELSE "pending"]

(* Mutant: events of other periods are left alone.                         *)
EventsAfterUnexpired(f, why) ==
  [e \in Events |->
     LET open == e[1] = f.period
                   /\ (event[e] = "pending" \/ (event[e] = "none" /\ e[2] \in Raised(f)))
     IN  IF ~open THEN event[e]
         ELSE IF Active(f) # {} /\ e[2] \notin Active(f) \cup {"period_reset"}
              THEN "superseded"
         ELSE IF why \notin {"none", "dnd"} THEN "suppressed"
         ELSE "pending"]

(* The event table after the transaction: events of other periods go       *)
(* stale, raised ones are inserted unless their key exists, and what is    *)
(* pending is superseded by a new announcement or suppressed.              *)
EventsAfter(f, why) ==
  [e \in Events |->
     LET open == event[e] = "pending"
                   \/ (event[e] = "none" /\ e[1] = f.period /\ e[2] \in Raised(f))
     IN  IF ~open THEN event[e]
         ELSE IF e[1] # f.period THEN "suppressed"
         ELSE IF Active(f) # {} /\ e[2] \notin Active(f) \cup {"period_reset"}
              THEN "superseded"
         ELSE IF why \notin {"none", "dnd"} THEN "suppressed"
         ELSE "pending"]

(* Mutant: the rows of a suppressed event stay open.                       *)
EvaluateKeepingRows(f) ==
  LET why == Suppression(f)
      after == EventsAfter(f, why)
  IN  /\ event' = after
      /\ recorded' = [level |-> f.level, period |-> f.period]
      /\ work' = {e \in Events :
           why = "none" /\ e[1] = f.period /\ after[e] = "pending"}
      /\ UNCHANGED <<row, cached, delivery, attempts, nextAt, lastAt>>

Evaluate(f) ==
  LET why == Suppression(f)
      after == EventsAfter(f, why)
      expired == cached.snooze # 0 /\ cached.snooze <= f.at
  IN  /\ event' = after
      /\ delivery' = [s \in Slots |->
           IF after[s[1]] \in Suppressed /\ delivery[s] \in Open
           THEN "suppressed" ELSE delivery[s]]
      /\ recorded' = [level |-> f.level, period |-> f.period]
      /\ row' = IF expired THEN [row EXCEPT !.snooze = 0] ELSE row
      /\ cached' = IF expired THEN [row EXCEPT !.snooze = 0] ELSE cached
      /\ work' = {e \in Events :
           why = "none" /\ e[1] = f.period /\ after[e] = "pending"}
      /\ UNCHANGED <<attempts, nextAt, lastAt>>

(* GuardrailModel publishes a forecast: onForecastsChanged evaluates it.   *)
ForecastsChanged(level) ==
  /\ Idle
  /\ LET f == [level |-> level, period |-> PeriodAt(now), at |-> now]
     IN  forecast' = f /\ Evaluate(f)
  /\ UNCHANGED <<now, epoch, mode, enabled, due, posts, taken, crashes>>

(* The controller's minute timer evaluates the last forecast again.        *)
TimerFires ==
  /\ Idle
  /\ mode # "off"
  /\ forecast # NoForecast
  /\ Evaluate(forecast)
  /\ UNCHANGED <<now, epoch, mode, enabled, forecast, due, posts, taken, crashes>>

-----------------------------------------------------------------------------
(* prepareChannelDeliveries: snapshot the channels, claim what is due *)

On == enabled \cup {Kde}

Stale(e) == event[e] # "pending" \/ PeriodEnd(e[1]) <= now

(* The first call for a live event fixes its channels: the enabled ones.   *)
Snapshot(e) ==
  LET first == ~Stale(e) /\ \A c \in Channels : delivery[<<e, c>>] = "none"
  IN  [s \in Slots |->
         IF first /\ s[1] = e /\ s[2] \in On THEN "pending" ELSE delivery[s]]

Cooling(c) == lastAt[c] # Never /\ now - lastAt[c] < Cooldown[c]

(* A row is due when its lease or retry time has passed; the cooldown      *)
(* holds back first attempts only.                                         *)
Due(s) ==
  /\ ~Stale(s[1])
  /\ s[2] \in On
  /\ nextAt[s] <= now
  /\ attempts[s] = 0 => ~Cooling(s[2])

(* Mutant: the limit is checked after one more attempt.                    *)
ClaimedOnceMore(e, d) ==
  {s \in Slots : s[1] = e /\ d[s] \in Open /\ Due(s) /\ attempts[s] <= MaxAttempts}

(* Mutant: every row of the event is claimed, accepted ones too.           *)
ClaimedWhole(e, d) ==
  {s \in Slots : s[1] = e /\ d[s] # "none" /\ Due(s) /\ attempts[s] < MaxAttempts}

Claimed(e, d) ==
  {s \in Slots : s[1] = e /\ d[s] \in Open /\ Due(s) /\ attempts[s] < MaxAttempts}

DeliveryAfter(e) ==
  LET d == Snapshot(e)
  IN  [s \in Slots |->
         IF s[1] # e \/ d[s] \notin Open THEN d[s]
         ELSE IF Stale(e) \/ s[2] \notin On THEN "suppressed"
         ELSE IF ~Due(s) THEN d[s]
         ELSE IF attempts[s] >= MaxAttempts THEN "failed"
         ELSE "in_flight"]

Lease(c) == now + Max2(1, Cooldown[c]) + 1

(* Mutant: one accepted channel outweighs a failed one.                    *)
AggregateAnyAccepted(e, d, otherwise) ==
  IF event[e] # "pending" \/ (\E c \in Channels : d[<<e, c>>] \in Open)
  THEN event
  ELSE [event EXCEPT ![e] =
          IF \E c \in Channels : d[<<e, c>>] = "delivered" THEN "delivered"
          ELSE IF \E c \in Channels : d[<<e, c>>] = "failed" THEN "failed"
          ELSE otherwise]

(* The event follows its rows once none of them is open.                   *)
Aggregate(e, d, otherwise) ==
  IF event[e] # "pending" \/ (\E c \in Channels : d[<<e, c>>] \in Open)
  THEN event
  ELSE [event EXCEPT ![e] =
          IF \E c \in Channels : d[<<e, c>>] = "failed" THEN "failed"
          ELSE IF \E c \in Channels : d[<<e, c>>] = "delivered" THEN "delivered"
          ELSE otherwise]

Handoff(e) ==
  /\ e \in work
  /\ due = {}
  /\ LET claimed == Claimed(e, Snapshot(e))
         after == DeliveryAfter(e)
     IN  /\ delivery' = after
         /\ attempts' = [s \in Slots |->
              IF s \in claimed THEN attempts[s] + 1 ELSE attempts[s]]
         /\ nextAt' = [s \in Slots |->
              IF s \in claimed THEN Lease(s[2]) ELSE nextAt[s]]
         /\ event' = Aggregate(e, after, "suppressed")
         /\ due' = claimed
  /\ work' = work \ {e}
  /\ UNCHANGED <<now, row, recorded, lastAt, epoch, widget, posts, taken, crashes>>

-----------------------------------------------------------------------------
(* completeChannelDelivery: the answer of one attempt *)

(* Mutant: an answer is recorded whatever became of its row.               *)
CompleteAnyRow(s, accepted, retryable, delay) ==
  LET after == [delivery EXCEPT ![s] =
                  IF accepted THEN "delivered"
                  ELSE IF retryable /\ attempts[s] < MaxAttempts THEN "pending"
                  ELSE "failed"]
  IN  /\ delivery' = after
      /\ nextAt' = [nextAt EXCEPT ![s] =
                      now + Max2(Max2(1, Cooldown[s[2]]), delay)]
      /\ lastAt' = IF accepted THEN [lastAt EXCEPT ![s[2]] = now] ELSE lastAt
      /\ event' = Aggregate(s[1], after, "delivered")
      /\ UNCHANGED <<recorded, attempts>>

Complete(s, accepted, retryable, delay) ==
  IF delivery[s] # "in_flight" THEN UNCHANGED store
  ELSE LET after == [delivery EXCEPT ![s] =
                       IF accepted THEN "delivered"
                       ELSE IF retryable /\ attempts[s] < MaxAttempts THEN "pending"
                       ELSE "failed"]
       IN  /\ delivery' = after
           /\ nextAt' = [nextAt EXCEPT ![s] =
                           now + Max2(Max2(1, Cooldown[s[2]]), delay)]
           /\ lastAt' = IF accepted THEN [lastAt EXCEPT ![s[2]] = now] ELSE lastAt
           /\ event' = Aggregate(s[1], after, "delivered")
           /\ UNCHANGED <<recorded, attempts>>

(* The desktop notification is submitted and acknowledged in one call.     *)
NotifyDesktop(s) ==
  /\ s \in due
  /\ s[2] = Kde
  /\ Complete(s, TRUE, FALSE, 0)
  /\ due' = due \ {s}
  /\ taken' = taken \cup {s}
  /\ UNCHANGED <<now, row, epoch, widget, work, posts, crashes>>

(* sendPolicyChannel: a bad URL or payload is answered on the spot,        *)
(* otherwise the request leaves and its reply is awaited.                  *)
RejectWebhook(s) ==
  /\ s \in due
  /\ s[2] \in Webhooks
  /\ Complete(s, FALSE, FALSE, 0)
  /\ due' = due \ {s}
  /\ UNCHANGED <<now, row, epoch, widget, work, posts, taken, crashes>>

PostWebhook(s) ==
  /\ s \in due
  /\ s[2] \in Webhooks
  /\ posts' = posts \cup {[id |-> epoch, slot |-> s, try |-> attempts[s]]}
  /\ due' = due \ {s}
  /\ UNCHANGED <<now, row, store, epoch, widget, work, taken, crashes>>

(* A reply names its event and channel, not its attempt.  The event ids    *)
(* of replaced policies are never used again (AUTOINCREMENT).              *)
Reply(p, accepted, retryable, delay) ==
  /\ Idle
  /\ p \in posts
  /\ posts' = posts \ {p}
  /\ IF p.id = epoch
     THEN /\ Complete(p.slot, accepted, retryable, delay)
          /\ taken' = IF accepted THEN taken \cup {p.slot} ELSE taken
     ELSE UNCHANGED <<store, taken>>
  /\ UNCHANGED <<now, row, epoch, widget, work, due, crashes>>

SomeReply(p) ==
  \/ Reply(p, TRUE, FALSE, 0)
  \/ Reply(p, FALSE, FALSE, 0)
  \/ \E delay \in RetryAfters : Reply(p, FALSE, TRUE, delay)

-----------------------------------------------------------------------------
(* Environment *)

(* Requests time out after 15 s, before the clock reaches a lease, unless  *)
(* the machine sleeps meanwhile.                                           *)
Tick ==
  /\ Idle
  /\ now < MaxTime
  /\ LateReplies \/ posts = {}
  /\ now' = now + 1
  /\ UNCHANGED <<row, store, epoch, widget, work, due, posts, taken, crashes>>

(* The user changes Do Not Disturb, the alert switch or the channels.      *)
Configure ==
  /\ Idle
  /\ mode' \in Modes
  /\ enabled' \in SUBSET Webhooks
  /\ UNCHANGED <<now, row, store, epoch, cached, forecast, work, due, posts,
                 taken, crashes>>

(* The settings dialog applies its drafts with replacePolicies: DELETE     *)
(* cascades over state, events and deliveries, INSERT writes the new row.  *)
(* The widget's own repository keeps the policies it loaded.               *)
Apply ==
  /\ Idle
  /\ epoch < MaxApplies
  /\ row' \in [notify : BOOLEAN,
              snooze : {0, row.snooze, PeriodEnd(PeriodAt(now))}]
  /\ recorded' = NoRecord
  /\ event' = [e \in Events |-> "none"]
  /\ delivery' = [s \in Slots |-> "none"]
  /\ attempts' = [s \in Slots |-> 0]
  /\ nextAt' = [s \in Slots |-> 0]
  /\ lastAt' = [c \in Channels |-> Never]
  /\ epoch' = epoch + 1
  /\ taken' = {}
  /\ UNCHANGED <<now, widget, work, due, posts, crashes>>

(* The process dies between two transactions and starts again: replies     *)
(* are lost, the database is what was committed, the policies are read     *)
(* afresh and the first forecast is still to come.                         *)
Crash ==
  /\ crashes < MaxCrashes
  /\ crashes' = crashes + 1
  /\ cached' = row
  /\ forecast' = NoForecast
  /\ work' = {}
  /\ due' = {}
  /\ posts' = {}
  /\ UNCHANGED <<now, row, store, epoch, mode, enabled, taken>>

Controller ==
  \/ \E e \in work : Handoff(e)
  \/ \E s \in due : NotifyDesktop(s) \/ RejectWebhook(s) \/ PostWebhook(s)

Next ==
  \/ \E level \in States : ForecastsChanged(level)
  \/ TimerFires
  \/ Controller
  \/ \E p \in posts : SomeReply(p)
  \/ Tick
  \/ Configure
  \/ Apply
  \/ Crash

Spec == Init /\ [][Next]_vars

(* The UI thread runs its handlers, forecasts keep being published (each   *)
(* refresh ends in one), requests end by their timeout and time passes.    *)
Fairness ==
  /\ WF_vars(\E level \in States : ForecastsChanged(level))
  /\ WF_vars(Controller)
  /\ WF_vars(\E p \in posts : SomeReply(p))
  /\ WF_vars(Tick)

FairSpec == Spec /\ Fairness

-----------------------------------------------------------------------------
(* Properties *)

(* Every variable stays in its domain; attempts never pass the limit, so   *)
(* a channel is tried at most three times per event, crashes included.     *)
TypeOK ==
  /\ now \in 0 .. MaxTime
  /\ row \in Policy /\ cached \in Policy
  /\ recorded \in [level : States, period : Periods] \cup {NoRecord}
  /\ event \in [Events -> EventStatus]
  /\ delivery \in [Slots -> SlotStatus]
  /\ attempts \in [Slots -> 0 .. MaxAttempts]
  /\ nextAt \in [Slots -> Nat]
  /\ lastAt \in [Channels -> 0 .. MaxTime \cup {Never}]
  /\ epoch \in 0 .. MaxApplies
  /\ mode \in Modes
  /\ enabled \subseteq Webhooks
  /\ forecast \in Forecast \cup {NoForecast}
  /\ work \subseteq Events
  /\ due \subseteq Slots
  /\ posts \subseteq [id : 0 .. MaxApplies, slot : Slots, try : 0 .. MaxAttempts]
  /\ taken \subseteq Slots
  /\ crashes \in 0 .. MaxCrashes

(* No channel of an event that is settled (delivered, failed, suppressed   *)
(* or superseded) is waiting or in flight: a late answer finds nothing to  *)
(* complete and a retry nothing to claim.                                  *)
SettledEventsAreQuiet ==
  \A s \in Slots : event[s[1]] # "pending" => delivery[s] \notin Open

(* The event's verdict agrees with its receipts: it is failed only over a  *)
(* failed channel, delivered only over an accepted one and no failed one.  *)
VerdictMatchesReceipts ==
  \A e \in Events :
    /\ event[e] = "failed" => \E c \in Channels : delivery[<<e, c>>] = "failed"
    /\ event[e] = "delivered" =>
         /\ \E c \in Channels : delivery[<<e, c>>] = "delivered"
         /\ \A c \in Channels : delivery[<<e, c>>] # "failed"

(* At most one level announcement of a period is open, so the user is not  *)
(* told of a warning and of its recovery side by side.                     *)
OneOpenAnnouncement ==
  \A e, f \in Events :
    /\ event[e] = "pending" /\ event[f] = "pending" /\ e[1] = f[1]
    /\ e[2] # "period_reset" /\ f[2] # "period_reset"
    => e = f

(* What is settled, event or receipt, is left as it is.                    *)
SettledStep ==
  epoch' = epoch =>
    /\ \A e \in Events : event[e] \notin {"none", "pending"} => event'[e] = event[e]
    /\ \A s \in Slots :
         delivery[s] \notin {"none"} \cup Open => delivery'[s] = delivery[s]

(* A settled event or receipt never changes again, short of the policies   *)
(* being replaced: refresh, restart, retries and late replies announce     *)
(* nothing twice.                                                          *)
SettledStaysSettled == [][SettledStep]_vars

(* A channel whose acceptance the widget has seen is not tried again.      *)
OnlyUnacknowledgedRetry ==
  [][\A s \in taken : attempts'[s] <= attempts[s]]_vars

(* While the stored policy is snoozed no delivery attempt starts.          *)
SnoozedStep == \A s \in Slots : attempts'[s] > attempts[s] => row.snooze <= now
SnoozeRespected == [][SnoozedStep]_vars

(* Nor does one until the dialog replaces the policies, whatever crashes   *)
(* and whatever the user silences meanwhile (NotificationController.qml,   *)
(* policySuppressionReason).                                               *)
SnoozeRespectedUnedited == [][epoch' = 0 => SnoozedStep]_vars

(* What is announced about a level is still the recorded state when the    *)
(* attempt starts: an outdated event is suppressed, not sent.              *)
AnnouncedIsCurrent ==
  [][\A s \in Slots :
       attempts'[s] > attempts[s] /\ s[1][2] \in Levels
         => recorded.level = s[1][2]]_vars

(* Nothing of a past period stays open: each of its events is settled in   *)
(* the end, whatever was lost in crashes (budgetpolicyrepository.cpp,      *)
(* prepareTransitions).                                                    *)
PastPeriodsSettle ==
  <>[](\A e \in Events : event[e] = "pending" => PeriodEnd(e[1]) > now)
=============================================================================
