--------------------------- MODULE RefreshSchedule ---------------------------
(***************************************************************************)
(* When a provider is refreshed: its one-shot timer and the other reasons  *)
(* in RefreshScheduler.qml, network and wake recovery in                   *)
(* plugin/refreshschedulermodel.cpp, and what requestRefresh of            *)
(* plugin/providerbackend.cpp makes of them.                               *)
(*                                                                         *)
(* There is one provider outside this machine, asked at one endpoint       *)
(* (plugin/openaicompatibleprovider.cpp).  Times are ages and remainders,  *)
(* so that nothing is bounded but their ranges.                            *)
(***************************************************************************)
EXTENDS Integers, FiniteSetsExt

CONSTANTS
  OpenInterval,    \* between two refreshes while the popup is open
  ClosedInterval,  \* and while it is closed
  Jitter,          \* the provider's deterministic jitter
  RetryAfters      \* what a Retry-After may say

Never == -1
NoDeadline == -1
Stopped == -1

VARIABLES
  popup, net,
  seenOffline, recovery,    \* m_seenOffline, m_recoveryTimer runs
  hasKey, loading, error,
  hold,                     \* how long Retry-After still lasts
  lastSuccess, lastAttempt, \* how long ago
  dueAt,                    \* the deadline, in how long
  timer                     \* when its timer fires, in how long

network == <<net, seenOffline, recovery>>
backend == <<hasKey, loading, error, hold, lastSuccess, lastAttempt>>
vars == <<popup, network, backend, dueAt, timer>>

EffectiveInterval(open) == IF open THEN OpenInterval ELSE ClosedInterval

(* backoffMultiplier: the errors are counted anew in every refresh, so a   *)
(* failed one counts once.                                                 *)
Backoff == IF error = "none" THEN 1 ELSE 2
Scheduled == EffectiveInterval(popup) * Backoff + Jitter

(* Older than this all ages are alike.                                     *)
Oldest == 2 * Max({OpenInterval, ClosedInterval}) + Jitter

Allowed == net # "offline"
IsFresh(open) == lastSuccess # Never /\ lastSuccess < EffectiveInterval(open)

(* Mutant: the deadline does not heed Retry-After.                         *)
DueHasty ==
  LET base == IF error = "none" THEN lastSuccess ELSE lastAttempt
  IN IF hasKey /\ ~loading /\ Allowed /\ error \in {"none", "retryable"} /\ base # Never
     THEN Max({0, Scheduled - base}) ELSE NoDeadline

(* providerDueAt: after a success from it, after a failure that may pass   *)
(* from the attempt, and not before Retry-After.                           *)
Due ==
  LET base == IF error = "none" THEN lastSuccess ELSE lastAttempt
  IN IF hasKey /\ ~loading /\ Allowed /\ error \in {"none", "retryable"} /\ base # Never
     THEN Max({0, Scheduled - base, hold}) ELSE NoDeadline

(* updateNextSchedule: the timer starts again when its deadline changes.   *)
Update ==
  /\ dueAt' = Due'
  /\ timer' = IF dueAt' = NoDeadline THEN Stopped
              ELSE IF dueAt' # dueAt THEN dueAt' ELSE timer

Init ==
  /\ popup = FALSE
  /\ net \in {"online", "offline", "unknown"}
  /\ seenOffline = (net = "offline") /\ recovery = FALSE
  /\ hasKey \in BOOLEAN
  /\ loading = (hasKey /\ net # "offline")
  /\ error = "none" /\ hold = 0
  /\ lastSuccess = Never
  /\ lastAttempt = IF loading THEN 0 ELSE Never
  /\ dueAt = NoDeadline /\ timer = Stopped

-----------------------------------------------------------------------------
(* Beginning a refresh *)

(* requestRefresh, asked for automatically or not.                         *)
Accepts(automatic) == ~(automatic /\ error = "user") /\ hold = 0

(* beginRefresh, setLoading and clearError.  In between the deadline is    *)
(* computed from the state of the moment; with the loading state it is     *)
(* gone.                                                                   *)
Begin ==
  /\ loading' = TRUE
  /\ lastAttempt' = 0
  /\ error' = "none" /\ hold' = 0
  /\ dueAt' = NoDeadline /\ timer' = Stopped
  /\ UNCHANGED <<hasKey, lastSuccess>>

(* refreshProvider for an automatic reason.                                *)
MayBegin(force, open) ==
  Allowed /\ (force \/ ~IsFresh(open)) /\ hasKey /\ ~loading /\ Accepts(TRUE)

(* The timer fires once, whatever comes of it.                             *)
TimerFires ==
  /\ timer = 0
  /\ IF MayBegin(TRUE, popup) THEN Begin
     ELSE timer' = Stopped /\ UNCHANGED <<backend, dueAt>>
  /\ UNCHANGED <<popup, network>>

PopupOpens ==
  /\ ~popup /\ popup' = TRUE
  /\ UNCHANGED network
  /\ IF MayBegin(FALSE, TRUE) THEN Begin ELSE UNCHANGED backend /\ Update

(* Mutant: nobody tells the timer that the popup was closed.               *)
PopupClosesUnnoticed ==
  /\ popup /\ popup' = FALSE
  /\ UNCHANGED <<network, backend, dueAt, timer>>

PopupCloses ==
  /\ popup /\ popup' = FALSE
  /\ UNCHANGED <<network, backend>>
  /\ Update

(* refreshAll: the user may ask while offline or during a refresh, which   *)
(* begins again, but not before Retry-After.                               *)
RefreshAll ==
  /\ hasKey /\ Accepts(FALSE)
  /\ Begin
  /\ UNCHANGED <<popup, network>>

(* setApiKey and loadProviderApiKey.                                       *)
StoreKey ==
  /\ hasKey' = TRUE
  /\ UNCHANGED <<popup, network, lastSuccess>>
  /\ IF Allowed /\ Accepts(FALSE)
     THEN /\ loading' = TRUE /\ lastAttempt' = 0 /\ error' = "none" /\ hold' = 0
          /\ dueAt' = NoDeadline /\ timer' = Stopped
     ELSE loading' = FALSE /\ UNCHANGED <<lastAttempt, error, hold>> /\ Update

RemoveKey ==
  /\ hasKey /\ hasKey' = FALSE
  /\ loading' = FALSE
  /\ UNCHANGED <<popup, network, error, hold, lastSuccess, lastAttempt>>
  /\ Update

-----------------------------------------------------------------------------
(* Answers *)

(* onModelsFinished and onAllRequestsDone.  Whatever the answer is,        *)
(* updateLastRefreshed takes its time for the last success.                *)
Answer(e, retryAfter) ==
  /\ loading /\ loading' = FALSE
  /\ error' = e
  /\ hold' = retryAfter
  /\ lastSuccess' = 0
  /\ UNCHANGED <<popup, network, hasKey, lastAttempt>>
  /\ Update

Answers ==
  \/ \E e \in {"none", "user"} : Answer(e, 0)
  \/ \E e \in {"retryable", "other"}, retryAfter \in RetryAfters \cup {0} : Answer(e, retryAfter)

-----------------------------------------------------------------------------
(* Network, sleep and time *)

(* Mutant: only a connection that is told apart from the last one is news. *)
NetChangesUnseen(n) ==
  /\ n # net /\ net' = n
  /\ UNCHANGED <<seenOffline, recovery>>
  /\ UNCHANGED <<popup, backend>>
  /\ Update

(* reachabilityChanged and observeReachability: one that is not known      *)
(* allows refreshes but recovers nothing.                                  *)
NetChanges(n) ==
  /\ n # net /\ net' = n
  /\ CASE n = "unknown" -> UNCHANGED <<seenOffline, recovery>>
       [] n = "offline" -> seenOffline' = TRUE /\ UNCHANGED recovery
       [] n = "online" -> seenOffline' = FALSE /\ recovery' = (recovery \/ seenOffline)
  /\ UNCHANGED <<popup, backend>>
  /\ Update

(* onRecoveryRequested, a second after the network or the computer woke.   *)
RecoveryFires ==
  /\ recovery /\ recovery' = FALSE
  /\ IF MayBegin(FALSE, popup) THEN Begin ELSE UNCHANGED <<backend, dueAt, timer>>
  /\ UNCHANGED <<popup, net, seenOffline>>

Older(age) == IF age \in {Never, Oldest} THEN age ELSE age + 1
Nearer(left) == IF left <= 0 THEN left ELSE left - 1

TimePasses ==
  /\ lastSuccess' = Older(lastSuccess) /\ lastAttempt' = Older(lastAttempt)
  /\ hold' = Nearer(hold) /\ dueAt' = Nearer(dueAt)

Tick ==
  /\ timer # 0 /\ ~recovery
  /\ TimePasses
  /\ timer' = Nearer(timer)
  /\ UNCHANGED <<popup, network, hasKey, loading, error>>

(* The computer sleeps: dates pass, timers stand still.  observeWakeClock  *)
(* sees the gap.                                                           *)
Sleep ==
  /\ TimePasses
  /\ recovery' = TRUE
  /\ UNCHANGED <<popup, net, seenOffline, hasKey, loading, error, timer>>

Next ==
  \/ TimerFires \/ PopupOpens \/ PopupCloses \/ RefreshAll
  \/ StoreKey \/ RemoveKey
  \/ Answers
  \/ \E n \in {"online", "offline", "unknown"} : NetChanges(n)
  \/ RecoveryFires \/ Tick \/ Sleep

Spec == Init /\ [][Next]_vars

-----------------------------------------------------------------------------
(* Properties *)

(* The deadline shown is that of the state of the moment, and it is never  *)
(* without its timer: the timer does not fire before the refresh would be  *)
(* accepted, for it fires only once.                                       *)
DeadlineIsCurrent == dueAt = Due /\ (dueAt # NoDeadline => timer # Stopped)

(* A provider that can be asked, and whose errors may pass, is refreshed   *)
(* again and again, whatever the network, the popup and sleep did before.  *)
Quiescent(open) == hasKey /\ net = "online" /\ error \in {"none", "retryable"} /\ popup = open
KeepsRefreshing == \A open \in BOOLEAN : <>[]Quiescent(open) => []<>loading
=============================================================================
