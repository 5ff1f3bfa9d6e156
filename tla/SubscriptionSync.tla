-------------------------- MODULE SubscriptionSync --------------------------
(***************************************************************************)
(* The network sync of one subscription tool: the generations and the      *)
(* retry state of plugin/subscriptiontoolbackend.cpp, the request chain of *)
(* its monitor (Claude, Codex or Copilot), the browser circuit breaker and *)
(* the timer of RefreshScheduler.qml that starts a sync on schedule.       *)
(*                                                                         *)
(* The user signs in and out behind the widget's back, switches the        *)
(* monitor and Browser Sync on and off while a request is under way, and   *)
(* the network comes and goes.  One unit of time is the first backoff,     *)
(* sixty seconds.                                                          *)
(***************************************************************************)
EXTENDS Integers

CONSTANTS
  Tools,           \* "claude", "codex", "copilot"
  Sessions,        \* logins: cookies, access tokens, token and organization
  NoLogin,
  Interval,        \* between syncs, in units of the first backoff
  Declared,        \* the delays a Retry-After header may ask for
  MaxTime,         \* bound: the last moment
  MaxGenerations   \* bound: the last generation modelled, of each tool

ASSUME SyncAssumption ==
  /\ Tools \subseteq {"claude", "codex", "copilot"}
  /\ NoLogin \notin Sessions
  /\ Interval \in Nat \ {0}
  /\ Declared \subseteq Nat
  /\ MaxTime \in Nat
  /\ MaxGenerations \in [Tools -> Nat]

Never == -1
Times == 0 .. MaxTime
Places == {"browser", "file"}   \* the browser's profile; auth.json or wallet
Stages == {"bootstrap", "usage", "local", "account", "billing"}
Logins == Sessions \cup {NoLogin}

(* A request: its generation, what it asks for, the login it carries and   *)
(* the browser session a refused local login falls back to.                *)
Call == [gen : Nat, stage : Stages, login : Sessions, cookie : Logins]

NoQuota == [at |-> Never, login |-> NoLogin]

VARIABLES
  tool,            \* the one whose monitor this is
  enabled,         \* the monitor
  autoSync,        \* Browser Sync
  online,          \* externalRefreshAllowed
  login, expired,  \* the stored logins; the sessions the service refuses
  seen,            \* m_localAuthRevision
  generation, syncing, completed,
  needsAction, retryAfter, failures,
  quota,           \* the synced windows: when and with which login
  calls,
  due, armed,      \* the sync timer: its deadline, and whether it runs
  extraction,      \* consecutive failed cookie extractions; 3 open the circuit
  rejected,        \* history: the login refused since the last success, and
                   \* since the local one was noticed
  now

config == <<enabled, autoSync, online, login, expired>>
retry == <<needsAction, retryAfter, failures>>
timer == <<due, armed>>
vars == <<tool, config, seen, generation, syncing, completed, retry, quota, calls, timer,
          extraction, rejected, now>>

Limit == MaxGenerations[tool]
Generations == UNION {1 .. MaxGenerations[t] : t \in Tools}

Later(a, b) == IF a >= b THEN a ELSE b

Init ==
  /\ tool \in Tools
  /\ enabled = TRUE /\ autoSync = (tool # "copilot") /\ online = TRUE
  /\ login \in [Places -> Logins]
  /\ expired = {}
  /\ seen = login["file"]
  /\ generation = 0 /\ syncing = FALSE /\ completed = Never
  /\ needsAction = FALSE /\ retryAfter = Never /\ failures = 0
  /\ quota = NoQuota
  /\ calls = {}
  /\ due = IF tool = "copilot" /\ login["file"] = NoLogin THEN Never ELSE Interval
  /\ armed = (due # Never)
  /\ extraction = 0
  /\ rejected = NoLogin
  /\ now = 0

-----------------------------------------------------------------------------
(* The deadline *)

(* A source with a deadline.  The codex timer does not look at the network. *)
Schedulable(on) ==
  /\ enabled' /\ ~needsAction' /\ ~syncing'
  /\ tool = "claude" => autoSync' /\ on
  /\ tool = "copilot" => on /\ login'["file"] # NoLogin

(* updateNextSchedule.  QML restarts a single-shot timer only when its     *)
(* deadline changes: a timer that has fired and computes the deadline it   *)
(* had stays stopped.                                                      *)
RescheduleFrom(running) ==
  /\ due' = IF Schedulable(online')
            THEN Later((IF completed' = Never THEN now' ELSE completed') + Interval,
                       retryAfter')
            ELSE Never
  /\ armed' = IF due' = due THEN running ELSE due' # Never

(* Mutant: the signals of the monitor do not reach the timer.              *)
RescheduleNever == UNCHANGED timer

Reschedule == RescheduleFrom(armed)

-----------------------------------------------------------------------------
(* Retry state *)

ResetRetry == needsAction' = FALSE /\ retryAfter' = Never /\ failures' = 0

Doublings == <<1, 2, 4, 8>>

(* recordSyncHttpFailure: the backoff stops doubling after the fourth      *)
(* failure; a longer Retry-After is obeyed.                                *)
HttpFailure(refused, declared) ==
  /\ needsAction' = (needsAction \/ refused)
  /\ failures' = IF failures < 4 THEN failures + 1 ELSE 4
  /\ retryAfter' = now + Later(Doublings[failures'], declared)

CanAutoSync ==
  /\ ~syncing /\ ~needsAction
  /\ retryAfter = Never \/ now >= retryAfter

-----------------------------------------------------------------------------
(* Starting *)

Begins(stage, l, cookie) ==
  /\ generation < Limit
  /\ generation' = generation + 1
  /\ syncing' = TRUE
  /\ calls' = calls \cup {[gen |-> generation', stage |-> stage, login |-> l,
                           cookie |-> cookie]}
  /\ UNCHANGED completed

(* Without a login the sync ends at once and waits for the user.           *)
NotLoggedIn ==
  /\ generation < Limit
  /\ generation' = generation + 1
  /\ completed' = now
  /\ needsAction' = TRUE
  /\ UNCHANGED <<syncing, calls>>

(* CodexCliMonitor::startSync: the local login first, whoever asks.        *)
StartCodex(cookie) ==
  IF login["file"] # NoLogin
  THEN Begins("local", login["file"], cookie) /\ UNCHANGED needsAction
  ELSE IF cookie = NoLogin THEN NotLoggedIn
       ELSE Begins("account", cookie, NoLogin) /\ UNCHANGED needsAction

(* BrowserSyncService::sync: a failed cookie extraction counts, three open *)
(* the circuit, and nothing in the widget closes it.                       *)
BrowserSync ==
  \/ /\ extraction < 3 /\ login["browser"] # NoLogin
     /\ IF tool = "claude"
        THEN Begins("bootstrap", login["browser"], NoLogin) /\ UNCHANGED needsAction
        ELSE StartCodex(login["browser"])
     /\ extraction' = 0
  \/ /\ login["browser"] = NoLogin \/ extraction = 3
     /\ extraction' = IF extraction < 3 THEN extraction + 1 ELSE 3
     /\ UNCHANGED <<generation, syncing, completed, calls, needsAction>>

NothingStarts ==
  UNCHANGED <<generation, syncing, completed, calls, retry, seen, rejected, extraction>>

AutomaticClaude ==
  IF enabled /\ autoSync /\ CanAutoSync
  THEN BrowserSync /\ UNCHANGED <<seen, rejected, retryAfter, failures>>
  ELSE NothingStarts

(* canAutoSyncFromLocalAuth: a local login that differs from the last one  *)
(* seen clears the retry state first.                                      *)
AutomaticCodex ==
  IF enabled /\ ~syncing /\ login["file"] \notin {NoLogin, seen}
  THEN /\ Begins("local", login["file"], NoLogin)
       /\ seen' = login["file"]
       /\ rejected' = NoLogin
       /\ ResetRetry
       /\ UNCHANGED extraction
  ELSE IF enabled /\ CanAutoSync
       THEN StartCodex(NoLogin) /\ UNCHANGED <<seen, rejected, retryAfter, failures, extraction>>
       ELSE NothingStarts

AutomaticCopilot ==
  IF enabled /\ ~syncing /\ online /\ login["file"] # NoLogin
  THEN Begins("billing", login["file"], NoLogin) /\ UNCHANGED <<retry, seen, rejected, extraction>>
  ELSE NothingStarts

(* performAutomaticSubscriptionSync, and the sync a timer starts.          *)
AutomaticSync ==
  \/ tool = "claude" /\ AutomaticClaude
  \/ tool = "codex" /\ AutomaticCodex
  \/ tool = "copilot" /\ AutomaticCopilot

TimerFires ==
  /\ armed /\ now >= due
  /\ AutomaticSync
  /\ UNCHANGED <<config, quota, now>>
  /\ RescheduleFrom(FALSE)

(* Mutant: nothing about the retry state is asked on recovery.             *)
RecoverAtOnce ==
  /\ tool = "codex" /\ enabled /\ ~syncing
  /\ StartCodex(NoLogin)
  /\ UNCHANGED <<config, seen, retryAfter, failures, extraction, quota, rejected, now>>
  /\ Reschedule

(* Startup, wake-up or reconnection.                                       *)
Recover ==
  /\ tool = "claude" => online
  /\ tool # "copilot"
  /\ AutomaticSync
  /\ UNCHANGED <<config, quota, now>>
  /\ IF <<syncing, retry, completed>>' = <<syncing, retry, completed>>
     THEN UNCHANGED timer
     ELSE Reschedule

(* The user asks for a sync: performBrowserSync.                           *)
ManualSync ==
  /\ tool # "copilot"
  /\ autoSync /\ enabled /\ CanAutoSync
  /\ BrowserSync
  /\ UNCHANGED <<config, seen, retryAfter, failures, quota, rejected, now>>
  /\ IF <<syncing, needsAction, completed>>' = <<syncing, needsAction, completed>>
     THEN UNCHANGED timer
     ELSE Reschedule

-----------------------------------------------------------------------------
(* Cancelling *)

(* cancelSync: the replies of the old generation come back aborted.        *)
Cancels ==
  /\ generation < Limit
  /\ generation' = generation + 1
  /\ syncing' = FALSE
  /\ completed' = IF syncing THEN now ELSE completed

(* Mutant: switching off leaves the sync running.                          *)
SetEnabledOnly(b) ==
  /\ enabled' = b
  /\ b # enabled
  /\ UNCHANGED <<autoSync, online, login, expired, seen, generation, syncing,
                 completed, retry, quota, calls, extraction, rejected, now>>
  /\ Reschedule

SetEnabled(b) ==
  /\ enabled' = b
  /\ b # enabled
  /\ IF b THEN UNCHANGED <<generation, syncing, completed>> ELSE Cancels
  /\ UNCHANGED <<autoSync, online, login, expired, seen, retry, quota, calls,
                 extraction, rejected, now>>
  /\ Reschedule

(* Browser Sync on or off: off cancels, whatever started the sync.         *)
SetSyncEnabled(b) ==
  /\ tool # "copilot"
  /\ autoSync' = b
  /\ b # autoSync
  /\ IF b THEN UNCHANGED <<generation, syncing, completed>> ELSE Cancels
  /\ UNCHANGED <<enabled, online, login, expired, seen, retry, quota, calls,
                 extraction, rejected, now>>
  /\ IF tool = "claude" \/ syncing' # syncing THEN Reschedule ELSE UNCHANGED timer

(* The user signs in or out, in the browser or with the tool's own login.  *)
SignIn(place, l) ==
  /\ tool # "copilot"
  /\ tool = "claude" => place = "browser"
  /\ login[place] # l
  /\ login' = [login EXCEPT ![place] = l]
  /\ rejected' = IF place = "file" THEN NoLogin ELSE rejected
  /\ UNCHANGED <<enabled, autoSync, online, expired, seen, generation, syncing,
                 completed, retry, quota, calls, timer, extraction, now>>

(* Mutant: the new token does not cancel the request sent with the old.    *)
SetAccountOnly(l) ==
  /\ tool = "copilot"
  /\ login["file"] # l
  /\ login' = [login EXCEPT !["file"] = l]
  /\ ResetRetry
  /\ UNCHANGED <<enabled, autoSync, online, expired, seen, quota, extraction,
                 rejected, now, generation, syncing, completed, calls>>
  /\ Reschedule

(* setGithubToken, setOrgName: a different account cancels and resets; a   *)
(* new organization is asked about at once.                                *)
SetAccount(l) ==
  /\ tool = "copilot"
  /\ login["file"] # l
  /\ login' = [login EXCEPT !["file"] = l]
  /\ ResetRetry
  /\ \/ /\ IF syncing THEN Cancels ELSE UNCHANGED <<generation, syncing, completed>>
        /\ UNCHANGED calls
     \/ /\ enabled /\ online /\ l # NoLogin
        /\ generation + 1 < Limit
        /\ generation' = IF syncing THEN generation + 2 ELSE generation + 1
        /\ syncing' = TRUE
        /\ completed' = IF syncing THEN now ELSE completed
        /\ calls' = calls \cup {[gen |-> generation', stage |-> "billing",
                                 login |-> l, cookie |-> NoLogin]}
  /\ UNCHANGED <<enabled, autoSync, online, expired, seen, quota, extraction,
                 rejected, now>>
  /\ Reschedule

(* The service ends a session.                                             *)
Expire(s) ==
  /\ s \notin expired
  /\ expired' = expired \cup {s}
  /\ UNCHANGED <<enabled, autoSync, online, login, seen, generation, syncing,
                 completed, retry, quota, calls, timer, extraction, rejected, now>>

SetOnline(b) ==
  /\ online' = b
  /\ b # online
  /\ UNCHANGED <<enabled, autoSync, login, expired, seen, generation, syncing,
                 completed, retry, quota, calls, extraction, rejected, now>>
  /\ Reschedule

Tick ==
  /\ now < MaxTime
  /\ now' = now + 1
  /\ UNCHANGED <<config, seen, generation, syncing, completed, retry, quota, calls,
                 timer, extraction, rejected>>

-----------------------------------------------------------------------------
(* Replies *)

(* syncReplyIsCurrent                                                      *)
Current(c) == enabled /\ c.gen = generation

Dropped(c) ==
  /\ ~Current(c)
  /\ calls' = calls \ {c}
  /\ UNCHANGED <<config, seen, generation, syncing, completed, retry, quota, timer,
                 extraction, rejected, now>>

Answered(c) ==
  /\ Current(c)
  /\ UNCHANGED <<config, seen, generation, extraction, now>>

(* The chain goes on: Claude's organization was found.                     *)
Continues(c) ==
  /\ Answered(c)
  /\ c.stage = "bootstrap" /\ c.login \notin expired
  /\ calls' = (calls \ {c}) \cup {[c EXCEPT !.stage = "usage"]}
  /\ UNCHANGED <<syncing, completed, retry, quota, timer, rejected>>

Ends(c) ==
  /\ calls' = calls \ {c}
  /\ syncing' = FALSE
  /\ completed' = now
  /\ Reschedule

Success(c) ==
  /\ Answered(c)
  /\ c.login \notin expired
  /\ ResetRetry
  /\ rejected' = NoLogin
  /\ Ends(c)

(* The windows an answer holds are observed; an answer may hold none.      *)
Observes(c) == quota' \in {quota, [at |-> now, login |-> c.login]}

(* Claude's windows, and the counts derived from them.                     *)
UsageArrives(c) == c.stage = "usage" /\ Observes(c) /\ Success(c)

(* Codex's windows, plan and credits.                                      *)
LocalUsageArrives(c) == c.stage = "local" /\ Observes(c) /\ Success(c)

(* ChatGPT's message cap, weekly limit, reviews, credits and entitlement.  *)
AccountArrives(c) == c.stage = "account" /\ Observes(c) /\ Success(c)

(* The seats of the organization.                                          *)
BillingArrives(c) ==
  /\ c.stage = "billing"
  /\ quota' = [at |-> now, login |-> c.login]
  /\ Success(c)

(* A refused login (401, 403).  Codex goes on with the browser session of  *)
(* the same sync if it has one.                                            *)
Refused(c, declared) ==
  /\ Answered(c)
  /\ c.login \in expired
  /\ HttpFailure(TRUE, declared)
  /\ rejected' = IF c.stage = "account" THEN rejected ELSE c.login
  /\ UNCHANGED quota
  /\ IF c.stage = "local" /\ c.cookie # NoLogin
     THEN /\ calls' = (calls \ {c}) \cup {[c EXCEPT !.stage = "account",
                                             !.login = c.cookie, !.cookie = NoLogin]}
          /\ UNCHANGED <<syncing, completed, timer>>
     ELSE Ends(c)

(* No answer, a server error, or for Copilot an unreadable answer.         *)
Fails(c, declared) ==
  /\ Answered(c)
  /\ HttpFailure(FALSE, declared)
  /\ UNCHANGED <<quota, rejected>>
  /\ Ends(c)

(* The answer cannot be read any more: the user or an update must act.     *)
Unreadable(c) ==
  /\ Answered(c)
  /\ c.stage \in {"bootstrap", "usage", "account"}
  /\ needsAction' = TRUE
  /\ UNCHANGED <<retryAfter, failures, quota, rejected>>
  /\ Ends(c)

(* Mutant: the early return forgets the loading state.                     *)
NoOrganizationHangs(c) ==
  /\ Answered(c)
  /\ c.stage = "bootstrap"
  /\ calls' = calls \ {c}
  /\ UNCHANGED <<syncing, completed, retry, quota, timer, rejected>>

(* No organization: a failure is counted only if none is recorded yet.     *)
NoOrganization(c) ==
  /\ Answered(c)
  /\ c.stage = "bootstrap"
  /\ IF ~needsAction /\ retryAfter = Never THEN HttpFailure(FALSE, 0) ELSE UNCHANGED retry
  /\ UNCHANGED <<quota, rejected>>
  /\ Ends(c)

Reply(c) ==
  \/ Dropped(c)
  \/ Continues(c)
  \/ UsageArrives(c) \/ LocalUsageArrives(c) \/ AccountArrives(c) \/ BillingArrives(c)
  \/ \E declared \in Declared : Refused(c, declared) \/ Fails(c, declared)
  \/ Unreadable(c)
  \/ NoOrganization(c)

Step ==
  \/ TimerFires \/ Recover \/ ManualSync
  \/ \E b \in BOOLEAN : SetEnabled(b) \/ SetSyncEnabled(b) \/ SetOnline(b)
  \/ \E place \in Places, l \in Logins : SignIn(place, l)
  \/ \E l \in Logins : SetAccount(l)
  \/ \E s \in Sessions : Expire(s)
  \/ Tick
  \/ \E c \in calls : Reply(c)

Next == Step /\ UNCHANGED tool
Replies == (\E c \in calls : Reply(c)) /\ UNCHANGED tool

Spec == Init /\ [][Next]_vars

(* Every request ends by its transfer timeout of thirty seconds.           *)
FairSpec == Spec /\ WF_vars(Replies)

-----------------------------------------------------------------------------
(* Properties *)

Live == {c \in calls : Current(c)}

(* Every variable stays in its domain.                                     *)
TypeOK ==
  /\ tool \in Tools
  /\ {enabled, autoSync, online, syncing, needsAction, armed} \subseteq BOOLEAN
  /\ login \in [Places -> Logins]
  /\ expired \subseteq Sessions
  /\ seen \in Logins /\ rejected \in Logins
  /\ generation \in 0 .. Limit
  /\ completed \in Times \cup {Never}
  /\ retryAfter \in Int /\ retryAfter >= Never
  /\ failures \in 0 .. 4
  /\ quota \in [at : Times \cup {Never}, login : Logins]
  /\ calls \subseteq Call
  /\ due \in Int /\ due >= Never
  /\ extraction \in 0 .. 3
  /\ now \in Times

(* No sync hangs and none runs twice: the monitor shows a sync exactly     *)
(* while one request of the current generation is under way, across        *)
(* fallbacks, cancellations and the monitor being switched off and on.     *)
OneCallPerSync ==
  IF syncing THEN \E c \in calls : Live = {c} ELSE Live = {}

(* A sync starts only when the last failure allows it: not while the user  *)
(* must act, not before the backoff and Retry-After have passed - unless   *)
(* the login is not the one that failed.                                   *)
AllowedStart ==
  syncing' /\ ~syncing =>
    \/ ~needsAction /\ (retryAfter = Never \/ now >= retryAfter)
    \/ login' # login
    \/ login["file"] # seen

(* subscriptions.md: automatic retries with a refused local login stay     *)
(* paused until the local credentials change.  A refused login is sent     *)
(* again only when its file is noticed for the first time.                 *)
RefusedWaits ==
  \A c \in calls' \ calls :
    c.stage = "local" /\ c.login = rejected => c.login # seen

(* What is shown as observed was observed with the account that is set:    *)
(* no reply to a request with a replaced token gets through.               *)
MetricsOfCurrentAccount ==
  [][tool = "copilot" /\ quota' # quota =>
       quota'.login = login["file"] /\ enabled /\ syncing]_vars

(* A monitor that is ready has a deadline that will be kept: the timer of  *)
(* an enabled source that waits for nothing is running.  (Claude's may be  *)
(* stopped: one that fires and finds no cookie has the deadline it had.)   *)
DeadlineKept ==
  tool # "claude" /\ enabled /\ ~needsAction /\ ~syncing /\ online
    /\ (tool = "copilot" => login["file"] # NoLogin) => armed

(* Every sync ends, answered or cancelled.                                 *)
SyncOver(g) == ~(syncing /\ generation = g)
SyncEnds == \A g \in Generations : []<>SyncOver(g)
=============================================================================
